----------------------- MODULE MountCredentialsProofs -----------------------
(***************************************************************************)
(* The keyring stays usable, for any number of helpers, mounts, log-ins    *)
(* and rotations.  UsableButForMishaps speaks of states at rest only; the  *)
(* invariant follows the one valid token from Proton to the keyring        *)
(* through the handler, the backend or the wizard that holds it.           *)
(***************************************************************************)
EXTENDS MountCredentials, TLAPS

(* A log-in the wizard has not stored anything of yet.                      *)
Unstored == wizard.pc \in {"unlocking", "store_uid"}

(* Log-ins that can be known outside the wizard.                            *)
Published == IF Unstored THEN logins - 1 ELSE logins

(* Every UID and token outside the wizard is of one of the first n log-ins. *)
UidsBelow(n) ==
  /\ keyring.uid <= n /\ keyring.refresh_token.uid <= n
  /\ backend.creds.refresh_token.uid <= n /\ backend.fresh.uid <= n
  /\ \A h \in Helpers : session[h].uid <= n
  /\ \A m \in Mounts : handler[m].creds.refresh_token.uid <= n /\ handler[m].fresh.uid <= n

(* Nobody but the wizard can use or end a log-in it has not stored, and     *)
(* nobody holds a token before the first one is.                            *)
TokensInv ==
  /\ UidsBelow(Published)
  /\ keyring.uid = 0 => UidsBelow(0)
  /\ Unstored => logins # 0 /\ wizard.fresh = [uid |-> logins, gen |-> 1] /\ server[logins] = 1
  /\ WizardHolds => keyring.uid # 0 /\ wizard.fresh.uid <= logins
  /\ backend.pc \in {"store_uid", "store_token"} => backend.fresh.uid # 0
  /\ \A m \in Mounts : handler[m].step = "unlock" => handler[m].fresh.uid # 0

(* A connection is to a helper that listened, a handler runs in one that    *)
(* still does, and the handler of the mount under way is the one it waits   *)
(* for.                                                                     *)
HandlersInv ==
  /\ backend.pc # "idle" => mount # 0
  /\ backend.pc \notin BeforeConnection => helper[backend.conn] \in {"listening", "dead"}
  /\ \A m \in Mounts : handler[m].step # "none" =>
       /\ m <= mount /\ handler[m].on \in Helpers /\ helper[handler[m].on] = "listening"
       /\ m = mount => backend.pc \in Gone \cup {"resuming"}
       /\ m = mount /\ backend.pc = "resuming" => handler[m].on = backend.conn

(* Where the valid token is, as long as nothing went wrong: with the wizard *)
(* that stores it, with the mount that rotated it, or in the keyring.       *)
WizardStores ==
  /\ ~ MountHolds
  /\ Valid(wizard.fresh) /\ keyring.uid = wizard.fresh.uid
  /\ wizard.pc = "store_passphrase" => keyring.refresh_token = wizard.fresh

MountStores ==
  /\ keyring.salted_passphrase
  /\ \A m \in Mounts : handler[m].step = "unlock" =>
       m = mount /\ backend.pc = "resuming" /\ Valid(handler[m].fresh)
  /\ backend.pc \in {"store_uid", "store_token"} => Valid(backend.fresh)
  /\ backend.pc = "store_token" => keyring.uid = backend.fresh.uid

KeyringInv ==
  mishaps = {} =>
    /\ WizardHolds => WizardStores
    /\ ~ WizardHolds /\ MountHolds => MountStores
    /\ ~ WizardHolds /\ ~ MountHolds /\ keyring.uid # 0 => Usable

CredentialsInv == TypeOK /\ TokensInv /\ HandlersInv /\ KeyringInv

-----------------------------------------------------------------------------
(* Types.                                                                   *)
HandlerType ==
  [step : {"none", "refresh", "unlock"}, on : 0 .. MaxHelpers, creds : Credentials, fresh : Tokens]
BackendType ==
  [pc : BackendSteps, conn : 0 .. MaxHelpers, creds : Credentials, fresh : Tokens]
WizardType == [pc : WizardSteps, fresh : Tokens]

(* The records that stand for "nothing".                                    *)
LEMMA EmptyTypes ==
  /\ NoToken \in Tokens /\ NoCredentials \in Credentials /\ IdleBackend \in BackendType
  /\ IdleBackend.pc = "idle" /\ IdleWizard \in WizardType /\ NoHandler \in HandlerType
<1>1. NoToken \in Tokens
  BY MountBounds DEF NoToken, Tokens
<1>2. NoCredentials \in Credentials
  BY <1>1, MountBounds DEF NoCredentials, Credentials
<1>3. IdleBackend \in BackendType /\ IdleBackend.pc = "idle"
  BY <1>1, <1>2, MountBounds DEF IdleBackend, BackendType, BackendSteps
<1>4. IdleWizard \in WizardType
  BY <1>1 DEF IdleWizard, WizardType, WizardSteps
<1>5. NoHandler \in HandlerType
  BY <1>1, <1>2, MountBounds DEF NoHandler, HandlerType
<1> QED BY <1>1, <1>2, <1>3, <1>4, <1>5

(* A backend that ended, or has just been started, holds nothing.           *)
LEMMA EndedType ==
  ASSUME NEW pc \in BackendSteps
  PROVE  /\ Ended(pc) \in BackendType /\ Ended(pc).pc = pc
         /\ Ended(pc).creds = NoCredentials /\ Ended(pc).fresh = NoToken
BY EmptyTypes DEF Ended, IdleBackend, BackendType

(* The next generation of a token that is not the last.                     *)
LEMMA RotatedType ==
  ASSUME NEW t \in Tokens, t.gen < MaxTokens
  PROVE  /\ Rotated(t) \in Tokens /\ Rotated(t).uid = t.uid /\ Rotated(t).gen = t.gen + 1
BY MountBounds DEF Rotated, Tokens

(* A refresh Proton accepts makes the next generation the valid one.        *)
LEMMA AcceptedRotates ==
  ASSUME TypeOK, NEW m \in Mounts, RefreshAccepted(m)
  PROVE  LET t == handler[m].creds.refresh_token
         IN  /\ t \in Tokens /\ t.uid \in Logins /\ t.gen < MaxTokens
             /\ server' = [server EXCEPT ![t.uid] = t.gen + 1]
             /\ server' \in [Logins -> 0 .. MaxTokens]
             /\ server'[t.uid] = Rotated(t).gen
<1> DEFINE t == handler[m].creds.refresh_token
<1>1. handler[m] \in HandlerType
  BY DEF TypeOK, HandlerType
<1>2. t \in Tokens
  BY <1>1 DEF HandlerType, Credentials
<1>3. t.uid \in Logins /\ server[t.uid] = t.gen /\ handler[m].creds.uid = t.uid
  BY DEF RefreshAccepted, Valid
<1>4. t.gen < MaxTokens /\ server' = [server EXCEPT ![t.uid] = t.gen + 1]
  BY <1>3 DEF RefreshAccepted
<1> HIDE DEF t
<1>5. t.gen \in Nat
  BY <1>2 DEF Tokens
<1>6. server' \in [Logins -> 0 .. MaxTokens] /\ server'[t.uid] = t.gen + 1
  BY <1>3, <1>4, <1>5, MountBounds DEF TypeOK
<1> QED BY <1>2, <1>3, <1>4, <1>6, RotatedType DEF t

(* The types as the steps use them.                                         *)
LEMMA Types ==
  TypeOK <=>
    /\ server \in [Logins -> 0 .. MaxTokens] /\ logins \in 0 .. MaxLogins
    /\ keyring \in Credentials
    /\ helper \in [Helpers -> HelperStates] /\ sock \in 0 .. MaxHelpers
    /\ session \in [Helpers -> Tokens]
    /\ backend \in BackendType
    /\ backend.pc \notin BeforeConnection => backend.conn \in Helpers
    /\ mount \in 0 .. MaxMounts /\ handler \in [Mounts -> HandlerType]
    /\ wizard \in WizardType /\ mishaps \subseteq Mishaps
BY DEF TypeOK, BackendType, HandlerType, WizardType

LEMMA TypesNext ==
  ASSUME server' \in [Logins -> 0 .. MaxTokens], logins' \in 0 .. MaxLogins,
         keyring' \in Credentials,
         helper' \in [Helpers -> HelperStates], sock' \in 0 .. MaxHelpers,
         session' \in [Helpers -> Tokens],
         backend' \in BackendType,
         backend'.pc \notin BeforeConnection => backend'.conn \in Helpers,
         mount' \in 0 .. MaxMounts, handler' \in [Mounts -> HandlerType],
         wizard' \in WizardType, mishaps' \subseteq Mishaps
  PROVE  TypeOK'
BY DEF TypeOK, BackendType, HandlerType, WizardType

(* The backend goes to another step, or away.                               *)
LEMMA GotoType ==
  ASSUME TypeOK, NEW pc \in BackendSteps, Goto(pc)
  PROVE  /\ backend' \in BackendType /\ backend'.pc = pc /\ backend'.conn = backend.conn
         /\ backend'.creds = backend.creds /\ backend'.fresh = backend.fresh
BY Types DEF Goto, BackendType

LEMMA FailType ==
  ASSUME Fail
  PROVE  backend' \in BackendType /\ backend'.pc = "failed" /\ backend' = Ended("failed")
BY EndedType DEF Fail, BackendSteps

(* An exit leaves no backend in do_mount.                                   *)
LEMMA ExitType ==
  ASSUME BackendExits
  PROVE  \E pc \in {"idle", "killed"} :
           backend' = Ended(pc) /\ backend' \in BackendType /\ backend'.pc = pc
BY EndedType DEF BackendExits, BackendSteps

(* A connection is to a helper.                                             *)
LEMMA ConnectedType ==
  ASSUME TypeOK, Reachable
  PROVE  /\ Connected \in BackendType /\ Connected.pc = "lookup_uid" /\ Connected.conn \in Helpers
         /\ Connected.creds = backend.creds /\ Connected.fresh = backend.fresh
<1>1. sock \in Helpers
  BY MountBounds DEF Reachable, TypeOK, Helpers
<1> QED BY <1>1, Types, MountBounds DEF Connected, BackendType, BackendSteps, Helpers

(* A look-up copies one secret.                                             *)
LEMMA LookupCopies ==
  ASSUME TypeOK, Lookup
  PROVE  /\ backend' \in BackendType /\ backend'.conn = backend.conn
         /\ backend'.fresh = backend.fresh
         /\ backend'.creds.refresh_token \in {backend.creds.refresh_token, keyring.refresh_token}
<1> DEFINE C1 == [backend.creds EXCEPT !.uid = keyring.uid]
           C2 == [backend.creds EXCEPT !.refresh_token = keyring.refresh_token]
           C3 == [backend.creds EXCEPT !.salted_passphrase = keyring.salted_passphrase]
<1>1. keyring \in Credentials /\ backend \in BackendType /\ backend.creds \in Credentials
  BY Types DEF BackendType
<1>2. /\ C1 \in Credentials /\ C1.refresh_token = backend.creds.refresh_token
      /\ C2 \in Credentials /\ C2.refresh_token = keyring.refresh_token
      /\ C3 \in Credentials /\ C3.refresh_token = backend.creds.refresh_token
  BY <1>1 DEF Credentials
<1>3. \/ backend' = [backend EXCEPT !.pc = "lookup_token", !.creds = C1]
      \/ backend' = [backend EXCEPT !.pc = "lookup_passphrase", !.creds = C2]
      \/ backend' = [backend EXCEPT !.pc = "calling", !.creds = C3]
  BY DEF Lookup
<1> HIDE DEF C1, C2, C3
<1>4. ASSUME NEW pc \in BackendSteps, NEW c \in Credentials,
             backend' = [backend EXCEPT !.pc = pc, !.creds = c]
      PROVE  /\ backend' \in BackendType /\ backend'.conn = backend.conn
             /\ backend'.fresh = backend.fresh /\ backend'.creds = c
  BY <1>1, <1>4 DEF BackendType
<1>5. {"lookup_token", "lookup_passphrase", "calling"} \subseteq BackendSteps
  BY DEF BackendSteps
<1> QED BY <1>2, <1>3, <1>4, <1>5

-----------------------------------------------------------------------------
(* The steps of the backend keep the types.                                 *)
LEMMA BackendTypeStep ==
  ASSUME TypeOK, StartMount \/ BackendStep \/ BackendExits
  PROVE  TypeOK'
<1> USE DEF OthersThanBackend
<1>1. CASE StartMount
  <2>1. backend' \in BackendType /\ backend'.pc = "connecting" /\ mount' \in 0 .. MaxMounts
    BY <1>1, EndedType, MountBounds DEF StartMount, TypeOK, BackendSteps
  <2> QED BY <1>1, <2>1, Types, TypesNext DEF StartMount, BeforeConnection
<1>2. CASE Connect
  <2>1. CASE Reachable
    BY <1>2, <2>1, ConnectedType, Types, TypesNext DEF Connect
  <2>2. CASE ~ Reachable
    <3>1. backend' \in BackendType /\ backend'.pc = "finding"
      BY <1>2, <2>2, Types DEF Connect, BackendType, BackendSteps
    <3> QED BY <1>2, <3>1, Types, TypesNext DEF Connect, BeforeConnection
  <2> QED BY <2>1, <2>2
<1>3. CASE FindHelper
  <2>1. backend' \in BackendType /\ backend'.pc \in BeforeConnection /\ sock' \in 0 .. MaxHelpers
    BY <1>3, GotoType, FailType, MountBounds DEF FindHelper, BackendSteps, BeforeConnection, TypeOK
  <2> QED BY <1>3, <2>1, Types, TypesNext DEF FindHelper
<1>4. CASE Spawn
  <2>1. backend' \in BackendType /\ backend'.pc \in BeforeConnection
    BY <1>4, GotoType, FailType DEF Spawn, BackendSteps, BeforeConnection
  <2>2. helper' \in [Helpers -> HelperStates]
    BY <1>4 DEF Spawn, TypeOK, HelperStates
  <2> QED BY <1>4, <2>1, <2>2, Types, TypesNext DEF Spawn
<1>5. CASE WaitForSocket
  <2>1. backend' \in BackendType /\ backend'.pc \in BeforeConnection
    BY <1>5, GotoType, FailType DEF WaitForSocket, BackendSteps, BeforeConnection
  <2> QED BY <1>5, <2>1, Types, TypesNext DEF WaitForSocket
<1>6. CASE Reconnect
  BY <1>6, ConnectedType, EndedType, Types, TypesNext DEF Reconnect, BeforeConnection, BackendSteps
<1>7. CASE Lookup
  <2>1. /\ backend' \in BackendType /\ backend'.conn = backend.conn
        /\ backend.pc \notin BeforeConnection
    BY <1>7, LookupCopies DEF Lookup, At, BeforeConnection
  <2> QED BY <1>7, <2>1, Types, TypesNext DEF Lookup
<1>8. CASE LookupFails
  BY <1>8, FailType, Types, TypesNext DEF LookupFails, BeforeConnection
<1>9. CASE CallResume
  <2>1. /\ backend' \in BackendType
        /\ backend'.pc \notin BeforeConnection => backend'.conn \in Helpers
    BY <1>9, GotoType, FailType, Types DEF CallResume, At, BackendSteps, BeforeConnection
  <2>2. [step |-> "refresh", on |-> backend.conn, creds |-> backend.creds, fresh |-> NoToken]
          \in HandlerType
    BY Types, EmptyTypes DEF BackendType, HandlerType
  <2>3. handler' \in [Mounts -> HandlerType]
    BY <1>9, <2>2, Types DEF CallResume
  <2> QED BY <1>9, <2>1, <2>3, Types, TypesNext DEF CallResume
<1>10. CASE ResumeEof
  <2>1. /\ backend' \in BackendType
        /\ backend'.pc \notin BeforeConnection => backend'.conn \in Helpers
    BY <1>10, GotoType, FailType, Types DEF ResumeEof, At, BackendSteps, BeforeConnection
  <2> QED BY <1>10, <2>1, Types, TypesNext DEF ResumeEof
<1>11. CASE StoreUid
  <2>1. /\ backend' \in BackendType /\ backend'.conn = backend.conn
        /\ backend.pc \notin BeforeConnection
    BY <1>11, GotoType DEF StoreUid, At, BackendSteps, BeforeConnection
  <2>2. keyring' \in Credentials /\ mishaps' \subseteq Mishaps
    BY <1>11, Types DEF StoreUid, BackendType, Credentials, Tokens, Mishaps
  <2> QED BY <1>11, <2>1, <2>2, Types, TypesNext DEF StoreUid
<1>12. CASE StoreToken
  <2>1. /\ backend' \in BackendType /\ backend'.conn = backend.conn
        /\ backend.pc \notin BeforeConnection
    BY <1>12, GotoType DEF StoreToken, At, BackendSteps, BeforeConnection
  <2>2. keyring' \in Credentials /\ mishaps' \subseteq Mishaps
    BY <1>12, Types DEF StoreToken, BackendType, Credentials, Mishaps
  <2> QED BY <1>12, <2>1, <2>2, Types, TypesNext DEF StoreToken
<1>13. CASE BackendExits
  <2>1. mishaps' \subseteq Mishaps
    BY <1>13 DEF BackendExits, TypeOK, Mishaps
  <2> QED BY <1>13, <2>1, ExitType, Types, TypesNext DEF BackendExits, BeforeConnection
<1> QED BY <1>1, <1>2, <1>3, <1>4, <1>5, <1>6, <1>7, <1>8, <1>9, <1>10, <1>11, <1>12, <1>13
        DEF BackendStep

(* So do those of helpers and their handlers.                               *)
LEMMA AnswerErrorType ==
  ASSUME TypeOK, NEW m \in Mounts, AnswerError(m)
  PROVE  /\ handler' \in [Mounts -> HandlerType] /\ backend' \in BackendType
         /\ backend'.pc \notin BeforeConnection => backend'.conn \in Helpers
BY Types, EmptyTypes, EndedType DEF AnswerError, BeforeConnection, BackendSteps

LEMMA HelperTypeStep ==
  ASSUME TypeOK,
         \/ \E h \in Helpers : StartStep(h) \/ HelperDies(h) \/ Refresh401(h)
         \/ \E m \in Mounts : HandlerStep(m)
  PROVE  TypeOK'
<1>1. ASSUME NEW h \in Helpers, StartStep(h) PROVE TypeOK'
  <2>1. helper' \in [Helpers -> HelperStates] /\ sock' \in 0 .. MaxHelpers
    <3>1. \A st \in HelperStates : [helper EXCEPT ![h] = st] \in [Helpers -> HelperStates]
      BY Types
    <3>2. 0 \in 0 .. MaxHelpers /\ h \in 0 .. MaxHelpers
      BY MountBounds DEF Helpers
    <3> QED BY <1>1, <3>1, <3>2, Types
            DEF StartStep, HelperClears, HelperBinds, HelperListens, HelperStates
  <2> QED BY <1>1, <2>1, Types, TypesNext
          DEF StartStep, HelperClears, HelperBinds, HelperListens, HelperOnly
<1>2. ASSUME NEW h \in Helpers, HelperDies(h) PROVE TypeOK'
  <2>1. /\ helper' \in [Helpers -> HelperStates] /\ session' \in [Helpers -> Tokens]
        /\ mishaps' \subseteq Mishaps
    BY <1>2, Types, EmptyTypes DEF HelperDies, HelperStates, Mishaps
  <2>2. handler' \in [Mounts -> HandlerType]
    BY <1>2, Types, EmptyTypes DEF HelperDies
  <2> QED BY <1>2, <2>1, <2>2, Types, TypesNext DEF HelperDies
<1>3. ASSUME NEW h \in Helpers, Refresh401(h) PROVE TypeOK'
  <2>1. session[h] \in Tokens /\ session[h].gen < MaxTokens /\ server[session[h].uid] = session[h].gen
    BY <1>3, Types DEF Refresh401, Valid
  <2>2. session' \in [Helpers -> Tokens]
    BY <1>3, <2>1, Types, RotatedType DEF Refresh401
  <2>3. server' \in [Logins -> 0 .. MaxTokens]
    <3>1. session[h].gen + 1 \in 0 .. MaxTokens
      BY <2>1, MountBounds DEF Tokens
    <3>2. server' = [server EXCEPT ![session[h].uid] = session[h].gen + 1]
      BY <1>3, <2>1 DEF Refresh401
    <3> QED BY <3>1, <3>2, Types
  <2>4. mishaps' \subseteq Mishaps
    BY <1>3, Types DEF Refresh401, Mishaps
  <2> QED BY <1>3, <2>2, <2>3, <2>4, Types, TypesNext DEF Refresh401
<1>4. ASSUME NEW m \in Mounts, HandlerStep(m) PROVE TypeOK'
  <2>1. CASE RefreshFails(m)
    BY <2>1, AnswerErrorType, Types, TypesNext DEF RefreshFails
  <2>2. CASE RefreshReplyLost(m)
    <3>1. server' \in [Logins -> 0 .. MaxTokens] /\ mishaps' \subseteq Mishaps
      BY <2>2, AcceptedRotates, Types DEF RefreshReplyLost, Mishaps
    <3> QED BY <2>2, <3>1, AnswerErrorType, Types, TypesNext DEF RefreshReplyLost
  <2>3. CASE Refreshed(m)
    <3>1. server' \in [Logins -> 0 .. MaxTokens] /\ mishaps' \subseteq Mishaps
      BY <2>3, AcceptedRotates, Types DEF Refreshed, Mishaps
    <3>2. Rotated(handler[m].creds.refresh_token) \in Tokens
      BY <2>3, AcceptedRotates, RotatedType DEF Refreshed
    <3>3. handler' \in [Mounts -> HandlerType]
      BY <2>3, <3>2, Types DEF Refreshed, HandlerType
    <3> QED BY <2>3, <3>1, <3>3, Types, TypesNext DEF Refreshed
  <2>4. CASE ResumeSucceeds(m)
    <3>1. handler[m] \in HandlerType /\ handler[m].fresh \in Tokens
      BY Types DEF HandlerType
    <3>2. session' \in [Helpers -> Tokens] /\ handler' \in [Mounts -> HandlerType]
      BY <2>4, <3>1, Types, EmptyTypes DEF ResumeSucceeds
    <3>3. CASE Awaited(m)
      <4>1. /\ backend' \in BackendType /\ backend'.conn = backend.conn
            /\ backend.pc \notin BeforeConnection
        BY <2>4, <3>1, <3>3, Types
           DEF ResumeSucceeds, Awaited, At, BackendType, BackendSteps, BeforeConnection
      <4> QED BY <2>4, <3>2, <4>1, Types, TypesNext DEF ResumeSucceeds
    <3>4. CASE ~ Awaited(m)
      BY <2>4, <3>2, <3>4, Types, TypesNext DEF ResumeSucceeds
    <3> QED BY <3>3, <3>4
  <2>5. CASE ResumeFails(m)
    <3>1. server' \in [Logins -> 0 .. MaxTokens] /\ mishaps' \subseteq Mishaps
      BY <2>5, Types, MountBounds DEF ResumeFails, Mishaps
    <3> QED BY <2>5, <3>1, AnswerErrorType, Types, TypesNext DEF ResumeFails
  <2> QED BY <1>4, <2>1, <2>2, <2>3, <2>4, <2>5 DEF HandlerStep
<1> QED BY <1>1, <1>2, <1>3, <1>4

(* And those of the wizard.                                                 *)
LEMMA WizardTypeStep ==
  ASSUME TypeOK, WizardStep
  PROVE  TypeOK'
<1> USE DEF WizardOnly
<1>1. CASE OpenWizard \/ VerificationRequired \/ LoginSucceeds
  <2>1. wizard' \in WizardType
    BY <1>1, Types DEF OpenWizard, VerificationRequired, LoginSucceeds, WizardType, WizardSteps
  <2> QED BY <1>1, <2>1, Types, TypesNext DEF OpenWizard, VerificationRequired, LoginSucceeds
<1>2. CASE Auth \/ AuthWithHV
  <2>1. LoginAccepted
    BY <1>2 DEF Auth, AuthWithHV
  <2>2. /\ logins' \in 0 .. MaxLogins /\ server' \in [Logins -> 0 .. MaxTokens]
        /\ [uid |-> logins + 1, gen |-> 1] \in Tokens
    <3>1. logins + 1 \in 0 .. MaxLogins /\ 1 \in 0 .. MaxTokens
      BY <2>1, Types, MountBounds DEF LoginAccepted
    <3>2. [uid |-> logins + 1, gen |-> 1] \in Tokens
      BY <3>1 DEF Tokens
    <3> QED BY <2>1, <3>1, <3>2, Types DEF LoginAccepted
  <2>3. wizard' \in WizardType
    BY <2>1, <2>2 DEF LoginAccepted, WizardType, WizardSteps
  <2> QED BY <2>1, <2>2, <2>3, Types, TypesNext DEF LoginAccepted
<1>3. CASE LoginFails
  <2>1. server' \in [Logins -> 0 .. MaxTokens]
    BY <1>3, Types, MountBounds DEF LoginFails
  <2> QED BY <1>3, <2>1, EmptyTypes, Types, TypesNext DEF LoginFails
<1>4. CASE WizardStoresUid
  <2>1. keyring' \in Credentials /\ wizard' \in WizardType /\ mishaps' \subseteq Mishaps
    BY <1>4, Types DEF WizardStoresUid, Credentials, WizardType, WizardSteps, Tokens, Mishaps
  <2> QED BY <1>4, <2>1, Types, TypesNext DEF WizardStoresUid
<1>5. CASE WizardStoresToken
  <2>1. keyring' \in Credentials /\ wizard' \in WizardType
    BY <1>5, Types DEF WizardStoresToken, Credentials, WizardType, WizardSteps
  <2> QED BY <1>5, <2>1, Types, TypesNext DEF WizardStoresToken
<1>6. CASE WizardStoresPassphrase
  <2>1. keyring' \in Credentials
    BY <1>6, Types DEF WizardStoresPassphrase, Credentials
  <2> QED BY <1>6, <2>1, EmptyTypes, Types, TypesNext DEF WizardStoresPassphrase
<1>7. CASE WizardGivesUp
  <2>1. mishaps' \subseteq Mishaps
    BY <1>7, Types DEF WizardGivesUp, Mishaps
  <2> QED BY <1>7, <2>1, EmptyTypes, Types, TypesNext DEF WizardGivesUp
<1> QED BY <1>1, <1>2, <1>3, <1>4, <1>5, <1>6, <1>7 DEF WizardStep

-----------------------------------------------------------------------------
(* Handlers and connections.                                                *)

(* A step that leaves mounts, helpers and handlers alone.                   *)
LEMMA HandlersFrame ==
  ASSUME HandlersInv, UNCHANGED <<backend, mount, helper, handler>>
  PROVE  HandlersInv'
BY DEF HandlersInv

(* The steps of the backend keep HandlersInv.                               *)
LEMMA BackendHandlersStep ==
  ASSUME TypeOK, HandlersInv, StartMount \/ BackendStep \/ BackendExits
  PROVE  HandlersInv'
<1> USE DEF OthersThanBackend
<1>1. CASE StartMount
  <2>1. backend'.pc = "connecting" /\ mount' = mount + 1 /\ mount \in Nat
    BY <1>1, EndedType DEF StartMount, BackendSteps, TypeOK
  <2> QED BY <1>1, <2>1 DEF StartMount, HandlersInv, BeforeConnection, Mounts
<1>2. CASE Connect \/ Reconnect
  <2>1. CASE Reachable
    <3>1. backend' = Connected /\ helper[sock] = "listening" /\ Connected.conn = sock
      BY <1>2, <2>1, Types DEF Connect, Reconnect, Reachable, Connected, BackendType
    <3> QED BY <1>2, <2>1, <3>1, ConnectedType
            DEF Connect, Reconnect, HandlersInv, At, Gone
  <2>2. CASE ~ Reachable
    <3>1. backend'.pc \in {"failed", "finding"}
      BY <1>2, <2>2, Types, EndedType DEF Connect, Reconnect, BackendType, BackendSteps
    <3> QED BY <1>2, <2>2, <3>1 DEF Connect, Reconnect, HandlersInv, At, BeforeConnection, Gone
  <2> QED BY <2>1, <2>2
<1>3. CASE FindHelper \/ WaitForSocket
  <2>1. backend'.pc \in {"failed", "spawning", "reconnecting"}
    BY <1>3, GotoType, FailType DEF FindHelper, WaitForSocket, BackendSteps
  <2> QED BY <1>3, <2>1 DEF FindHelper, WaitForSocket, HandlersInv, At, BeforeConnection, Gone
<1>4. CASE Spawn
  <2>1. backend'.pc \in {"failed", "waiting"}
    BY <1>4, GotoType, FailType DEF Spawn, BackendSteps
  <2>2. \A h \in Helpers : helper[h] \in {"listening", "dead"} => helper'[h] = helper[h]
    BY <1>4 DEF Spawn, FirstAbsent, TypeOK
  <2> QED BY <1>4, <2>1, <2>2 DEF Spawn, HandlersInv, At, BeforeConnection, Gone
<1>5. CASE Lookup
  <2>1. /\ backend'.pc \in {"lookup_token", "lookup_passphrase", "calling"}
        /\ backend'.conn = backend.conn
        /\ backend.pc \in {"lookup_uid", "lookup_token", "lookup_passphrase"}
    BY <1>5, Types DEF Lookup, At, BackendType
  <2> QED BY <1>5, <2>1 DEF Lookup, HandlersInv, BeforeConnection, Gone
<1>6. CASE LookupFails \/ ResumeEof
  <2>1. \/ backend'.pc = "failed"
        \/ backend.pc = "resuming" /\ backend'.pc = "crashed" /\ backend'.conn = backend.conn
    BY <1>6, FailType, GotoType DEF LookupFails, ResumeEof, At, BackendSteps
  <2> QED BY <1>6, <2>1 DEF LookupFails, ResumeEof, HandlersInv, BeforeConnection, At, Gone
<1>7. CASE CallResume
  <2>1. /\ backend.pc = "calling" /\ backend.conn \in Helpers /\ mount \in Mounts
    BY <1>7, Types, MountBounds DEF CallResume, At, BeforeConnection, HandlersInv, Mounts
  <2>2. CASE Alive(backend.conn)
    <3>1. helper[backend.conn] = "listening"
      BY <2>1, <2>2 DEF Alive, HandlersInv, BeforeConnection
    <3>2. \A m \in Mounts : handler'[m] = IF m = mount
            THEN [step |-> "refresh", on |-> backend.conn, creds |-> backend.creds, fresh |-> NoToken]
            ELSE handler[m]
      BY <1>7, <2>1, <2>2, Types DEF CallResume
    <3>3. backend'.pc = "resuming" /\ backend'.conn = backend.conn
      BY <1>7, <2>2, GotoType DEF CallResume, BackendSteps
    <3> QED BY <1>7, <2>1, <3>1, <3>2, <3>3, Types
            DEF CallResume, HandlersInv, BeforeConnection, Mounts, Gone
  <2>3. CASE ~ Alive(backend.conn)
    BY <1>7, <2>1, <2>3, FailType DEF CallResume, HandlersInv, BeforeConnection, Gone
  <2> QED BY <2>2, <2>3
<1>8. CASE StoreUid \/ StoreToken
  <2>1. /\ backend'.pc \in {"store_token", "mounted"} /\ backend'.conn = backend.conn
        /\ backend.pc \in {"store_uid", "store_token"}
    BY <1>8, GotoType DEF StoreUid, StoreToken, At, BackendSteps
  <2> QED BY <1>8, <2>1 DEF StoreUid, StoreToken, HandlersInv, BeforeConnection, Gone
<1>9. CASE BackendExits
  BY <1>9, ExitType DEF BackendExits, HandlersInv, BeforeConnection, Gone
<1> QED BY <1>1, <1>2, <1>3, <1>4, <1>5, <1>6, <1>7, <1>8, <1>9 DEF BackendStep

(* So do those of helpers and their handlers: a helper that has listened    *)
(* only dies, and a handler's answer is read by the mount that waits.       *)
LEMMA HelperHandlersStep ==
  ASSUME TypeOK, HandlersInv,
         \/ \E h \in Helpers : StartStep(h) \/ HelperDies(h) \/ Refresh401(h)
         \/ \E m \in Mounts : HandlerStep(m)
  PROVE  HandlersInv'
<1>1. ASSUME NEW h \in Helpers, StartStep(h) PROVE HandlersInv'
  <2>1. \A g \in Helpers : helper[g] \in {"listening", "dead"} => helper'[g] = helper[g]
    BY <1>1, Types DEF StartStep, HelperClears, HelperBinds, HelperListens
  <2>2. UNCHANGED <<backend, mount, handler>>
    BY <1>1 DEF StartStep, HelperClears, HelperBinds, HelperListens, HelperOnly
  <2> QED BY <2>1, <2>2, Types DEF HandlersInv
<1>2. ASSUME NEW h \in Helpers, HelperDies(h) PROVE HandlersInv'
  <2>1. /\ \A g \in Helpers : helper'[g] = IF g = h THEN "dead" ELSE helper[g]
        /\ \A m \in Mounts : handler'[m] = IF handler[m].on = h THEN NoHandler ELSE handler[m]
        /\ UNCHANGED <<backend, mount>>
    BY <1>2, Types DEF HelperDies
  <2> QED BY <2>1, Types DEF HandlersInv, NoHandler
<1>3. ASSUME NEW h \in Helpers, Refresh401(h) PROVE HandlersInv'
  BY <1>3, HandlersFrame DEF Refresh401
<1>4. ASSUME NEW m \in Mounts, HandlerStep(m) PROVE HandlersInv'
  <2>1. CASE AnswerError(m) /\ UNCHANGED <<mount, helper>>
    <3>1. \A k \in Mounts : handler'[k] = IF k = m THEN NoHandler ELSE handler[k]
      BY <2>1, Types DEF AnswerError
    <3>2. backend' = backend \/ backend'.pc = "failed"
      BY <2>1, EndedType DEF AnswerError, BackendSteps
    <3>3. backend' # backend => m = mount /\ mount \in Mounts
      BY <2>1 DEF AnswerError, Awaited
    <3> QED BY <2>1, <3>1, <3>2, <3>3 DEF HandlersInv, NoHandler, BeforeConnection, Gone, Mounts
  <2>2. CASE Refreshed(m)
    <3>1. /\ \A k \in Mounts : handler'[k].on = handler[k].on
          /\ \A k \in Mounts : handler'[k].step # "none" => handler[k].step # "none"
          /\ UNCHANGED <<backend, mount, helper>>
      BY <2>2, Types DEF Refreshed, RefreshAccepted, HandlerType
    <3> QED BY <3>1 DEF HandlersInv
  <2>3. CASE ResumeSucceeds(m)
    <3>1. /\ \A k \in Mounts : handler'[k] = IF k = m THEN NoHandler ELSE handler[k]
          /\ UNCHANGED <<mount, helper>>
      BY <2>3, Types DEF ResumeSucceeds
    <3>2. CASE Awaited(m)
      <4>1. /\ backend'.pc = "store_uid" /\ backend'.conn = backend.conn
            /\ backend.pc = "resuming" /\ m = mount
        BY <2>3, <3>2, Types DEF ResumeSucceeds, Awaited, At, BackendType
      <4> QED BY <3>1, <4>1 DEF HandlersInv, NoHandler, BeforeConnection
    <3>3. CASE ~ Awaited(m)
      <4>1. backend' = backend
        BY <2>3, <3>3 DEF ResumeSucceeds
      <4> QED BY <3>1, <4>1 DEF HandlersInv, NoHandler
    <3> QED BY <3>2, <3>3
  <2> QED BY <1>4, <2>1, <2>2, <2>3
          DEF HandlerStep, RefreshFails, RefreshReplyLost, ResumeFails
<1> QED BY <1>1, <1>2, <1>3, <1>4

-----------------------------------------------------------------------------
(* Which log-ins are known where.                                           *)

(* The parts of UidsBelow that a step does not change.                      *)
KeyringBelow(n) == keyring.uid <= n /\ keyring.refresh_token.uid <= n
BackendBelow(n) == backend.creds.refresh_token.uid <= n /\ backend.fresh.uid <= n
SessionsBelow(n) == \A h \in Helpers : session[h].uid <= n
HandlersBelow(n) ==
  \A m \in Mounts : handler[m].creds.refresh_token.uid <= n /\ handler[m].fresh.uid <= n

(* UidsBelow by the process that holds the UIDs.                            *)
LEMMA UidsByProcess ==
  ASSUME NEW n
  PROVE  UidsBelow(n) <=>
           KeyringBelow(n) /\ BackendBelow(n) /\ SessionsBelow(n) /\ HandlersBelow(n)
BY DEF UidsBelow, KeyringBelow, BackendBelow, SessionsBelow, HandlersBelow

(* Same, after a step.                                                      *)
LEMMA UidsByProcessNext ==
  ASSUME NEW n, KeyringBelow(n)', BackendBelow(n)', SessionsBelow(n)', HandlersBelow(n)'
  PROVE  UidsBelow(n)'
BY DEF UidsBelow, KeyringBelow, BackendBelow, SessionsBelow, HandlersBelow

(* An idle backend and a finished handler hold nothing.                     *)
LEMMA EmptyBelow ==
  /\ IdleBackend.creds.refresh_token.uid = 0 /\ IdleBackend.fresh.uid = 0
  /\ NoHandler.creds.refresh_token.uid = 0 /\ NoHandler.fresh.uid = 0 /\ NoHandler.step = "none"
BY DEF IdleBackend, NoHandler, NoCredentials, NoToken

(* The backend only copies UIDs and tokens from the keyring and back.       *)
LEMMA BackendUidsStep ==
  ASSUME TypeOK, StartMount \/ BackendStep \/ BackendExits, NEW n \in Nat, UidsBelow(n)
  PROVE  UidsBelow(n)'
<1> USE DEF OthersThanBackend
<1>0. KeyringBelow(n) /\ BackendBelow(n) /\ SessionsBelow(n) /\ HandlersBelow(n)
  BY UidsByProcess
<1>1. SessionsBelow(n)'
  BY <1>0 DEF SessionsBelow, BackendStep, StartMount, Connect, FindHelper, Spawn, WaitForSocket,
     Reconnect, Lookup, LookupFails, CallResume, ResumeEof, StoreUid, StoreToken, BackendExits
<1>2. BackendBelow(n)'
  <2>1. CASE backend'.creds = backend.creds /\ backend'.fresh = backend.fresh
    BY <1>0, <2>1 DEF BackendBelow
  <2>2. ASSUME NEW pc \in BackendSteps, backend' = Ended(pc) PROVE BackendBelow(n)'
    BY <2>2, EndedType DEF BackendBelow, NoCredentials, NoToken
  <2>3. CASE Lookup
    <3>1. /\ backend'.creds.refresh_token \in {backend.creds.refresh_token, keyring.refresh_token}
          /\ backend'.fresh = backend.fresh
      BY <2>3, LookupCopies
    <3> QED BY <1>0, <3>1 DEF BackendBelow, KeyringBelow
  <2>4. CASE Connect
    BY <1>0, <2>1, <2>4, Types DEF Connect, Connected, BackendType
  <2> QED BY <2>1, <2>2, <2>3, <2>4, GotoType, FailType, ExitType, ConnectedType
          DEF BackendStep, StartMount, FindHelper, Spawn, WaitForSocket, Reconnect,
              LookupFails, CallResume, ResumeEof, StoreUid, StoreToken, BackendSteps
<1>3. KeyringBelow(n)'
  <2>1. \/ keyring' = keyring
        \/ keyring' = [keyring EXCEPT !.uid = backend.fresh.uid]
        \/ keyring' = [keyring EXCEPT !.refresh_token = backend.fresh]
    BY DEF BackendStep, StartMount, Connect, FindHelper, Spawn, WaitForSocket,
     Reconnect, Lookup, LookupFails, CallResume, ResumeEof, StoreUid, StoreToken, BackendExits
  <2> QED BY <1>0, <2>1, Types DEF KeyringBelow, BackendBelow, Credentials
<1>4. HandlersBelow(n)'
  <2>1. CASE CallResume
    <3>1. \A m \in Mounts : handler'[m] \in {handler[m],
            [step |-> "refresh", on |-> backend.conn, creds |-> backend.creds, fresh |-> NoToken]}
      BY <2>1, Types DEF CallResume
    <3> QED BY <1>0, <3>1 DEF HandlersBelow, BackendBelow, NoToken
  <2>2. CASE handler' = handler
    BY <1>0, <2>2 DEF HandlersBelow
  <2> QED BY <2>1, <2>2 DEF BackendStep, StartMount, Connect, FindHelper, Spawn, WaitForSocket,
     Reconnect, Lookup, LookupFails, ResumeEof, StoreUid, StoreToken, BackendExits
<1> QED BY <1>1, <1>2, <1>3, <1>4, UidsByProcessNext

(* Helpers and handlers only pass on the log-ins of their credentials.      *)
LEMMA HelperUidsStep ==
  ASSUME TypeOK, NEW n \in Nat, UidsBelow(n),
         \/ \E h \in Helpers : StartStep(h) \/ HelperDies(h) \/ Refresh401(h)
         \/ \E m \in Mounts : HandlerStep(m)
  PROVE  UidsBelow(n)'
<1>0. KeyringBelow(n) /\ BackendBelow(n) /\ SessionsBelow(n) /\ HandlersBelow(n)
  BY UidsByProcess
<1>1. ASSUME NEW h \in Helpers, StartStep(h) PROVE UidsBelow(n)'
  BY <1>1 DEF StartStep, HelperClears, HelperBinds, HelperListens, HelperOnly, UidsBelow
<1>2. ASSUME NEW h \in Helpers, HelperDies(h) PROVE UidsBelow(n)'
  <2>1. \A g \in Helpers : session'[g] \in {session[g], NoToken}
    BY <1>2, Types DEF HelperDies
  <2>2. \A m \in Mounts : handler'[m] \in {handler[m], NoHandler}
    BY <1>2, Types DEF HelperDies
  <2>3. SessionsBelow(n)' /\ HandlersBelow(n)'
    BY <1>0, <2>1, <2>2, EmptyBelow DEF SessionsBelow, HandlersBelow, NoToken
  <2>4. KeyringBelow(n)' /\ BackendBelow(n)'
    BY <1>0, <1>2 DEF HelperDies, KeyringBelow, BackendBelow
  <2> QED BY <2>3, <2>4, UidsByProcessNext
<1>3. ASSUME NEW h \in Helpers, Refresh401(h) PROVE UidsBelow(n)'
  <2>1. session[h] \in Tokens /\ session[h].gen < MaxTokens
    BY <1>3, Types DEF Refresh401
  <2>2. \A g \in Helpers : session'[g].uid = session[g].uid
    BY <1>3, <2>1, Types, RotatedType DEF Refresh401
  <2>3. KeyringBelow(n)' /\ BackendBelow(n)' /\ SessionsBelow(n)' /\ HandlersBelow(n)'
    BY <1>0, <1>3, <2>2 DEF Refresh401, KeyringBelow, BackendBelow, SessionsBelow, HandlersBelow
  <2> QED BY <2>3, UidsByProcessNext
<1>4. ASSUME NEW m \in Mounts, HandlerStep(m) PROVE UidsBelow(n)'
  <2>1. CASE AnswerError(m) /\ UNCHANGED <<keyring, session>>
    <3>1. \A k \in Mounts : handler'[k] \in {handler[k], NoHandler}
      BY <2>1, Types DEF AnswerError
    <3>2. HandlersBelow(n)' /\ BackendBelow(n)'
      BY <1>0, <2>1, <3>1, EmptyBelow, EndedType
         DEF AnswerError, HandlersBelow, BackendBelow, BackendSteps, NoCredentials, NoToken
    <3> QED BY <1>0, <2>1, <3>2, UidsByProcessNext DEF KeyringBelow, SessionsBelow
  <2>2. CASE Refreshed(m)
    <3>1. Rotated(handler[m].creds.refresh_token).uid = handler[m].creds.refresh_token.uid
      BY <2>2, AcceptedRotates, RotatedType DEF Refreshed
    <3>2. \A k \in Mounts :
            /\ handler'[k].creds = handler[k].creds
            /\ handler'[k].fresh.uid \in {handler[k].fresh.uid, handler[k].creds.refresh_token.uid}
      BY <2>2, <3>1, Types DEF Refreshed, HandlerType
    <3>3. HandlersBelow(n)'
      BY <1>0, <3>2 DEF HandlersBelow
    <3> QED BY <1>0, <2>2, <3>3, UidsByProcessNext
            DEF Refreshed, KeyringBelow, SessionsBelow, BackendBelow
  <2>3. CASE ResumeSucceeds(m)
    <3>1. \A k \in Mounts : handler'[k] \in {handler[k], NoHandler}
      BY <2>3, Types DEF ResumeSucceeds
    <3>2. HandlersBelow(n)'
      BY <1>0, <3>1, EmptyBelow DEF HandlersBelow
    <3>3. \A h \in Helpers : session'[h] = session[h] \/ session'[h] = handler[m].fresh
      <4>1. session' = [session EXCEPT ![handler[m].on] = handler[m].fresh]
        BY <2>3 DEF ResumeSucceeds
      <4> QED BY <4>1, Types
    <3>4. backend'.creds = backend.creds /\ backend'.fresh \in {backend.fresh, handler[m].fresh}
      BY <2>3, Types DEF ResumeSucceeds, BackendType
    <3>5. SessionsBelow(n)' /\ BackendBelow(n)'
      BY <1>0, <3>3, <3>4 DEF HandlersBelow, SessionsBelow, BackendBelow
    <3> QED BY <1>0, <2>3, <3>2, <3>5, UidsByProcessNext DEF ResumeSucceeds, KeyringBelow
  <2> QED BY <1>4, <2>1, <2>2, <2>3
          DEF HandlerStep, RefreshFails, RefreshReplyLost, ResumeFails
<1> QED BY <1>1, <1>2, <1>3, <1>4

(* The number of log-ins known outside the wizard is one.                   *)
LEMMA PublishedType ==
  ASSUME TypeOK, TokensInv
  PROVE  Published \in Nat /\ Published <= logins /\ (Unstored => Published < logins)
<1>1. logins \in Nat /\ (Unstored => logins # 0)
  BY DEF TypeOK, TokensInv
<1> QED BY <1>1 DEF Published

(* A step of the backend or of a helper keeps TokensInv if it keeps the     *)
(* bounds on the UIDs, the latest log-in while the wizard has not stored    *)
(* it, and if what it rotates or stores is of some log-in.                  *)
LEMMA TokensFrame ==
  ASSUME TypeOK, TokensInv, UNCHANGED <<logins, wizard>>,
         \A n \in Nat : UidsBelow(n) => UidsBelow(n)',
         keyring'.uid = 0 => keyring.uid = 0,
         Unstored => server'[logins] = server[logins],
         backend'.pc \in {"store_uid", "store_token"} => backend'.fresh.uid # 0,
         \A m \in Mounts : handler'[m].step = "unlock" => handler'[m].fresh.uid # 0
  PROVE  TokensInv'
<1>1. PICK n \in Nat : n = Published
  BY PublishedType
<1>2. UidsBelow(n)' /\ Published' = n
  BY <1>1 DEF TokensInv, Published, Unstored
<1>3. UidsBelow(Published)'
  BY <1>2 DEF UidsBelow
<1>4. (keyring.uid = 0)' => UidsBelow(0)'
  BY DEF TokensInv
<1> QED BY <1>3, <1>4 DEF TokensInv, Unstored, WizardHolds

(* Handlers and sessions act on Proton with tokens of known log-ins only.   *)
LEMMA OnlyKnownRotate ==
  ASSUME TypeOK, TokensInv, Unstored,
         \/ \E h \in Helpers : StartStep(h) \/ HelperDies(h) \/ Refresh401(h)
         \/ \E m \in Mounts : HandlerStep(m)
  PROVE  server'[logins] = server[logins]
<1>0. /\ logins \in Nat /\ Published \in Nat /\ Published < logins
      /\ SessionsBelow(Published) /\ HandlersBelow(Published)
  BY PublishedType, UidsByProcess DEF TypeOK, TokensInv
<1>1. ASSUME NEW u, u <= Published, u \in Nat, NEW g, server' = [server EXCEPT ![u] = g]
      PROVE  server'[logins] = server[logins]
  BY <1>0, <1>1, Types
<1>2. ASSUME NEW h \in Helpers, Refresh401(h) PROVE server'[logins] = server[logins]
  <2>1. session[h].uid \in Nat /\ session[h].uid <= Published
    BY <1>0, Types DEF SessionsBelow, Tokens
  <2> QED BY <1>1, <1>2, <2>1 DEF Refresh401
<1>3. ASSUME NEW m \in Mounts, HandlerStep(m) PROVE server'[logins] = server[logins]
  <2>1. /\ handler[m].creds.refresh_token.uid \in Nat /\ handler[m].fresh.uid \in Nat
        /\ handler[m].creds.refresh_token.uid <= Published /\ handler[m].fresh.uid <= Published
    BY <1>0, Types DEF HandlersBelow, HandlerType, Credentials, Tokens
  <2>2. CASE RefreshAccepted(m)
    BY <1>1, <2>1, <2>2, AcceptedRotates
  <2>3. CASE ResumeFails(m)
    BY <1>1, <2>1, <2>3 DEF ResumeFails
  <2> QED BY <1>3, <2>2, <2>3
          DEF HandlerStep, RefreshFails, RefreshReplyLost, Refreshed, ResumeSucceeds
<1> QED BY <1>2, <1>3 DEF StartStep, HelperClears, HelperBinds, HelperListens, HelperOnly, HelperDies

(* The backend's steps keep TokensInv.                                      *)
LEMMA BackendTokensStep ==
  ASSUME TypeOK, TokensInv, StartMount \/ BackendStep \/ BackendExits
  PROVE  TokensInv'
<1> USE DEF OthersThanBackend
<1>1. UNCHANGED <<logins, wizard, server>>
  BY DEF BackendStep, StartMount, Connect, FindHelper, Spawn, WaitForSocket,
     Reconnect, Lookup, LookupFails, CallResume, ResumeEof, StoreUid, StoreToken, BackendExits
<1>2. keyring'.uid = 0 => keyring.uid = 0
  <2>1. \/ keyring' = keyring
        \/ backend.pc = "store_uid" /\ keyring' = [keyring EXCEPT !.uid = backend.fresh.uid]
        \/ keyring' = [keyring EXCEPT !.refresh_token = backend.fresh]
    BY DEF BackendStep, StartMount, Connect, FindHelper, Spawn, WaitForSocket, At,
     Reconnect, Lookup, LookupFails, CallResume, ResumeEof, StoreUid, StoreToken, BackendExits
  <2> QED BY <2>1, Types DEF Credentials, TokensInv
<1>3. backend'.pc \in {"store_uid", "store_token"} => backend'.fresh.uid # 0
  <2>1. CASE StoreUid
    BY <2>1, GotoType DEF StoreUid, At, BackendSteps, TokensInv
  <2>2. CASE Lookup
    <3>1. backend'.pc \in {"lookup_token", "lookup_passphrase", "calling"}
      BY <2>2, Types DEF Lookup, BackendType
    <3> QED BY <3>1
  <2>3. CASE Connect
    BY <2>3, ConnectedType, Types DEF Connect, BackendType
  <2> QED BY <2>1, <2>2, <2>3, GotoType, FailType, ExitType, EndedType, ConnectedType
          DEF BackendStep, StartMount, FindHelper, Spawn, WaitForSocket, Reconnect,
              LookupFails, CallResume, ResumeEof, StoreToken, BackendSteps
<1>4. \A m \in Mounts : handler'[m].step = "unlock" => handler'[m].fresh.uid # 0
  <2>1. CASE handler' = handler
    BY <2>1 DEF TokensInv
  <2>2. CASE CallResume
    <3>1. \A m \in Mounts : handler'[m] = handler[m] \/ handler'[m].step = "refresh"
      BY <2>2, Types DEF CallResume
    <3> QED BY <3>1 DEF TokensInv
  <2> QED BY <2>1, <2>2 DEF BackendStep, StartMount, Connect, FindHelper, Spawn, WaitForSocket,
     Reconnect, Lookup, LookupFails, ResumeEof, StoreUid, StoreToken, BackendExits
<1> QED BY <1>1, <1>2, <1>3, <1>4, BackendUidsStep, TokensFrame

(* So do those of helpers and their handlers.                               *)
LEMMA HelperTokensStep ==
  ASSUME TypeOK, TokensInv,
         \/ \E h \in Helpers : StartStep(h) \/ HelperDies(h) \/ Refresh401(h)
         \/ \E m \in Mounts : HandlerStep(m)
  PROVE  TokensInv'
<1>1. UNCHANGED <<logins, wizard, keyring>>
  BY DEF StartStep, HelperClears, HelperBinds, HelperListens, HelperOnly, HelperDies, Refresh401,
     HandlerStep, RefreshFails, RefreshReplyLost, Refreshed, ResumeSucceeds, ResumeFails
<1>2. /\ backend'.pc \in {"store_uid", "store_token"} => backend'.fresh.uid # 0
      /\ \A m \in Mounts : handler'[m].step = "unlock" => handler'[m].fresh.uid # 0
  <2>1. CASE UNCHANGED <<backend, handler>>
    BY <2>1 DEF TokensInv
  <2>2. ASSUME NEW h \in Helpers, HelperDies(h) PROVE <1>2!:
    <3>1. \A m \in Mounts : handler'[m] \in {handler[m], NoHandler}
      BY <2>2, Types DEF HelperDies
    <3> QED BY <2>2, <3>1, EmptyBelow DEF HelperDies, TokensInv
  <2>3. ASSUME NEW m \in Mounts, AnswerError(m) PROVE <1>2!:
    <3>1. \A k \in Mounts : handler'[k] \in {handler[k], NoHandler}
      BY <2>3, Types DEF AnswerError
    <3> QED BY <2>3, <3>1, EmptyBelow, EndedType DEF AnswerError, TokensInv, BackendSteps
  <2>4. ASSUME NEW m \in Mounts, Refreshed(m) PROVE <1>2!:
    <3>1. Rotated(handler[m].creds.refresh_token).uid \in Logins
      BY <2>4, AcceptedRotates, RotatedType DEF Refreshed
    <3>2. \A k \in Mounts : handler'[k] = handler[k] \/ handler'[k].fresh.uid # 0
      BY <2>4, <3>1, Types DEF Refreshed, HandlerType, Logins
    <3> QED BY <2>4, <3>2 DEF Refreshed, TokensInv
  <2>5. ASSUME NEW m \in Mounts, ResumeSucceeds(m) PROVE <1>2!:
    <3>1. \A k \in Mounts : handler'[k] \in {handler[k], NoHandler}
      BY <2>5, Types DEF ResumeSucceeds
    <3>2. backend' = backend \/ backend'.fresh = handler[m].fresh
      BY <2>5, Types DEF ResumeSucceeds, BackendType
    <3>3. handler[m].fresh.uid # 0
      BY <2>5 DEF ResumeSucceeds, TokensInv
    <3> QED BY <3>1, <3>2, <3>3, EmptyBelow DEF TokensInv
  <2> QED BY <2>1, <2>2, <2>3, <2>4, <2>5
          DEF StartStep, HelperClears, HelperBinds, HelperListens, HelperOnly, Refresh401,
              HandlerStep, RefreshFails, RefreshReplyLost, ResumeFails
<1> QED BY <1>1, <1>2, HelperUidsStep, OnlyKnownRotate, TokensFrame

(* The wizard's log-in becomes known with the first secret it stores.       *)
LEMMA WizardTokensStep ==
  ASSUME TypeOK, TokensInv, WizardStep
  PROVE  TokensInv'
<1> USE DEF WizardOnly
<1>0. /\ UNCHANGED <<backend, session, handler>>
      /\ logins \in Nat /\ Published \in Nat /\ Published <= logins
      /\ wizard.pc \in WizardSteps /\ wizard \in WizardType
  BY PublishedType, Types
     DEF WizardStep, OpenWizard, Auth, AuthWithHV, LoginAccepted, VerificationRequired, LoginSucceeds,
         LoginFails, WizardStoresUid, WizardStoresToken, WizardStoresPassphrase, WizardGivesUp,
         WizardType
<1>1. ASSUME UNCHANGED keyring, NEW k \in Nat, Published <= k
      PROVE  UidsBelow(k)'
  <2>1. UidsBelow(k)
    <3>1. /\ keyring.uid \in Nat /\ keyring.refresh_token.uid \in Nat
          /\ backend.creds.refresh_token.uid \in Nat /\ backend.fresh.uid \in Nat
          /\ \A h \in Helpers : session[h].uid \in Nat
          /\ \A m \in Mounts : handler[m].creds.refresh_token.uid \in Nat
                               /\ handler[m].fresh.uid \in Nat
      BY Types DEF Credentials, Tokens, BackendType, HandlerType
    <3> QED BY <1>0, <1>1, <3>1 DEF TokensInv, UidsBelow
  <2> QED BY <1>0, <1>1, <2>1 DEF UidsBelow
<1>2. ASSUME UNCHANGED keyring PROVE (keyring.uid = 0)' => UidsBelow(0)'
  BY <1>0, <1>2 DEF TokensInv, UidsBelow
<1>3. ASSUME UNCHANGED keyring, Published <= Published', Published' \in Nat
      PROVE  UidsBelow(Published)'
  <2>1. PICK k \in Nat : k = Published'
    BY <1>3
  <2>2. UidsBelow(k)'
    BY <1>1, <1>3, <2>1
  <2> QED BY <2>1, <2>2 DEF UidsBelow
<1>4. CASE OpenWizard \/ VerificationRequired \/ WizardGivesUp
  <2>1. UNCHANGED <<keyring, logins, server>> /\ wizard'.pc \in {"signing_in", "verifying", "idle"}
    BY <1>0, <1>4, EmptyTypes DEF OpenWizard, VerificationRequired, WizardGivesUp, WizardType, IdleWizard
  <2>2. ~ Unstored' /\ ~ WizardHolds' /\ Published' = logins
    BY <2>1 DEF Unstored, WizardHolds, Published
  <2>3. UidsBelow(Published)'
    BY <1>0, <1>3, <2>1, <2>2
  <2> QED BY <1>0, <1>2, <2>1, <2>2, <2>3 DEF TokensInv
<1>5. CASE Auth \/ AuthWithHV
  <2>1. LoginAccepted /\ wizard.pc \in {"signing_in", "verifying"}
    BY <1>5 DEF Auth, AuthWithHV
  <2>2. /\ logins' = logins + 1 /\ wizard'.pc = "unlocking" /\ UNCHANGED keyring
        /\ wizard'.fresh = [uid |-> logins', gen |-> 1]
        /\ server'[logins'] = 1
    BY <1>0, <2>1, Types, MountBounds DEF LoginAccepted, Logins
  <2>3. Unstored' /\ ~ WizardHolds' /\ Published' = logins /\ Published = logins
    BY <1>0, <2>1, <2>2 DEF Unstored, WizardHolds, Published
  <2>4. UidsBelow(Published)'
    BY <1>0, <1>3, <2>2, <2>3
  <2> QED BY <1>0, <1>2, <2>2, <2>3, <2>4 DEF TokensInv
<1>6. CASE LoginSucceeds
  <2>1. /\ UNCHANGED <<keyring, logins, server>> /\ wizard.pc = "unlocking"
        /\ wizard'.pc = "store_uid" /\ wizard'.fresh = wizard.fresh
    BY <1>0, <1>6 DEF LoginSucceeds, WizardType
  <2>2. Unstored' /\ Unstored /\ ~ WizardHolds' /\ Published' = Published
    BY <2>1 DEF Unstored, WizardHolds, Published
  <2>3. UidsBelow(Published)'
    BY <1>0, <1>3, <2>1, <2>2
  <2> QED BY <1>0, <1>2, <2>1, <2>2, <2>3 DEF TokensInv
<1>7. CASE LoginFails
  <2>1. UNCHANGED <<keyring, logins>> /\ wizard'.pc = "idle"
    BY <1>7 DEF LoginFails, IdleWizard
  <2>2. ~ Unstored' /\ ~ WizardHolds' /\ Published' = logins
    BY <2>1 DEF Unstored, WizardHolds, Published
  <2>3. UidsBelow(Published)'
    BY <1>0, <1>3, <2>1, <2>2
  <2> QED BY <1>0, <1>2, <2>1, <2>2, <2>3 DEF TokensInv
<1>8. ASSUME logins' = logins, ~ Unstored', WizardHolds' => wizard'.fresh.uid <= logins,
             keyring'.uid # 0, keyring'.uid <= logins, keyring'.refresh_token.uid <= logins
      PROVE  TokensInv'
  <2>1. Published' = logins
    BY <1>8 DEF Published
  <2>2. /\ backend.creds.refresh_token.uid \in Nat /\ backend.fresh.uid \in Nat
        /\ \A h \in Helpers : session[h].uid \in Nat
        /\ \A m \in Mounts : handler[m].creds.refresh_token.uid \in Nat /\ handler[m].fresh.uid \in Nat
    BY Types DEF Credentials, Tokens, BackendType, HandlerType
  <2>3. /\ backend.creds.refresh_token.uid <= logins /\ backend.fresh.uid <= logins
        /\ \A h \in Helpers : session[h].uid <= logins
        /\ \A m \in Mounts : handler[m].creds.refresh_token.uid <= logins
                             /\ handler[m].fresh.uid <= logins
    BY <1>0, <2>2 DEF TokensInv, UidsBelow
  <2>4. UidsBelow(Published)'
    BY <1>0, <1>8, <2>1, <2>3 DEF UidsBelow
  <2> QED BY <1>0, <1>8, <2>4 DEF TokensInv
<1>9. keyring \in Credentials /\ keyring.uid <= logins /\ keyring.refresh_token.uid <= logins
  BY <1>0, Types DEF TokensInv, UidsBelow, Credentials, Tokens
<1>10. CASE WizardStoresUid
  <2>1. /\ logins' = logins /\ wizard'.pc = "store_token" /\ wizard'.fresh = wizard.fresh
        /\ wizard.fresh.uid = logins /\ logins # 0
        /\ keyring'.uid = wizard.fresh.uid /\ keyring'.refresh_token = keyring.refresh_token
    BY <1>0, <1>9, <1>10 DEF WizardStoresUid, TokensInv, Unstored, WizardType, Credentials
  <2> QED BY <1>0, <1>8, <1>9, <2>1 DEF Unstored
<1>11. CASE WizardStoresToken
  <2>1. /\ logins' = logins /\ wizard'.pc = "store_passphrase" /\ wizard'.fresh = wizard.fresh
        /\ wizard.fresh.uid <= logins /\ keyring.uid # 0
        /\ keyring'.uid = keyring.uid /\ keyring'.refresh_token = wizard.fresh
    BY <1>0, <1>9, <1>11 DEF WizardStoresToken, TokensInv, WizardHolds, WizardType, Credentials
  <2> QED BY <1>8, <1>9, <2>1 DEF Unstored
<1>12. CASE WizardStoresPassphrase
  <2>1. /\ logins' = logins /\ wizard'.pc = "idle" /\ keyring.uid # 0
        /\ keyring'.uid = keyring.uid /\ keyring'.refresh_token = keyring.refresh_token
    BY <1>9, <1>12 DEF WizardStoresPassphrase, TokensInv, WizardHolds, IdleWizard, Credentials
  <2> QED BY <1>8, <1>9, <2>1 DEF Unstored, WizardHolds
<1> QED BY <1>4, <1>5, <1>6, <1>7, <1>10, <1>11, <1>12 DEF WizardStep

-----------------------------------------------------------------------------
(* Where the valid token is.                                                *)

(* Without mishaps a rotated token is with one mount only, and the wizard   *)
(* is not storing.                                                          *)
LEMMA HeldWithoutMishaps ==
  ASSUME KeyringInv, mishaps = {}, MountHolds
  PROVE  /\ ~ WizardHolds /\ MountStores
         /\ \/ backend.pc \in {"store_uid", "store_token"}
            \/ backend.pc = "resuming" /\ mount \in Mounts /\ handler[mount].step = "unlock"
BY DEF KeyringInv, WizardStores, MountStores, MountHolds

(* A step while no mount holds a rotated token.                             *)
LEMMA KeyringQuiet ==
  ASSUME KeyringInv, UNCHANGED <<server, keyring, wizard>>,
         mishaps' = {} => mishaps = {} /\ ~ MountHolds /\ ~ MountHolds'
  PROVE  KeyringInv'
BY DEF KeyringInv, WizardStores, WizardHolds, Usable, Valid

(* A step that leaves the mounts with rotated tokens alone.                 *)
LEMMA KeyringFrame ==
  ASSUME KeyringInv, UNCHANGED <<server, keyring, wizard, backend, mount>>,
         mishaps' = {} => mishaps = {},
         mishaps' = {} => \A m \in Mounts :
           /\ handler'[m].step = "unlock" <=> handler[m].step = "unlock"
           /\ handler'[m].step = "unlock" => handler'[m].fresh = handler[m].fresh
  PROVE  KeyringInv'
<1> SUFFICES ASSUME mishaps' = {} PROVE KeyringInv'
  BY DEF KeyringInv
<1>1. MountHolds' <=> MountHolds
  BY DEF MountHolds
<1>2. WizardHolds' <=> WizardHolds
  BY DEF WizardHolds
<1>3. WizardStores => WizardStores'
  BY <1>1 DEF WizardStores, Valid
<1>4. MountStores => MountStores'
  BY DEF MountStores, Valid
<1>5. Usable => Usable'
  BY DEF Usable, Valid
<1> QED BY <1>1, <1>2, <1>3, <1>4, <1>5 DEF KeyringInv

(* The backend's steps keep KeyringInv.                                     *)
LEMMA BackendKeyringStep ==
  ASSUME TypeOK, HandlersInv, KeyringInv, StartMount \/ BackendStep \/ BackendExits
  PROVE  KeyringInv'
<1> SUFFICES ASSUME mishaps' = {} PROVE KeyringInv'
  BY DEF KeyringInv
<1> USE DEF OthersThanBackend
<1>1. CASE StoreUid
  <2>1. /\ backend.pc = "store_uid" /\ backend'.pc = "store_token" /\ backend'.fresh = backend.fresh
        /\ keyring' = [keyring EXCEPT !.uid = backend.fresh.uid] /\ mishaps = {}
        /\ UNCHANGED <<server, mount, handler, wizard>>
    BY <1>1, GotoType DEF StoreUid, At, BackendSteps
  <2>2. MountHolds /\ MountHolds' /\ ~ WizardHolds /\ ~ WizardHolds' /\ MountStores
    BY <2>1, HeldWithoutMishaps DEF MountHolds, WizardHolds
  <2>3. keyring'.uid = backend.fresh.uid /\ keyring'.salted_passphrase = keyring.salted_passphrase
    BY <2>1, Types DEF Credentials
  <2>4. MountStores'
    BY <2>1, <2>2, <2>3 DEF MountStores, Valid
  <2> QED BY <2>2, <2>4 DEF KeyringInv
<1>2. CASE StoreToken
  <2>1. /\ backend.pc = "store_token" /\ backend'.pc = "mounted"
        /\ keyring' = [keyring EXCEPT !.refresh_token = backend.fresh] /\ mishaps = {}
        /\ UNCHANGED <<server, mount, handler, wizard>>
    BY <1>2, GotoType DEF StoreToken, At, BackendSteps
  <2>2. MountHolds /\ ~ WizardHolds /\ ~ WizardHolds' /\ MountStores
    BY <2>1, HeldWithoutMishaps DEF MountHolds, WizardHolds
  <2>3. ~ MountHolds'
    BY <2>1, <2>2 DEF MountStores, MountHolds
  <2>4. /\ keyring'.refresh_token = backend.fresh /\ keyring'.uid = keyring.uid
        /\ keyring'.salted_passphrase = keyring.salted_passphrase
    BY <2>1, Types DEF Credentials
  <2>5. Usable'
    BY <2>1, <2>2, <2>4 DEF MountStores, Usable, Valid
  <2> QED BY <2>2, <2>3, <2>5 DEF KeyringInv
<1>3. CASE BackendExits
  <2>1. ~ MountHolds /\ mishaps = {} /\ backend'.pc \in {"idle", "killed"}
        /\ UNCHANGED <<server, keyring, wizard, handler>>
    BY <1>3, ExitType DEF BackendExits
  <2>2. ~ MountHolds'
    BY <2>1 DEF MountHolds
  <2> QED BY <2>1, <2>2, KeyringQuiet
<1>4. CASE ~ (StoreUid \/ StoreToken \/ BackendExits)
  <2>1. UNCHANGED <<server, keyring, wizard, mishaps>>
    BY <1>4 DEF BackendStep, StartMount, Connect, FindHelper, Spawn, WaitForSocket,
       Reconnect, Lookup, LookupFails, CallResume, ResumeEof
  <2>2. backend.pc \notin {"store_uid", "store_token"}
    BY <1>4 DEF BackendStep, StartMount, Connect, FindHelper, Spawn, WaitForSocket, At, Gone,
       Reconnect, Lookup, LookupFails, CallResume, ResumeEof
  <2>3. backend'.pc \notin {"store_uid", "store_token"}
    <3>1. CASE Lookup
      <4>1. backend'.pc \in {"lookup_token", "lookup_passphrase", "calling"}
        BY <3>1, Types DEF Lookup, BackendType
      <4> QED BY <4>1
    <3>2. CASE Connect
      BY <3>2, ConnectedType, Types DEF Connect, BackendType
    <3> QED BY <1>4, <3>1, <3>2, GotoType, FailType, EndedType, ConnectedType
            DEF BackendStep, StartMount, FindHelper, Spawn, WaitForSocket, Reconnect,
                LookupFails, CallResume, ResumeEof, BackendSteps
  <2>4. backend.pc = "resuming" => helper[backend.conn] = "dead"
    BY <1>4 DEF BackendStep, StartMount, Connect, FindHelper, Spawn, WaitForSocket, At, Gone,
       Reconnect, Lookup, LookupFails, CallResume, ResumeEof
  <2>5. ~ MountHolds
    <3> SUFFICES ASSUME MountHolds PROVE FALSE
      OBVIOUS
    <3>1. backend.pc = "resuming" /\ mount \in Mounts /\ handler[mount].step = "unlock"
      BY <2>1, <2>2, HeldWithoutMishaps
    <3>2. helper[backend.conn] = "listening"
      BY <3>1 DEF HandlersInv
    <3> QED BY <2>4, <3>1, <3>2
  <2>6. \A m \in Mounts : handler'[m].step = "unlock" => handler[m].step = "unlock"
    <3>1. CASE CallResume
      BY <3>1, Types DEF CallResume
    <3>2. CASE handler' = handler
      BY <3>2
    <3> QED BY <1>4, <3>1, <3>2
            DEF BackendStep, StartMount, Connect, FindHelper, Spawn, WaitForSocket,
                Reconnect, Lookup, LookupFails, ResumeEof
  <2>7. ~ MountHolds'
    BY <2>3, <2>5, <2>6 DEF MountHolds
  <2> QED BY <2>1, <2>5, <2>7, KeyringQuiet
<1> QED BY <1>1, <1>2, <1>3, <1>4

(* So do those of helpers and their handlers.                               *)
LEMMA HelperKeyringStep ==
  ASSUME TypeOK, TokensInv, HandlersInv, KeyringInv,
         \/ \E h \in Helpers : StartStep(h) \/ HelperDies(h) \/ Refresh401(h)
         \/ \E m \in Mounts : HandlerStep(m)
  PROVE  KeyringInv'
<1> SUFFICES ASSUME mishaps' = {} PROVE KeyringInv'
  BY DEF KeyringInv
<1>1. ASSUME NEW h \in Helpers, StartStep(h) PROVE KeyringInv'
  BY <1>1, KeyringFrame DEF StartStep, HelperClears, HelperBinds, HelperListens, HelperOnly
<1>2. ASSUME NEW h \in Helpers, HelperDies(h) PROVE KeyringInv'
  <2>1. /\ mishaps = {} /\ UNCHANGED <<server, keyring, wizard, backend, mount>>
        /\ \A m \in Mounts : handler[m].on = h => handler[m].step # "unlock"
    BY <1>2 DEF HelperDies
  <2>2. \A m \in Mounts : handler'[m] = IF handler[m].on = h THEN NoHandler ELSE handler[m]
    BY <1>2 DEF HelperDies
  <2>3. \A m \in Mounts : /\ handler'[m].step = "unlock" <=> handler[m].step = "unlock"
                          /\ handler'[m].step = "unlock" => handler'[m].fresh = handler[m].fresh
    BY <2>1, <2>2, EmptyBelow
  <2> QED BY <2>1, <2>3, KeyringFrame
<1>3. ASSUME NEW h \in Helpers, Refresh401(h) PROVE FALSE
  BY <1>3 DEF Refresh401
<1>4. ASSUME NEW m \in Mounts, HandlerStep(m) PROVE KeyringInv'
  <2>1. CASE RefreshFails(m)
    <3>1. /\ mishaps = {} /\ handler[m].step = "refresh"
          /\ UNCHANGED <<server, keyring, wizard, mount>>
      BY <2>1 DEF RefreshFails
    <3>2. \A k \in Mounts : handler'[k] = IF k = m THEN NoHandler ELSE handler[k]
      BY <2>1, Types DEF RefreshFails, AnswerError
    <3>3. CASE MountHolds
      <4>1. ~ Awaited(m)
        BY <3>1, <3>3, HeldWithoutMishaps DEF Awaited, At
      <4>2. backend' = backend
        BY <2>1, <4>1 DEF RefreshFails, AnswerError
      <4> QED BY <3>1, <3>2, <4>2, EmptyBelow, KeyringFrame
    <3>4. CASE ~ MountHolds
      <4>1. backend' = backend \/ backend'.pc = "failed"
        BY <2>1, EndedType DEF RefreshFails, AnswerError, BackendSteps
      <4>2. ~ MountHolds'
        BY <3>2, <3>4, <4>1, EmptyBelow DEF MountHolds
      <4> QED BY <3>1, <3>4, <4>2, KeyringQuiet
    <3> QED BY <3>3, <3>4
  <2>2. CASE RefreshReplyLost(m) \/ ResumeFails(m)
    BY <2>2 DEF RefreshReplyLost, ResumeFails
  <2>3. CASE Refreshed(m)
    <3> DEFINE t == handler[m].creds.refresh_token
    <3>1. /\ mishaps = {} /\ ~ WizardHolds /\ Awaited(m) /\ handler[m].step = "refresh"
          /\ UNCHANGED <<keyring, wizard, mount, backend>>
      BY <2>3 DEF Refreshed, RefreshAccepted
    <3>2. ~ MountHolds
      BY <3>1, HeldWithoutMishaps DEF Awaited, At
    <3>3. /\ t \in Tokens /\ t.uid \in Logins
          /\ Rotated(t).uid = t.uid /\ Rotated(t).gen = t.gen + 1
          /\ server'[t.uid] = Rotated(t).gen
      BY <2>3, AcceptedRotates, RotatedType DEF Refreshed
    <3>4. keyring.uid # 0
      BY <3>3, MountBounds DEF TokensInv, UidsBelow, Logins
    <3>5. keyring.salted_passphrase
      BY <3>1, <3>2, <3>4 DEF KeyringInv, Usable
    <3>6. /\ Rotated(t).uid \in Logins /\ Rotated(t).gen # 0
          /\ server'[Rotated(t).uid] = Rotated(t).gen
      BY <3>3 DEF Tokens
    <3>7. \A k \in Mounts : handler'[k].step = "unlock" => k = m /\ handler'[k].fresh = Rotated(t)
      <4>1. \A k \in Mounts \ {m} : handler'[k] = handler[k]
        BY <2>3, Types DEF Refreshed
      <4>2. handler'[m].fresh = Rotated(t)
        <5> HIDE DEF t
        <5>1. handler' = [handler EXCEPT ![m].step = "unlock", ![m].fresh = Rotated(t)]
          BY <2>3 DEF Refreshed, t
        <5> QED BY <5>1, Types DEF HandlerType
      <4> QED BY <3>2, <4>1, <4>2 DEF MountHolds
    <3>8. MountStores'
      <4>1. backend'.pc = "resuming" /\ m = mount'
        BY <3>1 DEF Awaited, At
      <4>2. \A k \in Mounts : handler'[k].step = "unlock" => Valid(handler[k].fresh)'
        BY <3>6, <3>7 DEF Valid
      <4> QED BY <3>1, <3>5, <3>7, <4>1, <4>2 DEF MountStores
    <3>9. handler'[m].step = "unlock"
      BY <2>3, Types DEF Refreshed, HandlerType
    <3> QED BY <3>1, <3>8, <3>9 DEF KeyringInv, WizardHolds, MountHolds
  <2>4. CASE ResumeSucceeds(m)
    <3>1. /\ mishaps = {} /\ handler[m].step = "unlock"
          /\ UNCHANGED <<server, keyring, wizard, mount>>
      BY <2>4 DEF ResumeSucceeds
    <3>2. MountStores /\ ~ WizardHolds /\ ~ WizardHolds'
      BY <3>1, HeldWithoutMishaps DEF MountHolds, WizardHolds
    <3>3. Awaited(m) /\ Valid(handler[m].fresh) /\ m = mount
      BY <3>1, <3>2 DEF MountStores, Awaited, At
    <3>4. backend'.pc = "store_uid" /\ backend'.fresh = handler[m].fresh
      BY <2>4, <3>3, Types DEF ResumeSucceeds, BackendType
    <3>5. \A k \in Mounts : handler'[k].step # "unlock"
      <4>1. \A k \in Mounts : handler'[k] = IF k = m THEN NoHandler ELSE handler[k]
        BY <2>4, Types DEF ResumeSucceeds
      <4> QED BY <3>2, <3>3, <4>1, EmptyBelow DEF MountStores
    <3>6. MountStores' /\ MountHolds'
      BY <3>1, <3>2, <3>3, <3>4, <3>5 DEF MountStores, MountHolds, Valid
    <3> QED BY <3>2, <3>6 DEF KeyringInv
  <2> QED BY <1>4, <2>1, <2>2, <2>3, <2>4 DEF HandlerStep
<1> QED BY <1>1, <1>2, <1>3, <1>4

(* A log-in or a log-out of the wizard concerns the latest log-in, which    *)
(* nobody else knows: the tokens of the others stay valid.                  *)
LEMMA LoginKeyringStep ==
  ASSUME TypeOK, TokensInv, KeyringInv, NEW u, NEW g,
         server' = [server EXCEPT ![u] = g], u \in Nat, Published < u,
         ~ WizardHolds, ~ WizardHolds',
         UNCHANGED <<keyring, mishaps, backend, mount, handler>>
  PROVE  KeyringInv'
<1>1. ASSUME NEW v \in Nat, v <= Published PROVE server'[v] = server[v]
  BY <1>1, PublishedType, Types
<1>2. /\ KeyringBelow(Published) /\ BackendBelow(Published) /\ HandlersBelow(Published)
      /\ keyring.refresh_token.uid \in Nat /\ backend.fresh.uid \in Nat
      /\ \A m \in Mounts : handler[m].fresh.uid \in Nat
  BY UidsByProcess, Types DEF TokensInv, Credentials, Tokens, BackendType, HandlerType
<1>3. Valid(keyring.refresh_token) => Valid(keyring.refresh_token)'
  BY <1>1, <1>2 DEF Valid, KeyringBelow
<1>4. Valid(backend.fresh) => Valid(backend.fresh)'
  BY <1>1, <1>2 DEF Valid, BackendBelow
<1>5. \A m \in Mounts : Valid(handler[m].fresh) => Valid(handler[m].fresh)'
  BY <1>1, <1>2 DEF Valid, HandlersBelow
<1>6. (MountStores => MountStores') /\ (Usable => Usable')
  BY <1>3, <1>4, <1>5 DEF MountStores, Usable
<1> QED BY <1>6 DEF KeyringInv, MountHolds

(* The wizard's steps keep KeyringInv.                                      *)
LEMMA WizardKeyringStep ==
  ASSUME TypeOK, TokensInv, KeyringInv, WizardStep
  PROVE  KeyringInv'
<1> USE DEF WizardOnly
<1>0. /\ UNCHANGED <<backend, mount, handler>> /\ (MountHolds' <=> MountHolds)
      /\ wizard \in WizardType /\ keyring \in Credentials
  BY Types
     DEF WizardStep, OpenWizard, Auth, AuthWithHV, LoginAccepted, VerificationRequired, LoginSucceeds,
         LoginFails, WizardStoresUid, WizardStoresToken, WizardStoresPassphrase, WizardGivesUp,
         MountHolds
<1>1. ASSUME UNCHANGED <<server, keyring>>, ~ WizardHolds, ~ WizardHolds', mishaps' = mishaps
      PROVE  KeyringInv'
  BY <1>0, <1>1 DEF KeyringInv, MountStores, Usable, Valid
<1>2. CASE OpenWizard \/ VerificationRequired \/ LoginSucceeds
  <2>1. ~ WizardHolds /\ ~ WizardHolds'
    BY <1>0, <1>2 DEF OpenWizard, VerificationRequired, LoginSucceeds, WizardHolds, WizardType
  <2> QED BY <1>1, <1>2, <2>1 DEF OpenWizard, VerificationRequired, LoginSucceeds
<1>3. CASE Auth \/ AuthWithHV
  <2>1. LoginAccepted /\ wizard.pc \in {"signing_in", "verifying"}
    BY <1>3 DEF Auth, AuthWithHV
  <2>2. ~ WizardHolds /\ ~ WizardHolds'
    BY <2>1 DEF LoginAccepted, WizardHolds
  <2>3. logins + 1 \in Nat /\ Published < logins + 1
    BY PublishedType, Types
  <2> QED BY <2>1, <2>2, <2>3, LoginKeyringStep DEF LoginAccepted
<1>4. CASE LoginFails
  <2>1. ~ WizardHolds /\ ~ WizardHolds' /\ Unstored
    BY <1>4 DEF LoginFails, WizardHolds, IdleWizard, Unstored
  <2>2. wizard.fresh.uid = logins /\ logins \in Nat /\ Published < logins
    BY <2>1, PublishedType, Types DEF TokensInv
  <2>3. CASE server' = [server EXCEPT ![wizard.fresh.uid] = 0]
    BY <1>4, <2>1, <2>2, <2>3, LoginKeyringStep DEF LoginFails
  <2>4. CASE server' = server
    BY <1>1, <1>4, <2>1, <2>4 DEF LoginFails
  <2> QED BY <1>4, <2>3, <2>4 DEF LoginFails
<1>5. CASE WizardStoresUid
  <2> SUFFICES ASSUME mishaps' = {} PROVE KeyringInv'
    BY DEF KeyringInv
  <2>1. /\ ~ MountHolds /\ server' = server
        /\ wizard'.pc = "store_token" /\ wizard'.fresh = wizard.fresh
        /\ keyring'.uid = wizard.fresh.uid
    BY <1>0, <1>5 DEF WizardStoresUid, WizardType, Credentials
  <2>2. /\ wizard.fresh.uid = logins /\ wizard.fresh.gen = 1 /\ logins # 0 /\ server[logins] = 1
    BY <1>5 DEF WizardStoresUid, TokensInv, Unstored
  <2>3. Valid(wizard.fresh)'
    BY <2>1, <2>2, Types, MountBounds DEF Valid, Logins
  <2>4. WizardStores' /\ WizardHolds'
    BY <1>0, <2>1, <2>3 DEF WizardStores, WizardHolds
  <2> QED BY <2>4 DEF KeyringInv
<1>6. CASE WizardStoresToken
  <2> SUFFICES ASSUME mishaps' = {} PROVE KeyringInv'
    BY DEF KeyringInv
  <2>1. /\ server' = server /\ mishaps = {} /\ WizardHolds
        /\ wizard'.pc = "store_passphrase" /\ wizard'.fresh = wizard.fresh
        /\ keyring'.uid = keyring.uid /\ keyring'.refresh_token = wizard.fresh
    BY <1>0, <1>6 DEF WizardStoresToken, WizardHolds, WizardType, Credentials
  <2>2. WizardStores' /\ WizardHolds'
    BY <1>0, <2>1 DEF KeyringInv, WizardStores, WizardHolds, Valid
  <2> QED BY <2>2 DEF KeyringInv
<1>7. CASE WizardStoresPassphrase
  <2> SUFFICES ASSUME mishaps' = {} PROVE KeyringInv'
    BY DEF KeyringInv
  <2>1. /\ server' = server /\ mishaps = {} /\ WizardHolds /\ wizard.pc = "store_passphrase"
        /\ wizard'.pc = "idle"
        /\ keyring'.uid = keyring.uid /\ keyring'.refresh_token = keyring.refresh_token
        /\ keyring'.salted_passphrase
    BY <1>0, <1>7 DEF WizardStoresPassphrase, WizardHolds, IdleWizard, Credentials
  <2>2. WizardStores /\ ~ MountHolds /\ Usable'
    BY <2>1 DEF KeyringInv, WizardStores, Usable, Valid
  <2> QED BY <1>0, <2>1, <2>2 DEF KeyringInv, WizardHolds
<1>8. CASE WizardGivesUp
  <2> SUFFICES ASSUME mishaps' = {} PROVE KeyringInv'
    BY DEF KeyringInv
  <2>1. ~ WizardHolds /\ mishaps' = mishaps
    BY <1>8 DEF WizardGivesUp
  <2>2. ~ WizardHolds'
    BY <1>8 DEF WizardGivesUp, WizardHolds, IdleWizard
  <2> QED BY <1>1, <1>8, <2>1, <2>2 DEF WizardGivesUp
<1> QED BY <1>2, <1>3, <1>4, <1>5, <1>6, <1>7, <1>8 DEF WizardStep

-----------------------------------------------------------------------------
(* The whole invariant.                                                     *)
LEMMA CredentialsInit == Init => CredentialsInv
<1> SUFFICES ASSUME Init PROVE CredentialsInv
  OBVIOUS
<1> USE DEF Init
<1>1. TypeOK
  <2>1. /\ server \in [Logins -> 0 .. MaxTokens] /\ logins \in 0 .. MaxLogins
        /\ helper \in [Helpers -> HelperStates] /\ sock \in 0 .. MaxHelpers
        /\ mount \in 0 .. MaxMounts /\ mishaps \subseteq Mishaps
    BY MountBounds DEF HelperStates
  <2>2. /\ keyring \in Credentials /\ session \in [Helpers -> Tokens]
        /\ backend \in BackendType /\ backend.pc \in BeforeConnection
        /\ handler \in [Mounts -> HandlerType] /\ wizard \in WizardType
    BY EmptyTypes DEF BeforeConnection
  <2> QED BY <2>1, <2>2, Types
<1>2. TokensInv
  <2>1. ~ Unstored /\ ~ WizardHolds /\ Published = 0
    BY DEF Unstored, WizardHolds, IdleWizard, Published
  <2>2. UidsBelow(0)
    BY EmptyBelow DEF UidsBelow, NoToken, NoCredentials
  <2> QED BY <2>1, <2>2, EmptyBelow, EmptyTypes DEF TokensInv
<1>3. HandlersInv
  BY EmptyBelow, EmptyTypes DEF HandlersInv, BeforeConnection
<1>4. KeyringInv
  BY EmptyBelow, EmptyTypes DEF KeyringInv, WizardHolds, MountHolds, IdleWizard, NoCredentials
<1> QED BY <1>1, <1>2, <1>3, <1>4 DEF CredentialsInv

(* Every step, and a step that changes nothing, keeps it.                   *)
LEMMA CredentialsInductive == CredentialsInv /\ [Next]_vars => CredentialsInv'
<1> SUFFICES ASSUME CredentialsInv, [Next]_vars PROVE CredentialsInv'
  OBVIOUS
<1> USE DEF CredentialsInv
<1>1. CASE StartMount \/ BackendStep \/ BackendExits
  BY <1>1, BackendTypeStep, BackendTokensStep, BackendHandlersStep, BackendKeyringStep
<1>2. CASE \/ \E h \in Helpers : StartStep(h) \/ HelperDies(h) \/ Refresh401(h)
           \/ \E m \in Mounts : HandlerStep(m)
  BY <1>2, HelperTypeStep, HelperTokensStep, HelperHandlersStep, HelperKeyringStep
<1>3. CASE WizardStep
  <2>1. UNCHANGED <<backend, mount, helper, handler>>
    BY <1>3 DEF WizardStep, WizardOnly, OpenWizard, Auth, AuthWithHV, LoginAccepted,
       VerificationRequired, LoginSucceeds, LoginFails, WizardStoresUid, WizardStoresToken,
       WizardStoresPassphrase, WizardGivesUp
  <2> QED BY <1>3, <2>1, WizardTypeStep, WizardTokensStep, HandlersFrame, WizardKeyringStep
<1>4. CASE UNCHANGED vars
  BY <1>4 DEF vars, TypeOK, TokensInv, HandlersInv, KeyringInv, UidsBelow, Published, Unstored,
     WizardHolds, MountHolds, WizardStores, MountStores, Usable, Valid
<1> QED BY <1>1, <1>2, <1>3, <1>4 DEF Next

(* CredentialsInv holds in every reachable state.                           *)
LEMMA CredentialsInvariant == Spec => []CredentialsInv
BY CredentialsInit, CredentialsInductive, PTL DEF Spec

(* Every variable of the mount protocol keeps its type: in particular a     *)
(* backend past proton_rpc_new is connected to a helper, and no refresh     *)
(* takes a token beyond the generations Proton hands out.                   *)
THEOREM MountTypeCorrect == Spec => []TypeOK
<1>1. CredentialsInv => TypeOK
  BY DEF CredentialsInv
<1> QED BY <1>1, CredentialsInvariant, PTL

(* do_mount and the wizard leave a keyring the next mount can use, unless   *)
(* one of the listed mishaps happened since the wizard last stored: for any *)
(* number of helpers, mounts, log-ins and rotations, in any order of their  *)
(* steps.                                                                   *)
THEOREM KeyringUsable == Spec => []UsableButForMishaps
<1>1. CredentialsInv => UsableButForMishaps
  <2> SUFFICES ASSUME CredentialsInv, AtRest, keyring.uid # 0, mishaps = {} PROVE Usable
    BY DEF UsableButForMishaps
  <2>1. ~ WizardHolds /\ backend.pc \in Gone \cup {"mounted"}
    BY DEF AtRest, WizardHolds
  <2>2. ~ MountHolds
    BY <2>1, HeldWithoutMishaps DEF CredentialsInv, Gone
  <2> QED BY <2>1, <2>2 DEF CredentialsInv, KeyringInv
<1> QED BY <1>1, CredentialsInvariant, PTL
=============================================================================
