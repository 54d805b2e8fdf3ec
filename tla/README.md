# A TLA+ model of gnome-proton-drive

gnome-proton-drive mounts a Proton Drive volume in GNOME.  A GVfs backend in C
(`gvfsd-proton`) turns file operations into JSON-RPC calls over a unix socket; a
Go helper (`proton-drive-helper`) answers them, talks to the Proton API, caches
metadata and blocks, and polls the volume's event stream; a Vala volume monitor
announces accounts; a Python wizard logs in.  This directory holds TLA+ modules
of the parts where processes, goroutines and remote changes meet, the TLC runs
that check them and the proofs TLAPS checks.

Source references are to files below `src/`.

## 1. Inventory

| Component | State | Operations | Interaction | What makes it correct |
|---|---|---|---|---|
| RPC client, `backend/proton-rpc.c` | mutex, `next_id`, `conn`/`reader`/`writer` | `call`, `send_request`, `recv_response`, `reconnect`, one wrapper per method | job threads and the main loop share it; cancellation replaces the socket | a caller gets the answer to its own request; a cancelled call frees the mutex; a failure is reported as an error |
| RPC server, `helper/rpc/server.go` | one scanner goroutine, one channel, one loop and one context for each connection | accept, scan, dispatch, respond, close | a client that closes cancels the handler's context | no goroutine or socket is left behind |
| GVfs backend, `backend/gvfsbackendproton.c` | RPC client, monitors, poll timer, read handles | `do_mount`, `do_query_info`, `do_enumerate`, `do_open_for_read`, `do_read`, `do_make_directory`, `poll_events_cb` | jobs on threads, timer and cancellation on the main loop | the main loop never waits for a job; errors are never dereferenced unset |
| Session, `helper/drive/session.go` | `pathLinks`, `linkPaths`, `nodeKRs` | `Stat`, `ListChildren`, `MakeDir`, `Delete`, `resolvePath`, `ReadFileContent`, log-in | handlers and the poller share the maps without a lock | a resolved path has its keyring; a request ends; nothing stale is served once its event was handled |
| Metadata cache, `helper/drive/metacache.go` | `stats`, `lists`, each with a TTL | get (fresh, stale), set, invalidate by path, by link, all | filled by handlers and by `diffAndEmit`, invalidated by the poller and `MakeDir` | see Session |
| Event poller, `helper/drive/events.go` | anchor (memory and file), queue of 64 | `Start`, `poll`, `handle`, `diffAndEmit`, `saveAnchor`, `Drain` | reads and fills the caches; the backend drains the queue every 5 s | no event is passed over; a notice is lost only to overflow; a change is announced |
| Block cache, `helper/drive/blockcache.go` | files named by link, revision and index | get, put, evict, invalidate | readers, eviction and the poller meet on disk | a block is whole and belongs to its revision; size stays bounded |
| File reads, `session.go`, `main.go`, `do_read` | handle offset | `ReadFileContent`, `readFromCache`, `sliceRange` | blocks from the API or the cache | the bytes asked for, of one revision |
| Thumbnails, `helper/drive/thumbnail.go` | files named by link and revision, empty for "none" | `FetchThumbnail` | called from `do_query_info` | an empty file means there is none |
| Mount and credentials, `do_mount`, `main.go`, `session.go` | keyring secrets, the `session` variable, the helper process | spawn, look-up, resume, rotate, store | backend, helper, secret-tool, Proton | the stored token is one that still works |
| Volume monitor, `volume-monitor/*.vala` | known accounts, volumes | reload on Secret Service signals, the wizard's signals | D-Bus, keyring service | the volumes are those of the stored accounts; a stored account keeps its volume |
| Daemon, `backend/daemon-main.c` | phase of `main`, the bus name, `process_result` | start, own the name, report to the spawner, exit | session bus, gvfsd as spawner, a second daemon with the same name | every start is reported or ends; a reported success holds |
| Setup wizard, `proton-drive-setup` | secrets | log in, human verification, store | helper, keyring | three secrets or none |
| Crypto and API client, GVfs headers | - | - | external or vendored | - |

What is hard here: two threads of the backend and the main loop behind one
mutex; handlers that go on after the client left them; API answers computed
before and used after an invalidation; a poller that reads, empties and fills the
same caches; crashes between handling and saving; a session replaced while its
poller goes on.  `PROJECT.json` lists the hazards one by one with the line where
each bites and the properties that cover it.

## 2. Modules

| Module | Models | Runs |
|---|---|---|
| `RpcChannel` | RPC client and server with the callers' side of the backend | `Rpc` |
| `SerialCalls` | abstract: the service `proton-rpc.h` promises | |
| `RpcRefinement` | the mapping from `RpcChannel` to `SerialCalls` | `Rpc` |
| `DriveSession` | session maps, metadata cache, RPC handlers, `handle()` and `diffAndEmit` against a changing remote tree | `SessionLists`, `SessionPaths`, one violation |
| `EventStream` | poll loop, anchor file, queue, `GetEvents`, crashes, remounts | `Stream` |
| `EventFeed` | abstract: what the event poller promises the backend | |
| `StreamRefinement` | the mapping from `EventStream` to `EventFeed` | `Stream` |
| `MonitorDelivery` | from a batch of notices to the file monitors of clients | `Monitors`, one violation |
| `FileContent` | a read handle, the `ReadFile` handler and the block cache on disk | `Reads` |
| `MountCredentials` | `do_mount`, helper start, `ResumeSession`, token rotation, keyring, setup wizard | `Mount`, one violation |
| `AccountWatcher` | the volume monitor against keyring changes | `Watcher` |
| `BackendDaemon` | life of the backend process: bus name, spawner, exit | `Daemon` |
| `MC...` | an instance of each for TLC | |
| `RpcChannelProofs`, `DriveSessionProofs`, `EventStreamProofs`, `MonitorDeliveryProofs`, `FileContentProofs`, `MountCredentialsProofs`, `AccountWatcherProofs`, `BackendDaemonProofs` | theorems about the module named | |

The chain of a remote change runs through three of them: `DriveSession` (which
notices an event gives), `EventStream` (that no event or notice is lost on the way
to the answer of `GetEvents`), `MonitorDelivery` (who is told).  A read runs through
`RpcChannel` (the call and its cancellation) and `FileContent` (the handler, which
goes on after the cancellation, and the bytes).

### RpcChannel

`lock`, `nextId` and `cur` are `rpc->lock`, `rpc->next_id` and the connection
behind `rpc->conn`; `pc` says where each caller is in `call()`.  `conns[c]` is one
connection: bytes on the way to the helper (`wire`, a sequence of request ids),
the scanner goroutine (`reading`, `sending` on the unbuffered channel while it
holds a request, `done`), the request being dispatched (`busy`), the handlers'
context, the answers not read yet, and whether `handleConn` still runs.  A
request or an answer is its id: payloads do not influence the channel.

`Lock`, `SendRequest`, `ReceiveReply`, `ReceiveEof`, `ReceiveCancelled` with
`Reconnect`, and `Return` are the paths through `call()` and back into the `do_*`
method.  `FetchThumbnail` is `do_query_info`'s second call, which reuses the job's
cancellable and ignores the error.  After a failed reconnect `rpc->writer` points
into a freed connection: `SendDangling` lets the write crash the backend or fail
without setting an error.  `derefs` tells which callers read through the GError:
`Return` crashes the backend when one of them meets an unset error.  `CancelJob`
needs the main loop to be idle, because gvfsd delivers cancellations from it.
`HelperCrash` ends every connection; nothing restarts the helper during a mount.

`SerialCalls` has none of this: a caller asks, is admitted with the next ticket
while nobody else is, and then is answered with its own ticket or, if it was
cancelled or the helper is dead, aborted; and only with a dead helper may the
backend end.  The mapping takes `pc` to the four stages (holding the mutex is
"admitted"), `reqId` to the ticket and `got` to the answer; connections, scanners
and handlers are the steps that stutter.

### DriveSession

The remote volume is `node` (parent, name, state and revision of every link) and
`log` (its events).  Other clients create, trash, delete, update and move links.
The caches are `meta`, `pathLinks`, `linkPaths` and `nodeKRs`, as in `Session`.

Each RPC handler is a record in `call`.  `Begin` dispatches ListDir, Stat, Mkdir
or Delete; `GetStat` .. `Statted` are `Stat` and `statUncached`, `ResolveFast`,
`ResolveStart`, `Walk` and `WalkStep` are `resolvePath`, and `GetList`, `Fetch` and
`FetchStore` are `ListChildren`.  An API request is two steps, the server's answer
and its use, so the poller and remote changes fall in between.  Every request may
also fail offline (`OfflineFallback` gives what the code falls back to) or be
refused.

The poller handles one event of the log at a time: `HandleDelete`, `HandleCreate`
or `HandleUpdate` does the look-ups and invalidations that precede the first API
request; `StageFrom` picks the next attempt of the fallback chain (diff of the
link's own listing, diff of the parent's, trash check, plain "changed") whose
condition holds; `DiffFetch` and `DiffApply` are `diffAndEmit`.  `Refresh` is the
full refresh.  `emitted` holds what the last event enqueued.

Abstractions: names are decrypted already (whoever has the parent's keyring reads
them); the TTL is a free choice at every look-up between fresh and expired, so a
property that holds never relies on expiry; each access to a Go map is atomic;
`resolvePath`'s assignments after one answer are one step.  `overtaken` on a cache
entry is a history bit: the entry was fetched before and stored after an
invalidation by the poller.

### EventStream

Events are numbers; `head` is the latest.  Each session has a poller record, and a
replaced session's poller goes on, since `ResumeSession` never closes the old
session.  `Poll` takes a batch up to `goal`, `Handle` deals with one event and
enqueues a notice, `BatchDone` leads to `SaveTruncate` and `SaveWrite`, the two
halves of `os.WriteFile`, each of which may fail.  `Drain` moves the queue of the
session in use into an answer, `Deliver` is `poll_events_cb` passing it on.  `Crash`
keeps only the file.  `handled`, `skipped`, `seen` and `dropped` are history; the
last two speak of the backend that mounted last, so that what an earlier one was
told does not count for it.

Here every handled event gives one notice.  That `handle()` may give none or
several is in DriveSession.

`EventFeed` is what this adds up to.  A reader begins at the mark, or anew, and takes
events in order (`Take`); they wait, are sent and arrive, and only the oldest waiting
are lost.  A mark is saved only where every event before it has been dealt with
(`Save`), so a later reader deals with some events again and misses none; a reader
that was replaced goes on (`TakeUnused`).  Batches, refreshes, the halves of a save
and the leaked pollers are gone.  In `StreamRefinement` the reader is the poller of
the session in use, an event is taken when it is handled, and the mark is the file.

### MonitorDelivery

`array` holds the places of `self->monitors` written so far and `len` how many of
them count, `events` the notices handed over, `pos` and `cursor` the two loop
variables of `poll_events_cb` and `emit_on_monitors`.  `AddBegin` and `AddEnd` are the
two halves of `g_ptr_array_add`, run by job threads with no lock: two of them may
read the same length and one entry is lost, with more of them the length may even
go back and hide entries that were there, and `RaceFault` lets an access to an array
being changed end the process.  `MonitorGone` zeroes the weak
pointer; it needs the main loop.  A path is a sequence of names and a name a
sequence of characters, because `Matches` compares strings and not names.

### FileContent

A byte is its revision and its place there.  `handle` is the `ProtonHandle` with
what its client has read; `work[h]` a `ReadFile` handler, of which several may run:
a cancelled read leaves its own behind.  `blocks` gives the bytes stored for each
block file and `order` their times of use.  `PutBlock` (create or truncate),
`WriteBlock` and `WriteFails` (part of the bytes), `WalkBlocks` (under the mutex),
`EvictOne` and `Evicted` are the steps of a put; other handlers and the poller's
`InvalidateLink` fall in between, and `HelperCrash` keeps the files as they are.
`GetRevision` may find Proton unreachable, and then the range is served from
`readFromCache`'s blocks.

### MountCredentials

`server` is Proton's side: for each log-in (a UID) the generation of the refresh
token it accepts, 0 for none.  `keyring` holds the three secrets, `backend` the step
of `do_mount` with what it has looked up, `helper`, `sock` and `session` the helper
processes, the owner of the socket file and the API client's token, `handler` the
`ResumeSession` handlers, which outlive a backend that is gone.  `wizard` is the
setup wizard; its own helper is folded into it.

A mount has four ends, which `backend.pc` keeps apart: `mounted` and `failed`, the
answers the client gets (success, or the error of a look-up, a spawn, a connection or
the helper's answer), and two without an answer, `killed` from outside (`BackendExits`)
and `crashed`.  The last is `ResumeEof`: the helper dies with the call under way, the
line read ends with no `GError`, and `do_mount` hands NULL to
`g_vfs_job_failed_from_error` (`gvfsbackendproton.c:432-436`), which `RpcChannel` counts as
the end of the backend for every call (`Return`).  A connection that is reset sets an
error, as does writing to a helper already dead, and both fail the mount like any
other.  `MountAnswered` asks for one of the two answers and allows `crashed` after the
death of the helper it is connected to only.

A helper removes the path, binds it and listens in three steps, so a mount may find
the file too early, and a slow helper may remove the socket of a later one.  A
refresh is refused, or accepted with its answer delivered or lost.  After it,
`ResumeSucceeds` tells the backend the new token; `ResumeFails` deletes the session,
as the code does for any error.  `Refresh401` is go-proton-api refreshing by itself.
The stores are one step each, and so are the wizard's three; every process may end
between two steps (`BackendExits`, `HelperDies`, `WizardGivesUp`).

`mishaps` is history: what happened since the wizard last began to store that can
leave the keyring behind Proton (`refreshed` after a 401, `reply_lost`,
`resume_failed`, `store_failed`, `crash` with a token not yet stored, `overlap` of a
mount with the wizard).  Each of the six alone leads to a keyring that cannot be
used; `UsableButForMishaps` says that nothing else does.

### AccountWatcher

`known` is `_known` and with it `_volumes`, which follows it in the same step.  A
look is a `reload` under way: `Search` reads the keyring, `Apply` emits the
differences.  Every `CollectionChanged` starts a look of its own, and looks end in
any order.  `pc` follows `start()`: before `armed` the wizard's signals are not
subscribed to, before the first look is applied the service's are not connected.
`owed` are announcements of the wizard still to come, `inbox` the signals in bus
order.  `excused` is history: known was left behind in one of the ways
`VolumesCatchUp` lists.

### BackendDaemon

`names` is the bus: the owner of `org.gtk.vfs.mountpoint_<pid>` and its queue; two
processes share it when they have the same pid in different namespaces.  `inbox`
holds what the bus has told a process, `awaiting` the Spawned calls whose callback
is due, `mail` those the spawner has not read.  `Quit` leaves the main loop, `Exit`
is what follows it; callbacks that are due may still run in between.

## 3. Properties and runs

Each run checks the properties named in its configuration.  `CHECK_DEADLOCK
FALSE` is set everywhere because a backend without requests, a volume without
changes and a model at its bound may all stop.

| Run | Instance | Shows |
|---|---|---|
| `Rpc` | 1 job, main loop, calls start while `next_id` <= 3 | `ImplementsSerialCalls`: the channel does what its header promises.  `ResponseMatches`: a caller's answer is to its own request although ids are never compared.  `BackendSurvives`: unset errors and the dangling writer need a dead helper.  `ScannerNeverStuck`: no goroutine blocked on `reqs <- req` by a loop that returned.  `CancelReleasesLock`, `MCAbandonedConnsClosed` |
| `SessionLists` | root, one folder, one file, names `a`, `b`, depth 2, two events | `ListsCurrentUnlessOvertaken`: once the poller caught up, a cached listing that was not stored late is the folder's current one |
| `SessionPaths` | moves and deletions of a folder, one event, longest chains of cache misses | `ResolvedHaveKeyrings`: what `pathLinks` names has a keyring; `RequestsEnd`, `PollerCatchesUp` |
| `Stream` | 2 events, 2 sessions, 1 crash, buffer of 1 | `AnchorCovered`: the anchor file never passes over an event; `NothingLostButOverflow`; `ToldOnceInOrder`: bursts, refreshes, crashes and remounts tell a backend nothing twice or out of order; `ImplementsFeed`; `EventuallyHandled` |
| `Mount` | 2 helpers, 2 mounts, 2 sign-ins, 3 generations of a token | `UsableButForMishaps`: between mounts and sign-ins the keyring holds the one token Proton accepts, unless one of six mishaps happened; `MountAnswered`: a mount succeeds or fails, unless the backend is killed or the helper dies with `ResumeSession` under way |
| `Monitors` | 2 monitors, any batches of up to 2 notices, paths `/`, `/a`, `/ab` and below | `EveryWatcherTold`: who is in place when a notice's turn comes is told of its tree; `OnlyOwnTree`; `InOrderOnce` |
| `Reads` | 2 handlers, 2 revisions of 0 or 4 bytes, blocks of 2, reads of 3, a page of 2 blocks, a cache of 3 bytes, 2 mishaps | `ReadsAddUp`: the bytes read on a handle are the beginning of one revision, and all of it at end of file; `CacheBounded`; `OfflineOnlyWhenMissing` |
| `Watcher` | 2 accounts, 3 changes of the keyring, 1 failed search | `KeptStaysShown`; `VolumesCatchUp` |
| `Daemon` | one spawned process, one started by hand, one name | `SuccessStands`, `ReportsOrExits`, `FailureExits` |

Bounds.  A job and the timer give a holder and a waiter at the mutex, and the job
may be cancelled while the other waits; a caller that entered before the bound
still gets its id, so up to four requests and as many reconnections happen, one
more than a stale answer needs.  The safety properties and the refinement are
proved for any number of jobs and calls.
Two levels of folders, two names and one file give a parent, a child, a rename
and a name clash; the second event makes one event's diff meet the next change.
Two sessions are one remount or one restart; two events overflow a buffer of one.
Two mounts are a mount and one that meets what the first left behind (a helper, a
stale socket, an abandoned handler); two sign-ins are the first and one that races
with a mount; three generations are a resume and a refresh of the same log-in.
Two monitors are enough for a lost entry and for a sibling with a like name; two
notices for an order.  In `Reads` a block of two bytes and reads of three make
ranges that begin and end inside a block, at its end and at the end of the file; a
cache of less than two blocks makes every second put evict; two mishaps are a
cancelled read and another cancellation, failed write or crash after it; two
handlers are the attached one and one left behind.  Three changes of the keyring
with two accounts are an account removed and added again beside another one, with
up to three looks under way.
Which requests and remote changes a Session run uses is in `MCDriveSession`, chosen so that the runs together fire every action.

Fairness.  `Rpc`: threads inside `call()` and the helper's goroutines keep
running; a handler is only assumed to end once its context is cancelled, because
every API request it makes carries that context.  Nothing is assumed of the lock,
of cancellations or of new calls.  `SessionPaths`: a handler that has begun and
the poller keep taking steps, since each waits only for API requests, which are
answered or fail.  `Stream`: the ticker fires and the goroutine runs, and
a poll that the API answers eventually happens.  `Mount`: the backend and the
handler it waits for keep running, and a request to Proton is answered or fails.
`Watcher`: the main loop runs and the keyring service answers or fails.  `Daemon`: the
main loop dispatches what is due, and a D-Bus call ends by an answer or by GDBus's
time limit; nobody has to shut a daemon down.
Remote changes, crashes, mounts and new requests are never forced.

## 4. Where the code and its documentation disagree

Three runs check what a comment or document says and find it violated.

| Run | Said | Done |
|---|---|---|
| `SessionStats` | `events.go`: the next Stat "hits the API rather than a stale cache entry" | a file's path is not recorded, so its stat entry survives its event |
| `MountRotations` | `do_mount`: "Proton rotates the refresh token on every use — persist the new one" | a refresh after a 401 is kept in the session only |
| `MonitorsRefresh` | `events.go:153`: "request a full refresh"; `gvfsbackendproton.c:163`: "tell every watcher" | the notice names `/`, so only monitors of the root are told |

Divergences seen while modelling that the models have and no run singles out:

* `proton-rpc.c:51` and `proton-rpc.h:88` say a failed call sets its error; a clean
  end of file gives NULL without one (`ReceiveEof`, and `ResumeEof` in
  `MountCredentials`).  `BackendSurvives` says what is left of it: only a dead helper
  leads there; `MountAnswered` says the same of `do_mount`.
* `gvfsbackendproton.c:145` says an event is emitted on the monitors of the path itself
  and of its direct parent; the comparison at 171-174 takes in every folder above, so
  a monitor on `/` hears of `/a/b`.  `EveryWatcherTold` and `OnlyOwnTree` state what the
  code does, for ancestors at any distance.
* `docs/reference.md:114` says of a delete event that only the link's id is reliable;
  `events.go:213` uses its parent's id too when the link's path is unknown.
  `HandleDelete` takes the parent's id to be there; without it the parent's listing
  would stay as it is, as with a deleted file whose path is unknown.
* `session.go:845` says Stat "always populates nodeKRs"; it unlocks the parent's
  keyring only, and `MakeDir` below a folder never listed fails.
* `ROADMAP.md:199` says renames appear as delete and create; the rename of a folder
  whose own listing is cached is announced to nobody.
* `ROADMAP.md:179` says no events are missed over a restart; the first anchor is not
  saved, and a crash inside a save loses the one before.
* `proton-account-watcher.vala:6` says each transition is signalled exactly once;
  a look overtaken by another adds or removes a volume again (`KeptStaysShown` is
  what holds).  Nothing in the repository emits AccountRemoved.

Other behaviours of the models: the poll timer waits for
the mutex a job holds, and with it the main loop; a failed reconnect leaves
`rpc->writer` dangling; an answer overtaken by an invalidation is stored after it
and stays until it expires (the exception in `ListsCurrentUnlessOvertaken`); a
deleted file whose path is unknown stays listed; an overtaken walk leaves the path
of a moved folder in `pathLinks`; `do_mount`'s message for missing credentials is
never given, since a look-up yields an empty string and not NULL; a truncated block
file is served as if it were whole, and a handle whose file gets a new revision
reads a mixture of the two (the exceptions in `ReadsAddUp`); `readFromCache` asks for
the last block even when no byte of it is wanted, so an empty file and a read at
the end of a file fail offline (the exception in `OfflineOnlyWhenMissing`); two
monitors added at once may leave one of them unheard, or end the process; a daemon
that cannot make a proxy for its spawner stays on the bus unreported; one queued
for its name may report failure and then success.

## 5. Proofs

TLAPS proves, for every value of the constants:

* `RpcChannelProofs!ChannelTypeCorrect`, `EveryResponseMatches`, `NoScannerStuck`
  from `CallersAssumption` (the main loop is no job, nobody is no caller) and
  `MaxCallsAssumption`.  `ResponseMatches` is not inductive: an answer in a buffer
  must be known to be the answer the reader waits for.  `ChannelInv` adds: the
  holder of the mutex is the only caller between `sending` and `reconnecting`
  (`LockInv`); a call under way has no outcome yet (`FreshOutcome`); a reader has a
  connection (`ReceiverConnected`); a connection holds at most one request id,
  on the wire, with the scanner, at the handler or among the answers
  (`OnePerConn`); the current connection carries nothing but the id its reader
  waits for, and nothing at all when nobody reads (`CurrentCarries`); a finished
  scanner means a closed connection (`EofMeansClosed`).  Cancelling preserves it
  because it replaces the connection.  `OnePerConn` also gives `ScannerNeverStuck`:
  a loop returns early only on a failed write, and then there is no second request.
* `RpcChannelProofs!BackendSurvivesHelper` and `ChannelImplementsSerialCalls`, from
  the same assumptions.  `HealthInv` adds to `ChannelInv` that a living helper
  serves the connection in use, that without a connection one is being made or the
  helper is dead, that only a cancelled call reconnects, and that a call without an
  answer or an error set means a dead helper.  The refinement has one lemma per action: each is a step
  of `SerialCalls` or leaves the mapped variables alone.  `ReceiveReply` needs
  `EveryResponseMatches`' invariant (the answer is the caller's own), `Lock` needs
  `LockInv` (nobody else is admitted), and the aborting paths need `HealthInv` (a
  call that fails was cancelled or has lost its helper).
* `DriveSessionProofs!SessionTypeCorrect` and `ResolvedAlwaysHaveKeyrings` from
  `LinksAssumption`, `NoPathAssumption`, `BoundsAssumption`, `RequestsAssumption` and
  `RemoteAssumption`.  `TypeOK` is inductive because it says more than sets: `IsCall` ties
  a request's state to where it is (a walk has a part of its path ahead of it, what
  Stat found is a link once it is done, MakeDir is at a folder and has a name to
  create), `IsPoll` says that `handle()` compares a folder only when its path is known,
  and `PollAhead` that the event at hand is in the log, without which the poller could
  count past its head.  `ResolvedHaveKeyrings` is inductive by itself: a link enters
  `pathLinks` in the step that adds its keyring, and the poller only takes paths away.
* `DriveSessionProofs!SettledListsStayCurrent` (`ListsCurrentUnlessOvertaken`) from the
  same and from `[][Settled]_vars`: links that exist keep their parent and name, no
  folder is trashed or deleted, and a file is deleted for good only from the trash.
  Links may be created, updated and trashed by anyone, in any number, at any time, and
  every request, failure and invalidation of the model is allowed.  Beyond that the
  claim is false of the code: a folder renamed while a request is on its way to it is
  listed after the invalidation and cached under its old path, and an event about a
  link whose path is unknown does not find the listing it should drop.  All steps of
  `SessionLists` are settled ones.  `FreshInv` follows a listing from the answer of the
  API to the cache: it is the folder's current one, or an event is still to come whose
  handling will drop it (`Fresh`, `Pending`), or it is marked as overtaken.  That the
  event finds it needs `PlacesInv` (the paths recorded for folders are right, and
  `pathLinks` agrees with `linkPaths`), `CallsInv` (a handler is at the folder it has
  resolved, with that folder's listing) and `PollInv` (so is `handle()`).
  `RecordedPathsAreRight` turns the links between parents and children into paths from
  the root, by induction on their length.
* `EventStreamProofs!StreamTypeCorrect` and `ResumeMissesNothing` from
  `StreamBounds`, `BufferSizeAssumption` and `NoAnchorAssumption`.  `AnchorInv` adds
  to `AnchorCovered` that every poller's own anchor is covered, that a poller
  inside a batch has handled everything below its next event, and that one that
  is saving has handled everything up to what it saves.  It holds of leaked
  pollers as well, which is why their writes do no harm to coverage.
* `EventStreamProofs!OnlyOverflowLoses` from the same.  `DeliveryInv` adds to
  `NothingLostButOverflow` how far each poller has come: sessions not started have
  passed nothing, a poller between two batches is past its anchor, one that saves is
  past what it saves.  Without that, a poller that starts a batch could pass over an
  event it never made a notice of.
* `EventStreamProofs!ToldInOrder` (`ToldOnceInOrder`) and `StreamImplementsFeed`
  (`ImplementsFeed`) from the same.  `FeedInv` adds to both invariants that nothing is
  saved, aimed at or passed that was not made, that a poller leaves out no event between
  two batches and none in one (`PollerInOrder`: at rest it is exactly one past its
  anchor, which is why polling again repeats nothing), that a queue is in order, and
  that what the backend has been told or is being told is less than all its session's
  poller will still queue (`ToldInv`).  `EnqueueInOrder` is the lemma both rest on: what
  a full queue gives up comes before all the rest, and what is added after it.  Then
  every step is one of `EventFeed` or changes nothing it speaks of; `SaveStep` needs
  `AnchorInv`, `MountFeeds` that a session not started has an empty record.
* `MonitorDeliveryProofs!MonitorTypeCorrect` and `ToldInOrder` from `PathsAssumption` and
  `MaxEventsAssumption`; `ToldOfOwnTreeOnly` (`OnlyOwnTree`) and `NobodyPassedOver`
  (`EveryWatcherTold`) also from `NamesAssumption`: a name is not empty and has no slash
  in it, whatever the characters are.  The lemma `ComparesAsPaths` shows that the string
  comparison of `emit_on_monitors` then decides whether one path is a prefix of the
  other, however long paths and names are: the strings of two paths agree name by name
  up to the first slash where they part (`NamesAgree`), and a path's string is the
  concatenation of its names (`FlattenFacts`).  Both are inductions, over a set of
  numbers rather than with a predicate as parameter (`SetInduction`).  `MonitorInv` adds to `InOrderOnce` that a monitor has one
  place at most and only while it lives (`ArrayInv`: two places would tell it twice),
  that one told of the notice at hand has no place ahead of the cursor (`OrderInv`),
  that a monitor added while no other was has a place that counts and that nobody
  still adding will write over (`PlacedInv`), and that everyone whose place is behind
  the cursor has been told (`ToldInv`).
* `FileContentProofs!FileTypeCorrect`, `ReadsAddUpAlways` and `OfflineMissesAreReal` (an
  action property) from `SizesAssumption` and `HandlersAssumption`: for files, blocks,
  pages and requests of any size.  `FileInv` adds that a handler is at a block of its
  range, that the range reaches the block its first byte is in, and ends at
  `endBlock0` when offline (`RangeInv`); that the handler a client waits for reads on
  from the handle's offset and holds exactly the bytes of the blocks it went through,
  or fewer and says so (`ReaderInv`); and that the client has the bytes up to its
  offset, of one revision, and is told of the end of the file only there
  (`HandleInv`).  The core is arithmetic: `AnswerFacts` shows that what `sliceRange` cuts
  out follows what was read before and is empty only at the end of the file.
* `FileContentProofs!CacheAlwaysBounded` (`CacheBounded`) from the same, for a cache, an
  eviction goal and blocks of any size.  `BoundInv`: with no put cut short since the last
  walk, too much is stored only while someone waits to walk the cache, or while the
  holder of the mutex works off a list that names every byte there is (`Accounted`).
  Its `total` may be out of date in both directions, since files on its list are
  emptied, dropped and made again meanwhile; what holds throughout is that it is no
  less than the sizes still on the list, and nothing grows without its writer queueing
  for a walk of its own.  `Stored` counts the bytes as a set, so that the sums are
  cardinalities and `FiniteSetTheorems` speaks of them.
* `MountCredentialsProofs!MountTypeCorrect` and `KeyringUsable` from `MountBounds`.
  `UsableButForMishaps` speaks of states at rest; `CredentialsInv` follows the one
  valid token in between: nobody but the wizard knows a log-in it has not stored
  (`TokensInv`), a handler runs in a helper that listens and the one of the mount
  under way is the one it waits for (`HandlersInv`), and while there was no mishap the
  valid token is with the wizard that stores it, with the mount that rotated it, or
  in the keyring (`KeyringInv`).
* `BackendDaemonProofs!DaemonTypeCorrect` and `SuccessCanBeReliedOn` from
  `ProcessesAssumption`.  `DaemonInv` adds to `SuccessStands` what the bus can have told
  a process and in which order (`BusInv`: one in the queue was not told that it owns
  the name), and that success is the last report, with a failure sent before it heard
  before it (`ReportInv`).
* `AccountWatcherProofs!WatcherTypeCorrect` and `StoredAccountKeepsVolume` from
  `BoundsAssumption`.  `WatcherInv` adds to `KeptStaysShown` that there is at most one
  first look, and only while `start()` waits for it (`OneFirst`, `FirstLook`: otherwise
  a look could be applied after the daemon went down); that every look that has
  searched found all the accounts kept (`FoundKept`: looks applied out of order are
  stale, but never about an account that stayed); and that no removal of an account
  kept is owed or queued (`RemovalsMeant`).

Proof attempts changed four models.  With four monitors the array may lose its last
entries to an add that read the length before them; `MonitorDelivery` now keeps the
places written apart from the length.  `FileContent`'s type said less than the proofs
need and now bounds a handle's offset by a revision and a block file by its block.
`DriveSession`'s paths have any length now: the poller records a child below a path
that is out of date, so `linkPaths` may hold one longer than the tree is deep; where a
path leads (`IsAt`) is said by the links on the way, which a proof can follow, and
`Reachable` says outright that a link which is not active is out of reach.
`EventStream` counted what an earlier backend was told in favour of the present one,
which made `NothingLostButOverflow` weaker than it reads and the refinement false.

Only model-checked: what `ListsCurrentUnlessOvertaken` says is proved for settled
volumes only, as above; and all liveness properties (fairness and ENABLED are outside
what the prover does).

## 6. Not modelled, and the plan

Not modelled: encryption, JSON, file attributes, icons and content types, D-Bus and
GVfs internals; the thumbnail cache (one file per revision, no eviction; its one
hazard is listed); the captcha protocol and windows of the wizard; branches without
a caller (`proton_rpc_auth`, `Move`, `EventPoller.Stop`, `Session.Close`,
`AccountWatcher.stop`, reads of length 0, a session without a cache folder).

Left out inside modelled operations, each noted where it is defined or here:

* `RpcChannel`: a living helper can always be reached by a reconnection, although a
  slow second helper may have removed the socket file (`MountCredentials` has that);
  the scanner's limit on the length of a line, which ends a connection, and the
  malformed request it passes over (`server.go:49-55`), which the client never sends.
* `FileContent`: the walk of the cache folder sees one moment (`WalkBlocks`); a cached
  file can always be removed (`EvictOne`; the code passes over one that cannot, and then
  the limit need not hold); `readFromCache` knows the size of the content, where the code
  uses the link's size (`EndBlock`).

Next:

1. Thumbnails beside `FileContent`'s blocks.
2. `EventFeed` and `MonitorDelivery` in one specification: today the monitors take any
   batches whatever, which includes those the feed delivers.
3. `ListsCurrentUnlessOvertaken` for volumes where folders move, with the listings
   stored under a path that is out of date as a named exception.
