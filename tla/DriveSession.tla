---------------------------- MODULE DriveSession ----------------------------
(***************************************************************************)
(* The helper's view of one Proton Drive volume: the caches and path maps  *)
(* of drive.Session (helper/drive/session.go, metacache.go), filled by RPC *)
(* handlers and invalidated by the event poller (events.go) as other       *)
(* clients change the remote tree.                                         *)
(*                                                                         *)
(* Every API request is two steps, the answer computed by the server and   *)
(* the answer used by the helper, so that the poller and the handlers      *)
(* interleave where they do in the program.  Names are already decrypted:  *)
(* a link's name is readable by whoever holds its parent's keyring.  The   *)
(* clock is left out: an entry of the metadata cache may be found fresh or *)
(* expired at any look-up, and any API request may fail offline.           *)
(***************************************************************************)
EXTENDS Naturals, Sequences, FiniteSets, SequencesExt

CONSTANTS
  Root,         \* linkID of the share's root folder
  Dirs,         \* folder linkIDs, Root included
  Files,        \* file linkIDs
  Names,        \* names a link can have
  MaxDepth,     \* bound: depth of the remote tree
  Handlers,     \* RPC handlers in flight (an abandoned one may overlap the next)
  Requests,     \* RPCs the run exercises: pairs of a method and a path
  RemoteOps,    \* kinds of change other clients make
  RemoteLinks,  \* links those changes touch
  MaxEvents,    \* bound: length of the volume's event log
  NoPath,       \* linkPath() of an unknown link: the empty string
  NoLink        \* no linkID

Links == Dirs \cup Files
Paths == Seq(Names)
RootPath == << >>
Ops == {"ListDir", "Stat", "Mkdir", "Trash", "Delete"}

ASSUME LinksAssumption == Root \in Dirs /\ Dirs \cap Files = {} /\ NoLink \notin Links
ASSUME NoPathAssumption == NoPath \notin Paths
ASSUME BoundsAssumption == MaxDepth \in Nat /\ MaxEvents \in Nat
ASSUME RequestsAssumption == Requests \subseteq Ops \X Paths
ASSUME RemoteAssumption == RemoteLinks \subseteq Links \ {Root} /\ Names # {}

VARIABLES
  node,       \* remote: parent, name, state and revision of every link
  log,        \* remote: the volume's events
  handled,    \* number of events the poller has dealt with
  meta,       \* MetaCache: stats (path -> link) and lists (path -> children)
  pathLinks,  \* path -> linkID, for resolved folders
  linkPaths,  \* linkID -> path
  nodeKRs,    \* links whose keyring is cached
  call,       \* each RPC handler's progress
  poll,       \* the poller's progress through handle()
  emitted     \* events enqueued for the volume event handled last

remoteVars == <<node, log>>
mapVars    == <<pathLinks, linkPaths, nodeKRs>>
pollVars   == <<handled, poll, emitted>>
vars       == <<remoteVars, meta, mapVars, call, pollVars>>

Parent(p)   == IF p = RootPath THEN RootPath ELSE Front(p)   \* path.Dir
Child(p, n) == Append(p, n)

(* Go maps: assignment, delete, look-up with a zero value.                 *)
Put(f, k, v)       == [x \in DOMAIN f \cup {k} |-> IF x = k THEN v ELSE f[x]]
Drop(f, ks)        == Restrict(f, DOMAIN f \ ks)
Lookup(f, k, zero) == IF k \in DOMAIN f THEN f[k] ELSE zero
EmptyMap           == [x \in {} |-> x]

-----------------------------------------------------------------------------
(* The remote volume, as the helper's API requests see it.                 *)

(* A Link as the API returns it.                                           *)
Snapshot(l) == [id |-> l, name |-> node[l].name, rev |-> node[l].rev]

ActiveChildren(d) ==
  {l \in Links \ {Root} : node[l].state = "active" /\ node[l].parent = d}

Children(d) == {Snapshot(l) : l \in ActiveChildren(d)}

(* Link l is what path p names: a way leads to it from the root.            *)
IsAt(l, p) ==
  \E way \in [0 .. Len(p) -> Links] :
    /\ way[0] = Root /\ way[Len(p)] = l
    /\ \A n \in 1 .. Len(p) : way[n] \in ActiveChildren(way[n - 1]) /\ node[way[n]].name = p[n]

(* An active link whose ancestors lead to the root.                         *)
Reachable(l) ==
  LET up[n \in 0 .. MaxDepth] ==   \* the link's n-th ancestor
        IF n = 0 THEN l
        ELSE IF up[n - 1] \in Links \ {Root} /\ node[up[n - 1]].state = "active"
             THEN node[up[n - 1]].parent ELSE up[n - 1]
  IN  node[l].state = "active" /\ \E n \in 0 .. MaxDepth : up[n] = Root

NameFree(d, n) == \A l \in ActiveChildren(d) : node[l].name # n

(* The answers ListChildren can give for a link, and whether the API may    *)
(* refuse it: a folder that is not active any more may be either listed or  *)
(* refused, a file has no children.                                         *)
Listings(l) == IF l \in Dirs /\ node[l].state \in {"active", "trashed"} THEN {Children(l)} ELSE {}
ListingRefused(l) == l \notin Dirs \/ node[l].state # "active"

LogEvent(type, l) ==
  /\ Len(log) < MaxEvents
  /\ log' = Append(log, [type |-> type, link |-> l,
                         parent |-> node'[l].parent, name |-> node'[l].name])

(* A new link in an active folder, by another client or by CreateFolder.    *)
AddLink(l, d, n) ==
  /\ node[l].state = "absent"
  /\ Reachable(d) /\ NameFree(d, n)
  /\ node' = [node EXCEPT ![l] = [parent |-> d, name |-> n, state |-> "active", rev |-> 0]]
  /\ Reachable(l)'
  /\ LogEvent("create", l)

TrashLink(l) ==
  /\ node' = [node EXCEPT ![l].state = "trashed"]
  /\ LogEvent("update_metadata", l)

DeleteLink(l) ==
  /\ node' = [node EXCEPT ![l].state = "gone"]
  /\ LogEvent("delete", l)

RemoteCreate(l, d, n) == "create" \in RemoteOps /\ AddLink(l, d, n)

RemoteTrash(l) == "trash" \in RemoteOps /\ Reachable(l) /\ TrashLink(l)

RemoteDelete(l) ==
  /\ "delete" \in RemoteOps
  /\ Reachable(l) \/ node[l].state = "trashed"
  /\ DeleteLink(l)

RemoteUpdate(l) ==
  /\ "update" \in RemoteOps
  /\ l \in Files /\ Reachable(l)
  /\ node' = [node EXCEPT ![l].rev = @ + 1]
  /\ LogEvent("update", l)

RemoteMove(l, d, n) ==
  /\ "move" \in RemoteOps
  /\ Reachable(l) /\ Reachable(d) /\ NameFree(d, n)
  /\ node' = [node EXCEPT ![l].parent = d, ![l].name = n]
  /\ Reachable(l)'
  /\ LogEvent("update_metadata", l)

Remote ==
  /\ \E l \in RemoteLinks :
       \/ RemoteTrash(l) \/ RemoteDelete(l) \/ RemoteUpdate(l)
       \/ \E d \in Dirs, n \in Names : RemoteCreate(l, d, n) \/ RemoteMove(l, d, n)
  /\ UNCHANGED <<meta, mapVars, call, pollVars>>

-----------------------------------------------------------------------------
(* MetaCache and the invalidation methods of Session.                      *)

(* "overtaken" records that the poller invalidated caches after the server  *)
(* had computed the answer and before it was stored.                        *)
SetStat(m, p, link, overtaken) ==
  [m EXCEPT !.stats = Put(@, p, [link |-> link, overtaken |-> overtaken])]

SetList(m, p, links, overtaken) ==
  [m EXCEPT !.lists = Put(@, p, [links |-> links, overtaken |-> overtaken])]

(* Mutant: the path's own listing is kept.                                  *)
MetaInvalidateParentOnly(m, p) ==
  IF p = NoPath THEN m
  ELSE [stats |-> Drop(m.stats, {p}), lists |-> Drop(m.lists, {Parent(p)})]

MetaInvalidatePath(m, p) ==
  IF p = NoPath THEN m
  ELSE [stats |-> Drop(m.stats, {p}), lists |-> Drop(m.lists, {p, Parent(p)})]

(* One entry whose link matches is dropped, whichever the map yields first. *)
MetaInvalidateLinkID(m, l) ==
  LET hits == {p \in DOMAIN m.stats : m.stats[p].link.id = l}
  IN  IF hits = {} THEN {m} ELSE {MetaInvalidatePath(m, p) : p \in hits}

(* Session.InvalidatePath on pathLinks: p and every key with prefix p + "/".*)
(* For "/" that prefix is "//", which no key has; for the empty string it   *)
(* is "/", which every key has.                                             *)
ForgetPath(pl, p) ==
  CASE p = NoPath   -> EmptyMap
    [] p = RootPath -> Drop(pl, {RootPath})
    [] OTHER        -> Drop(pl, {q \in DOMAIN pl : IsPrefix(p, q)})

(* Session.invalidateLinkID on pathLinks: the link's own entry only.        *)
ForgetLink(pl, l) == Drop(pl, {p \in DOMAIN pl : Lookup(linkPaths, l, NoPath) = p})

-----------------------------------------------------------------------------
(* RPC handlers: Session.ListChildren, Stat, MakeDir, Delete, with          *)
(* resolvePath as the sub-procedure they share.                             *)

NoSnapshot == [id |-> NoLink, name |-> NoLink, rev |-> 0]

CallPcs == {"idle", "getStat", "rootLink", "resolve", "walk", "walked", "getList", "fetch",
            "fetched", "listed", "statted", "create", "created", "remove"}

IdleCall ==
  [pc |-> "idle", op |-> "none", arg |-> RootPath, target |-> RootPath, dir |-> RootPath,
   after |-> "getList", depth |-> 0, link |-> NoLink, found |-> NoSnapshot,
   resp |-> {}, overtaken |-> FALSE]

Goto(h, c) == call' = [call EXCEPT ![h] = c]

At(h, pc) == call[h].pc = pc

NewCall(op, p) == [IdleCall EXCEPT !.op = op, !.arg = p]

ListDir(h, p) == Goto(h, [NewCall("ListDir", p) EXCEPT !.pc = "getList", !.dir = p])

Stat(h, p) == Goto(h, [NewCall("Stat", p) EXCEPT !.pc = "getStat", !.target = p])

(* MakeDir first stats the parent folder.                                   *)
Mkdir(h, p) == Goto(h, [NewCall("Mkdir", p) EXCEPT !.pc = "getStat", !.target = Parent(p)])

(* Delete, to the trash or for good, first stats the link.                  *)
Delete(h, op, p) == Goto(h, [NewCall(op, p) EXCEPT !.pc = "getStat", !.target = p])

(* A request is dispatched to its handler.                                  *)
Begin(h, op, p) ==
  /\ At(h, "idle")
  /\ \/ op = "ListDir" /\ ListDir(h, p)
     \/ op = "Stat" /\ Stat(h, p)
     \/ op = "Mkdir" /\ p # RootPath /\ Mkdir(h, p)
     \/ op \in {"Trash", "Delete"} /\ p # RootPath /\ Delete(h, op, p)
  /\ UNCHANGED <<remoteVars, meta, mapVars, pollVars>>

(* What an offline error falls back to: ListChildren to a listing of any    *)
(* age, else Stat to an entry of any age, else the request fails.           *)
OfflineFallback(c) ==
  IF c.after = "fetch" /\ c.dir \in DOMAIN meta.lists
  THEN [c EXCEPT !.pc = "listed", !.resp = meta.lists[c.dir].links,
                 !.overtaken = meta.lists[c.dir].overtaken]
  ELSE IF c.op # "ListDir" /\ c.after # "remove" /\ c.target \in DOMAIN meta.stats
  THEN [c EXCEPT !.pc = "statted", !.found = meta.stats[c.target].link]
  ELSE IdleCall

(* Stat: a fresh entry, or statUncached: the root by GetLink, any other     *)
(* path by resolving and then listing its parent.                           *)
GetStat(h) ==
  /\ At(h, "getStat")
  /\ \/ /\ call[h].target \in DOMAIN meta.stats
        /\ Goto(h, [call[h] EXCEPT !.pc = "statted", !.found = meta.stats[call[h].target].link])
     \/ Goto(h, IF call[h].target = RootPath
                THEN [call[h] EXCEPT !.pc = "rootLink"]
                ELSE [call[h] EXCEPT !.pc = "resolve", !.dir = Parent(call[h].target)])
  /\ UNCHANGED <<remoteVars, meta, mapVars, pollVars>>

StatRoot(h) ==
  /\ At(h, "rootLink")
  /\ \/ /\ nodeKRs' = nodeKRs \cup {Root}
        /\ meta' = SetStat(meta, RootPath, Snapshot(Root), FALSE)
        /\ Goto(h, [call[h] EXCEPT !.pc = "statted", !.found = Snapshot(Root)])
     \/ /\ Goto(h, OfflineFallback(call[h]))
        /\ UNCHANGED <<meta, nodeKRs>>
  /\ UNCHANGED <<remoteVars, pathLinks, linkPaths, pollVars>>

(* resolvePath: the whole path is known, or the walk starts at the root,    *)
(* whose keyring may have to be fetched.                                    *)
ResolveFast(h) ==
  /\ At(h, "resolve")
  /\ Lookup(pathLinks, call[h].dir, NoLink) \in nodeKRs
  /\ Goto(h, [call[h] EXCEPT !.pc = call[h].after, !.link = pathLinks[call[h].dir]])
  /\ UNCHANGED <<remoteVars, meta, mapVars, pollVars>>

(* Mutant: pathLinks["/"] is set before the root's keyring is there.        *)
ResolveStartSeedsEarly(h) ==
  /\ At(h, "resolve")
  /\ Lookup(pathLinks, call[h].dir, NoLink) \notin nodeKRs
  /\ linkPaths' = Put(linkPaths, Root, RootPath)
  /\ pathLinks' = Put(pathLinks, RootPath, Root)
  /\ \/ /\ nodeKRs' = nodeKRs \cup {Root}
        /\ Goto(h, [call[h] EXCEPT !.link = Root, !.depth = 0,
                       !.pc = IF call[h].dir = RootPath THEN call[h].after ELSE "walk"])
     \/ /\ Root \notin nodeKRs
        /\ Goto(h, OfflineFallback(call[h]))
        /\ UNCHANGED nodeKRs
  /\ UNCHANGED <<remoteVars, meta, pollVars>>

ResolveStart(h) ==
  /\ At(h, "resolve")
  /\ Lookup(pathLinks, call[h].dir, NoLink) \notin nodeKRs
  /\ linkPaths' = Put(linkPaths, Root, RootPath)
  /\ \/ /\ nodeKRs' = nodeKRs \cup {Root}
        /\ pathLinks' = Put(pathLinks, RootPath, Root)
        /\ Goto(h, [call[h] EXCEPT !.link = Root, !.depth = 0,
                       !.pc = IF call[h].dir = RootPath THEN call[h].after ELSE "walk"])
     \/ /\ Root \notin nodeKRs
        /\ Goto(h, OfflineFallback(call[h]))
        /\ UNCHANGED <<nodeKRs, pathLinks>>
  /\ UNCHANGED <<remoteVars, meta, pollVars>>

(* client.ListChildren of the link reached so far.                          *)
ApiListChildren(h, from, to) ==
  /\ At(h, from)
  /\ \/ \E r \in Listings(call[h].link) :
          Goto(h, [call[h] EXCEPT !.pc = to, !.resp = r, !.overtaken = FALSE])
     \/ ListingRefused(call[h].link) /\ Goto(h, IdleCall)
     \/ Goto(h, OfflineFallback(call[h]))
  /\ UNCHANGED <<remoteVars, meta, mapVars, pollVars>>

Walk(h) == ApiListChildren(h, "walk", "walked")

(* One round of resolvePath's loop: the listing is cached under the path    *)
(* reached, then the next part is looked for among the names.  The walk     *)
(* ends when no name fits, or when the child's keyring does not open.       *)
WalkStep(h) ==
  /\ At(h, "walked")
  /\ LET c    == call[h]
         here == SubSeq(c.dir, 1, c.depth)
         next == SubSeq(c.dir, 1, c.depth + 1)
         hits == {s \in c.resp : s.name = c.dir[c.depth + 1]}
     IN  /\ meta' = SetList(meta, here, c.resp, c.overtaken)
         /\ \/ \E s \in hits :
                 /\ nodeKRs' = nodeKRs \cup {s.id}
                 /\ linkPaths' = Put(linkPaths, s.id, next)
                 /\ pathLinks' = Put(pathLinks, next, s.id)
                 /\ Goto(h, [c EXCEPT !.link = s.id, !.depth = c.depth + 1, !.resp = {},
                               !.overtaken = FALSE,
                               !.pc = IF next = c.dir THEN c.after ELSE "walk"])
            \/ Goto(h, IdleCall) /\ UNCHANGED mapVars
  /\ UNCHANGED <<remoteVars, pollVars>>

(* Mutant: after resolving, the cache is asked again instead of the API.    *)
GetListAgain(h) ==
  /\ At(h, "getList")
  /\ \/ /\ call[h].dir \in DOMAIN meta.lists
        /\ Goto(h, [call[h] EXCEPT !.pc = "listed", !.resp = meta.lists[call[h].dir].links,
                                   !.overtaken = meta.lists[call[h].dir].overtaken])
     \/ Goto(h, [call[h] EXCEPT !.pc = "resolve", !.after = "getList"])
  /\ UNCHANGED <<remoteVars, meta, mapVars, pollVars>>

(* ListChildren: a fresh listing, or resolve and fetch.                     *)
GetList(h) ==
  /\ At(h, "getList")
  /\ \/ /\ call[h].dir \in DOMAIN meta.lists
        /\ Goto(h, [call[h] EXCEPT !.pc = "listed", !.resp = meta.lists[call[h].dir].links,
                                   !.overtaken = meta.lists[call[h].dir].overtaken])
     \/ Goto(h, [call[h] EXCEPT !.pc = "resolve", !.after = "fetch"])
  /\ UNCHANGED <<remoteVars, meta, mapVars, pollVars>>

Fetch(h) == ApiListChildren(h, "fetch", "fetched")

FetchStore(h) ==
  /\ At(h, "fetched")
  /\ meta' = SetList(meta, call[h].dir, call[h].resp, call[h].overtaken)
  /\ Goto(h, [call[h] EXCEPT !.pc = "listed"])
  /\ UNCHANGED <<remoteVars, mapVars, pollVars>>

(* Mutant: the zero Link is cached for a path that does not exist.          *)
StatNotFoundCached(h) ==
  /\ Goto(h, IdleCall)
  /\ meta' = SetStat(meta, call[h].target, NoSnapshot, FALSE)

(* "not found": the handler fails and nothing is cached.                    *)
StatNotFound(h) ==
  /\ Goto(h, IdleCall)
  /\ UNCHANGED meta

(* The listing is the answer to ListDir; statUncached looks for the name    *)
(* and Stat stores what it finds.                                           *)
Listed(h) ==
  /\ At(h, "listed")
  /\ LET c    == call[h]
         hits == {s \in c.resp : s.name = Last(c.target)}
     IN  \/ /\ c.op = "ListDir"
            /\ Goto(h, IdleCall)
            /\ UNCHANGED meta
         \/ /\ c.op # "ListDir"
            /\ \E s \in hits :
                 /\ meta' = SetStat(meta, c.target, s, c.overtaken)
                 /\ Goto(h, [c EXCEPT !.pc = "statted", !.found = s, !.resp = {},
                                      !.after = "getList", !.overtaken = FALSE])
         \/ /\ c.op # "ListDir" /\ hits = {}
            /\ StatNotFound(h)
  /\ UNCHANGED <<remoteVars, mapVars, pollVars>>

(* What the caller of Stat does next.  MakeDir needs the keyring of the     *)
(* folder it stats (nodeKeyRing) and its hash key, and fails without them   *)
(* or when it cannot make the new folder's keys; Delete resolves the parent *)
(* once more.                                                               *)
Statted(h) ==
  /\ At(h, "statted")
  /\ LET c == call[h]
     IN  \/ c.op = "Stat" /\ Goto(h, IdleCall)
         \/ /\ c.op = "Mkdir" /\ c.found.id \in nodeKRs \cap Dirs
            /\ Goto(h, [c EXCEPT !.pc = "create"])
         \/ c.op = "Mkdir" /\ Goto(h, IdleCall)
         \/ /\ c.op \in {"Trash", "Delete"}
            /\ Goto(h, [c EXCEPT !.pc = "resolve", !.dir = Parent(c.arg), !.after = "remove"])
  /\ UNCHANGED <<remoteVars, meta, mapVars, pollVars>>

(* client.CreateFolder: done, refused (the name exists, the folder is gone) *)
(* or failed on the network, before or after the server acted on it.        *)
CreateFolder(h) ==
  /\ At(h, "create")
  /\ \/ \E l \in Dirs : AddLink(l, call[h].found.id, Last(call[h].arg))
     \/ UNCHANGED remoteVars
  /\ Goto(h, [call[h] EXCEPT !.pc = "created"])
  /\ UNCHANGED <<meta, mapVars, pollVars>>

(* Whatever the outcome, MakeDir drops the parent's metadata.               *)
MakeDirDone(h) ==
  /\ At(h, "created")
  /\ meta' = MetaInvalidatePath(meta, call[h].target)
  /\ Goto(h, IdleCall)
  /\ UNCHANGED <<remoteVars, mapVars, pollVars>>

(* TrashChildren or DeleteChildren, done, refused or failed; no cache is    *)
(* touched.                                                                 *)
RemoveLink(h) ==
  /\ At(h, "remove")
  /\ LET c == call[h]
         l == c.found.id
     IN  \/ /\ l # Root /\ node[l].state = "active" /\ node[l].parent = c.link
            /\ \/ c.op = "Trash" /\ TrashLink(l)
               \/ c.op = "Delete" /\ DeleteLink(l)
         \/ UNCHANGED remoteVars
  /\ Goto(h, IdleCall)
  /\ UNCHANGED <<meta, mapVars, pollVars>>

Progress(h) ==
  \/ GetStat(h) \/ StatRoot(h) \/ ResolveFast(h) \/ ResolveStart(h)
  \/ Walk(h) \/ WalkStep(h) \/ GetList(h) \/ Fetch(h) \/ FetchStore(h)
  \/ Listed(h) \/ Statted(h) \/ CreateFolder(h) \/ MakeDirDone(h) \/ RemoveLink(h)

Handler(h) == (\E r \in Requests : Begin(h, r[1], r[2])) \/ Progress(h)

-----------------------------------------------------------------------------
(* EventPoller.handle: one volume event, with the API requests it makes.    *)

PollPcs == {"createName", "diffOwn", "applyOwn", "diffParent", "applyParent", "checkTrash", "changed"}

IdlePoll == [pc |-> "idle"]

LinkPath(l) == Lookup(linkPaths, l, NoPath)

(* GetListStale, before anything is invalidated.                            *)
OldList(p) == IF p \in DOMAIN meta.lists THEN {meta.lists[p].links} ELSE {}

(* Listings computed before this invalidation are stored after it.          *)
Overtake ==
  call' = [h \in Handlers |->
             IF call[h].pc \in {"walked", "fetched", "listed"}
             THEN [call[h] EXCEPT !.overtaken = TRUE] ELSE call[h]]

Handling(types) ==
  /\ poll.pc = "idle" /\ handled < Len(log)
  /\ log[handled + 1].type \in types
  /\ Overtake

Notify(type, p) == IF p = NoPath THEN << >> ELSE <<[type |-> type, path |-> p]>>

(* Mutant: poll() returns the anchor it was given.                          *)
HandleDoneKeepsAnchor(events) ==
  /\ emitted' = events
  /\ poll' = IdlePoll
  /\ handled' = handled

HandleDone(events) ==
  /\ emitted' = events
  /\ poll' = IdlePoll
  /\ handled' = handled + 1

(* Without a path for the link itself the event's ParentLinkID decides, and *)
(* is taken to be there.                                                    *)
HandleDelete ==
  /\ Handling({"delete"})
  /\ LET e    == log[handled + 1]
         path == LinkPath(e.link)
     IN  \/ /\ path # NoPath
            /\ meta' = MetaInvalidatePath(meta, path)
            /\ pathLinks' = ForgetPath(pathLinks, path)
            /\ HandleDone(Notify("deleted", path))
         \/ /\ path = NoPath
            /\ meta' \in MetaInvalidateLinkID(meta, e.parent)
            /\ pathLinks' = ForgetLink(ForgetPath(pathLinks, NoPath), e.parent)
            /\ HandleDone(Notify("changed", LinkPath(e.parent)))
  /\ UNCHANGED <<remoteVars, linkPaths, nodeKRs>>

(* The created child's path, from the name in the event or from GetLink.    *)
AnnounceCreated(l, p) ==
  /\ linkPaths' = Put(linkPaths, l, p)
  /\ HandleDone(Notify("created", p))

HandleCreate ==
  /\ Handling({"create"})
  /\ LET e      == log[handled + 1]
         parent == LinkPath(e.parent)
     IN  \/ /\ parent = NoPath
            /\ meta' \in MetaInvalidateLinkID(meta, e.parent)
            /\ pathLinks' = ForgetLink(pathLinks, e.parent)
            /\ HandleDone(<< >>)
            /\ UNCHANGED linkPaths
         \/ /\ parent # NoPath
            /\ meta' = MetaInvalidatePath(meta, parent)
            /\ pathLinks' = ForgetPath(pathLinks, parent)
            /\ \/ e.parent \in nodeKRs /\ AnnounceCreated(e.link, Child(parent, e.name))
               \/ /\ e.parent \in nodeKRs
                  /\ poll' = [pc |-> "createName", ev |-> e, path |-> NoPath,
                              parentPath |-> parent, old |-> {}, oldParent |-> OldList(parent),
                              resp |-> {}]
                  /\ emitted' = << >>
                  /\ UNCHANGED <<linkPaths, handled>>
               \/ /\ e.parent \notin nodeKRs
                  /\ HandleDone(Notify("changed", parent))
                  /\ UNCHANGED linkPaths
  /\ UNCHANGED <<remoteVars, nodeKRs>>

(* The attempts of the fallback chain, each tried when its condition holds. *)
Stages == <<"diffOwn", "diffParent", "checkTrash", "changed">>

Applies(q, stage) ==
  CASE stage = "diffOwn"    -> q.path # NoPath /\ q.old # {} /\ q.ev.link \in nodeKRs
    [] stage = "diffParent" -> q.parentPath # NoPath /\ q.oldParent # {} /\ q.ev.parent \in nodeKRs
    [] stage = "checkTrash" -> q.path # NoPath
    [] stage = "changed"    -> TRUE

StageFrom(q, i) ==
  LET k == CHOOSE m \in i .. Len(Stages) :
             /\ Applies(q, Stages[m])
             /\ \A o \in i .. m - 1 : ~ Applies(q, Stages[o])
  IN  [q EXCEPT !.pc = Stages[k], !.resp = {}]

HandleUpdate ==
  /\ Handling({"update", "update_metadata"})
  /\ LET e      == log[handled + 1]
         path   == LinkPath(e.link)
         parent == LinkPath(e.parent)
         q      == [pc |-> "begin", ev |-> e, path |-> path, parentPath |-> parent,
                    old |-> OldList(path), oldParent |-> OldList(parent), resp |-> {}]
         own    == MetaInvalidatePath(meta, path)
         both   == MetaInvalidatePath(own, parent)
     IN  /\ meta' \in IF path = NoPath THEN MetaInvalidateLinkID(both, e.parent) ELSE {both}
         /\ LET ownForgotten  == ForgetPath(pathLinks, path)
                bothForgotten == IF parent = NoPath THEN ownForgotten
                                 ELSE ForgetPath(ownForgotten, parent)
            IN  pathLinks' = IF path = NoPath THEN ForgetLink(bothForgotten, e.parent)
                             ELSE bothForgotten
         /\ poll' = StageFrom(q, 1)
         /\ emitted' = << >>
  /\ UNCHANGED <<remoteVars, linkPaths, nodeKRs, handled>>

(* The event carries no name: GetLink, then the diff of the parent.         *)
CreateName ==
  /\ poll.pc = "createName"
  /\ \/ /\ node[poll.ev.link].state # "gone"
        /\ AnnounceCreated(poll.ev.link, Child(poll.parentPath, node[poll.ev.link].name))
     \/ /\ poll' = StageFrom(poll, 2)
        /\ UNCHANGED <<linkPaths, emitted, handled>>
  /\ UNCHANGED <<remoteVars, meta, pathLinks, nodeKRs, call>>

(* diffAndEmit: list the folder again ...                                   *)
DiffFetch(stage, i, dir, apply) ==
  /\ poll.pc = stage
  /\ \/ \E r \in Listings(dir) : poll' = [poll EXCEPT !.pc = apply, !.resp = r]
     \/ poll' = StageFrom(poll, i + 1)
  /\ UNCHANGED <<remoteVars, meta, mapVars, call, handled, emitted>>

DiffOwn    == DiffFetch("diffOwn", 1, poll.ev.link, "applyOwn")
DiffParent == DiffFetch("diffParent", 2, poll.ev.parent, "applyParent")

NamesOf(links) == {s.name : s \in links}

(* ... then compare names, record every child's path, cache the listing.    *)
DiffApply(pc, dirPath, oldLists) ==
  /\ poll.pc = pc
  /\ LET new     == poll.resp
         old     == UNION oldLists
         created == NamesOf(new) \ NamesOf(old)
         deleted == NamesOf(old) \ NamesOf(new)
         events(type, names) == [i \in 1 .. Cardinality(names) |->
                                   [type |-> type, path |-> Child(dirPath, SetToSeq(names)[i])]]
         ids     == {s.id : s \in new}
     IN  /\ linkPaths' = [l \in DOMAIN linkPaths \cup ids |->
                            IF l \in ids
                            THEN Child(dirPath, (CHOOSE s \in new : s.id = l).name)
                            ELSE linkPaths[l]]
         /\ meta' = SetList(meta, dirPath, new, FALSE)
         /\ HandleDone(events("created", created) \o events("deleted", deleted))
  /\ UNCHANGED <<remoteVars, pathLinks, nodeKRs, call>>

DiffApplyOwn    == poll.pc = "applyOwn" /\ DiffApply("applyOwn", poll.path, poll.old)
DiffApplyParent == poll.pc = "applyParent" /\ DiffApply("applyParent", poll.parentPath, poll.oldParent)

(* GetLink: a trashed or deleted link is announced as deleted.              *)
CheckTrash ==
  /\ poll.pc = "checkTrash"
  /\ \/ /\ node[poll.ev.link].state \in {"trashed", "gone"}
        /\ linkPaths' = Drop(linkPaths, {poll.ev.link})
        /\ HandleDone(Notify("deleted", poll.path))
     \/ /\ HandleDone(Notify("changed", poll.path))
        /\ UNCHANGED linkPaths
  /\ UNCHANGED <<remoteVars, meta, pathLinks, nodeKRs, call>>

(* The best-known path changed.                                             *)
FallbackChanged ==
  /\ poll.pc = "changed"
  /\ HandleDone(Notify("changed", IF poll.path # NoPath THEN poll.path ELSE poll.parentPath))
  /\ UNCHANGED <<remoteVars, meta, mapVars, call>>

(* The server asks for a refresh or has forgotten the anchor: everything    *)
(* cached about paths is dropped and the poller goes on from the head.      *)
Refresh ==
  /\ poll.pc = "idle" /\ handled < Len(log)
  /\ Overtake
  /\ meta' = [stats |-> EmptyMap, lists |-> EmptyMap]
  /\ pathLinks' = EmptyMap
  /\ emitted' = Notify("changed", RootPath)
  /\ handled' = Len(log)
  /\ UNCHANGED <<remoteVars, linkPaths, nodeKRs, poll>>

Poller ==
  \/ HandleDelete \/ HandleCreate \/ HandleUpdate \/ CreateName
  \/ DiffOwn \/ DiffApplyOwn \/ DiffParent \/ DiffApplyParent
  \/ CheckTrash \/ FallbackChanged \/ Refresh

-----------------------------------------------------------------------------
(* A volume with some tree in it and a session that has just been opened.   *)
Init ==
  /\ node \in [Links -> [parent : Dirs \cup {NoLink}, name : Names,
                         state : {"absent", "active"}, rev : {0}]]
  /\ node[Root].state = "active" /\ node[Root].parent = NoLink
  /\ node[Root].name = CHOOSE n \in Names : TRUE
  /\ \A l \in Links \ {Root} :
       IF node[l].state = "active" THEN Reachable(l)
       ELSE node[l].parent = NoLink /\ node[l].name = CHOOSE n \in Names : TRUE
  /\ \A k, l \in Links \ {Root} :
       k # l /\ node[k].state = "active" /\ node[l].state = "active" =>
         <<node[k].parent, node[k].name>> # <<node[l].parent, node[l].name>>
  /\ log = << >> /\ handled = 0
  /\ meta = [stats |-> EmptyMap, lists |-> EmptyMap]
  /\ pathLinks = EmptyMap /\ linkPaths = EmptyMap /\ nodeKRs = {}
  /\ call = [h \in Handlers |-> IdleCall]
  /\ poll = IdlePoll /\ emitted = << >>

Next == Remote \/ (\E h \in Handlers : Handler(h)) \/ Poller

Spec == Init /\ [][Next]_vars

(* Goroutines keep running and every API request is answered or fails; new  *)
(* requests need not arrive.                                                *)
FairSpec == Spec /\ WF_vars(Poller) /\ \A h \in Handlers : WF_vars(Progress(h))

-----------------------------------------------------------------------------
(* The poller has dealt with every change made to the volume so far.        *)
CaughtUp == handled = Len(log) /\ poll.pc = "idle"

Events == [type : {"create", "update", "update_metadata", "delete"}, link : Links,
           parent : Dirs \cup {NoLink}, name : Names]
Snapshots == [id : Links, name : Names, rev : Nat]

RemoteType ==
  /\ node \in [Links -> [parent : Dirs \cup {NoLink}, name : Names,
                         state : {"absent", "active", "trashed", "gone"}, rev : Nat]]
  /\ log \in Seq(Events) /\ Len(log) <= MaxEvents /\ handled \in 0 .. Len(log)

IsMeta(m) ==
  /\ DOMAIN m = {"stats", "lists"}
  /\ DOMAIN m.stats \subseteq Paths /\ DOMAIN m.lists \subseteq Paths
  /\ \A p \in DOMAIN m.stats : m.stats[p] \in [link : Snapshots, overtaken : BOOLEAN]
  /\ \A p \in DOMAIN m.lists : m.lists[p] \in [links : SUBSET Snapshots, overtaken : BOOLEAN]

MapType ==
  /\ DOMAIN pathLinks \subseteq Paths /\ Range(pathLinks) \subseteq Links
  /\ DOMAIN linkPaths \subseteq Links /\ Range(linkPaths) \subseteq Paths
  /\ nodeKRs \subseteq Links

(* A walk has a part of its path ahead of it; what was found is a link once *)
(* Stat is done; MakeDir is under way in a folder, for a path with a name.  *)
IsCall(c) ==
  /\ c \in [pc : CallPcs, op : Ops \cup {"none"}, arg : Paths, target : Paths, dir : Paths,
            after : {"getList", "fetch", "remove"}, depth : Nat, link : Links \cup {NoLink},
            found : Snapshots \cup {NoSnapshot}, resp : SUBSET Snapshots, overtaken : BOOLEAN]
  /\ c.pc \in {"walk", "walked"} => c.depth < Len(c.dir)
  /\ c.pc \in {"statted", "remove"} \/ c.after = "remove" => c.found \in Snapshots
  /\ c.pc = "remove" => c.after = "remove"
  /\ c.pc = "create" => c.found.id \in Dirs /\ c.op = "Mkdir"
  /\ c.op = "Mkdir" => c.arg # RootPath

(* A folder that is compared has a path.                                    *)
IsPoll(q) ==
  \/ q = IdlePoll
  \/ /\ q \in [pc : PollPcs, ev : Events, path : Paths \cup {NoPath},
                parentPath : Paths \cup {NoPath}, old : SUBSET SUBSET Snapshots,
                oldParent : SUBSET SUBSET Snapshots, resp : SUBSET Snapshots]
     /\ q.pc \in {"diffOwn", "applyOwn"} => q.path # NoPath
     /\ q.pc \in {"createName", "diffParent", "applyParent"} => q.parentPath # NoPath

CallsType == DOMAIN call = Handlers /\ \A h \in Handlers : IsCall(call[h])

(* handle() is under way for an event the log holds.                        *)
PollAhead == poll.pc # "idle" => handled < Len(log)

TypeOK == RemoteType /\ IsMeta(meta) /\ MapType /\ IsPoll(poll) /\ PollAhead /\ CallsType

(* What is cached for a path is what the API would answer now.              *)
ListIsCurrent(p) == \E d \in Dirs : IsAt(d, p) /\ meta.lists[p].links = Children(d)
StatIsCurrent(p) ==
  LET link == meta.stats[p].link IN IsAt(link.id, p) /\ link = Snapshot(link.id)

(* Once the poller has caught up, a cached listing is the folder's current  *)
(* one, unless it was fetched before and stored after an invalidation       *)
(* (SetList has no way to tell).                                            *)
ListsCurrentUnlessOvertaken ==
  CaughtUp => \A p \in DOMAIN meta.lists : ~ meta.lists[p].overtaken => ListIsCurrent(p)

(* resolvePath's fast path never finds a linkID without its keyring, so the *)
(* parent keyring it returns is never missing.                              *)
ResolvedHaveKeyrings == Range(pathLinks) \subseteq nodeKRs

(* Every request ends, whatever the poller invalidates under it: no chain   *)
(* of cache misses sends it round again.                                    *)
RequestsEnd == \A h \in Handlers : call[h].pc # "idle" ~> call[h].pc = "idle"

(* handle() comes to an end for every event, whichever of its API requests  *)
(* fail, so that the poller catches up with a volume at rest.               *)
PollerCatchesUp == <>[]CaughtUp

-----------------------------------------------------------------------------
(* What the repository says of the caches and the code does not do.         *)

(* events.go: caches are invalidated "so that the next Stat / ListChildren  *)
(* / ReadFileContent hits the API rather than a stale cache entry"; said of *)
(* Stat, and only where no fill is overtaken by an invalidation.            *)
StatsCurrentUnlessOvertaken ==
  CaughtUp => \A p \in DOMAIN meta.stats : ~ meta.stats[p].overtaken => StatIsCurrent(p)
=============================================================================
