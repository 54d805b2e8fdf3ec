------------------------- MODULE DriveSessionProofs -------------------------
(***************************************************************************)
(* The session's maps for any tree, any number of handlers, requests and   *)
(* remote changes: their types, that resolvePath's fast path never finds a *)
(* link without its keyring, and that cached listings stay current where   *)
(* links stay where they are.                                              *)
(***************************************************************************)
EXTENDS DriveSession, SequenceTheorems, WellFoundedInduction, TLAPS

(* Assigning to a Go map.                                                   *)
LEMMA PutFacts ==
  ASSUME NEW f, NEW k, NEW v
  PROVE  /\ DOMAIN Put(f, k, v) = DOMAIN f \cup {k} /\ Put(f, k, v)[k] = v
         /\ \A x \in DOMAIN f : x # k => Put(f, k, v)[x] = f[x]
         /\ Range(Put(f, k, v)) \subseteq Range(f) \cup {v}
BY DEF Put, Range

(* Deleting from one.                                                       *)
LEMMA DropFacts ==
  ASSUME NEW f, NEW ks
  PROVE  /\ DOMAIN Drop(f, ks) \subseteq DOMAIN f
         /\ \A x \in DOMAIN Drop(f, ks) : Drop(f, ks)[x] = f[x]
         /\ Range(Drop(f, ks)) \subseteq Range(f)
BY DEF Drop, Restrict, Range

(* The map without entries.                                                 *)
LEMMA EmptyMapFacts == DOMAIN EmptyMap = {} /\ Range(EmptyMap) = {}
BY DEF EmptyMap, Range

(* Invalidating only ever removes entries of pathLinks.                     *)
LEMMA ForgetFacts ==
  ASSUME NEW pl, NEW p, NEW l
  PROVE  /\ DOMAIN ForgetPath(pl, p) \subseteq DOMAIN pl /\ Range(ForgetPath(pl, p)) \subseteq Range(pl)
         /\ DOMAIN ForgetLink(pl, l) \subseteq DOMAIN pl /\ Range(ForgetLink(pl, l)) \subseteq Range(pl)
<1>1. DOMAIN ForgetLink(pl, l) \subseteq DOMAIN pl /\ Range(ForgetLink(pl, l)) \subseteq Range(pl)
  <2> DEFINE ks == {q \in DOMAIN pl : Lookup(linkPaths, l, NoPath) = q}
  <2>1. ForgetLink(pl, l) = Drop(pl, ks)
    BY DEF ForgetLink
  <2> HIDE DEF ks
  <2> QED BY <2>1, DropFacts, Zenon
<1>2. ASSUME NEW ks, ForgetPath(pl, p) = Drop(pl, ks)
      PROVE  DOMAIN ForgetPath(pl, p) \subseteq DOMAIN pl /\ Range(ForgetPath(pl, p)) \subseteq Range(pl)
  BY <1>2, DropFacts, Zenon
<1>3. ForgetPath(pl, p) = EmptyMap \/ \E ks : ForgetPath(pl, p) = Drop(pl, ks)
  BY DEF ForgetPath
<1>4. ASSUME ForgetPath(pl, p) = EmptyMap
      PROVE  DOMAIN ForgetPath(pl, p) \subseteq DOMAIN pl /\ Range(ForgetPath(pl, p)) \subseteq Range(pl)
  BY <1>4, EmptyMapFacts
<1> QED BY <1>1, <1>2, <1>3, <1>4

-----------------------------------------------------------------------------
(* Paths.                                                                   *)

(* path.Dir, path.Join and the last part of a path.                         *)
LEMMA PathFacts ==
  ASSUME NEW p \in Paths
  PROVE  /\ RootPath \in Paths /\ Parent(p) \in Paths
         /\ \A n \in Names : Child(p, n) \in Paths
         /\ p # RootPath => Last(p) \in Names
<1>1. RootPath \in Paths
  BY DEF RootPath, Paths
<1>2. \A n \in Names : Child(p, n) \in Paths
  BY AppendProperties DEF Child, Paths
<1>3. ASSUME p # RootPath PROVE Front(p) \in Paths /\ Last(p) \in Names
  <2>1. p # << >> /\ Len(p) \in Nat
    BY <1>3, LenProperties DEF Paths, RootPath
  <2>2. Len(p) # 0
    BY <2>1, EmptySeq DEF Paths
  <2>3. Len(p) \in 1 .. Len(p) /\ Len(p) - 1 \in Int
    BY <2>1, <2>2
  <2>4. p[Len(p)] \in Names
    BY <2>3, ElementOfSeq DEF Paths
  <2>5. \A i \in 1 .. Len(p) - 1 : p[i] \in Names
    BY <2>1, <2>2, ElementOfSeq DEF Paths
  <2>6. SubSeq(p, 1, Len(p) - 1) \in Seq(Names)
    BY <2>1, <2>2, <2>5, SubSeqProperties DEF Paths
  <2> QED BY <2>4, <2>6 DEF Front, Last, Paths
<1>4. Parent(p) \in Paths
  BY <1>1, <1>3 DEF Parent
<1> QED BY <1>1, <1>2, <1>3, <1>4

(* The parts of a path that resolvePath has walked, and the next one.       *)
LEMMA WalkedPathFacts ==
  ASSUME NEW p \in Paths, NEW d \in Nat, d < Len(p)
  PROVE  SubSeq(p, 1, d) \in Paths /\ SubSeq(p, 1, d + 1) \in Paths /\ p[d + 1] \in Names
<1>1. Len(p) \in Nat
  BY LenProperties DEF Paths
<1>2. \A i \in 1 .. d + 1 : i \in 1 .. Len(p)
  BY <1>1
<1>3. \A i \in 1 .. d + 1 : p[i] \in Names
  BY <1>2, ElementOfSeq DEF Paths
<1>4. SubSeq(p, 1, d) \in Seq(Names) /\ SubSeq(p, 1, d + 1) \in Seq(Names)
  BY <1>1, <1>3, SubSeqProperties DEF Paths
<1> QED BY <1>3, <1>4 DEF Paths

-----------------------------------------------------------------------------
(* The metadata cache holds answers of the API, under paths.                *)

(* A stat is stored.                                                        *)
LEMMA SetStatIsMeta ==
  ASSUME NEW m, IsMeta(m), NEW p \in Paths, NEW s \in Snapshots, NEW ov \in BOOLEAN
  PROVE  IsMeta(SetStat(m, p, s, ov))
<1> DEFINE e == [link |-> s, overtaken |-> ov]
           m2 == SetStat(m, p, s, ov)
<1>1. m2.stats = Put(m.stats, p, e) /\ m2.lists = m.lists /\ DOMAIN m2 = {"stats", "lists"}
  BY DEF SetStat, IsMeta
<1>2. e \in [link : Snapshots, overtaken : BOOLEAN]
  OBVIOUS
<1> HIDE DEF e, m2
<1>3. /\ DOMAIN m2.stats = DOMAIN m.stats \cup {p} /\ m2.stats[p] = e
      /\ \A x \in DOMAIN m.stats : x # p => m2.stats[x] = m.stats[x]
  <2>1. PICK f : f = m.stats
    OBVIOUS
  <2>2. /\ DOMAIN Put(f, p, e) = DOMAIN f \cup {p} /\ Put(f, p, e)[p] = e
        /\ \A x \in DOMAIN f : x # p => Put(f, p, e)[x] = f[x]
    BY DEF Put
  <2> QED BY <1>1, <2>1, <2>2
<1>4. \A x \in DOMAIN m2.stats : m2.stats[x] \in [link : Snapshots, overtaken : BOOLEAN]
  BY <1>2, <1>3, Zenon DEF IsMeta
<1>5. IsMeta(m2)
  BY <1>1, <1>3, <1>4 DEF IsMeta
<1> QED BY <1>5 DEF m2

(* A listing is stored.                                                     *)
LEMMA SetListIsMeta ==
  ASSUME NEW m, IsMeta(m), NEW p \in Paths, NEW ls \in SUBSET Snapshots, NEW ov \in BOOLEAN
  PROVE  IsMeta(SetList(m, p, ls, ov))
<1> DEFINE e == [links |-> ls, overtaken |-> ov]
           m2 == SetList(m, p, ls, ov)
<1>1. m2.lists = Put(m.lists, p, e) /\ m2.stats = m.stats /\ DOMAIN m2 = {"stats", "lists"}
  BY DEF SetList, IsMeta
<1>2. e \in [links : SUBSET Snapshots, overtaken : BOOLEAN]
  OBVIOUS
<1> HIDE DEF e, m2
<1>3. /\ DOMAIN m2.lists = DOMAIN m.lists \cup {p} /\ m2.lists[p] = e
      /\ \A x \in DOMAIN m.lists : x # p => m2.lists[x] = m.lists[x]
  <2>1. PICK f : f = m.lists
    OBVIOUS
  <2>2. /\ DOMAIN Put(f, p, e) = DOMAIN f \cup {p} /\ Put(f, p, e)[p] = e
        /\ \A x \in DOMAIN f : x # p => Put(f, p, e)[x] = f[x]
    BY DEF Put
  <2> QED BY <1>1, <2>1, <2>2
<1>4. \A x \in DOMAIN m2.lists : m2.lists[x] \in [links : SUBSET Snapshots, overtaken : BOOLEAN]
  BY <1>2, <1>3, Zenon DEF IsMeta
<1>5. IsMeta(m2)
  BY <1>1, <1>3, <1>4 DEF IsMeta
<1> QED BY <1>5 DEF m2

(* Entries are taken out, for a path or for a link.                         *)
LEMMA InvalidateIsMeta ==
  ASSUME NEW m, IsMeta(m), NEW p, NEW l
  PROVE  IsMeta(MetaInvalidatePath(m, p)) /\ \A m2 \in MetaInvalidateLinkID(m, l) : IsMeta(m2)
<1>1. ASSUME NEW ks, NEW ls PROVE IsMeta([stats |-> Drop(m.stats, ks), lists |-> Drop(m.lists, ls)])
  <2> DEFINE m2 == [stats |-> Drop(m.stats, ks), lists |-> Drop(m.lists, ls)]
  <2>1. DOMAIN m2 = {"stats", "lists"} /\ m2.stats = Drop(m.stats, ks) /\ m2.lists = Drop(m.lists, ls)
    OBVIOUS
  <2> HIDE DEF m2
  <2>2. /\ DOMAIN m2.stats \subseteq DOMAIN m.stats
        /\ \A x \in DOMAIN m2.stats : m2.stats[x] = m.stats[x]
        /\ DOMAIN m2.lists \subseteq DOMAIN m.lists
        /\ \A x \in DOMAIN m2.lists : m2.lists[x] = m.lists[x]
    BY <2>1, DropFacts
  <2>3. IsMeta(m2)
    BY <2>1, <2>2 DEF IsMeta
  <2> QED BY <2>3 DEF m2
<1>2. ASSUME NEW q PROVE IsMeta(MetaInvalidatePath(m, q))
  <2>1. \/ MetaInvalidatePath(m, q) = m
        \/ MetaInvalidatePath(m, q) = [stats |-> Drop(m.stats, {q}), lists |-> Drop(m.lists, {q, Parent(q)})]
    BY DEF MetaInvalidatePath
  <2> QED BY <1>1, <2>1, Zenon
<1>3. \A m2 \in MetaInvalidateLinkID(m, l) : m2 = m \/ \E q : m2 = MetaInvalidatePath(m, q)
  BY DEF MetaInvalidateLinkID
<1> QED BY <1>2, <1>3, Zenon

-----------------------------------------------------------------------------
(* Handlers keep the types.                                                 *)

(* A handler that has nothing to do.                                        *)
LEMMA IdleIsCall == IsCall(IdleCall)
<1>1. RootPath \in Paths
  BY DEF RootPath, Paths
<1> QED BY <1>1 DEF IsCall, IdleCall, CallPcs, Ops, NoSnapshot

(* What the caches give an offline request is typed like any other answer.  *)
LEMMA OfflineIsCall ==
  ASSUME IsMeta(meta), NEW c, IsCall(c)
  PROVE  IsCall(OfflineFallback(c))
<1> DEFINE c1 == [c EXCEPT !.pc = "listed", !.resp = meta.lists[c.dir].links,
                           !.overtaken = meta.lists[c.dir].overtaken]
           c2 == [c EXCEPT !.pc = "statted", !.found = meta.stats[c.target].link]
<1>1. ASSUME c.dir \in DOMAIN meta.lists, c.after = "fetch" PROVE IsCall(c1)
  <2>1. meta.lists[c.dir].links \in SUBSET Snapshots /\ meta.lists[c.dir].overtaken \in BOOLEAN
    BY <1>1 DEF IsMeta
  <2> QED BY <1>1, <2>1 DEF IsCall, CallPcs
<1>2. ASSUME c.target \in DOMAIN meta.stats PROVE IsCall(c2)
  <2>1. meta.stats[c.target].link \in Snapshots
    BY <1>2 DEF IsMeta
  <2> QED BY <2>1 DEF IsCall, CallPcs
<1>3. \/ OfflineFallback(c) = c1 /\ c.dir \in DOMAIN meta.lists /\ c.after = "fetch"
      \/ OfflineFallback(c) = c2 /\ c.target \in DOMAIN meta.stats
      \/ OfflineFallback(c) = IdleCall
  BY DEF OfflineFallback
<1> HIDE DEF c1, c2
<1> QED BY <1>1, <1>2, <1>3, IdleIsCall

(* One handler moves on.                                                    *)
LEMMA GotoKeepsCalls ==
  ASSUME CallsType, NEW h \in Handlers, NEW c, IsCall(c), Goto(h, c)
  PROVE  CallsType'
<1>1. call' = [call EXCEPT ![h] = c] /\ DOMAIN call = Handlers
  BY DEF Goto, CallsType
<1>2. DOMAIN call' = Handlers /\ call'[h] = c /\ \A k \in Handlers : k # h => call'[k] = call[k]
  BY <1>1
<1>3. ASSUME NEW k \in Handlers PROVE IsCall(call'[k])
  BY <1>2, Zenon DEF CallsType
<1> QED BY <1>2, <1>3 DEF CallsType

(* The poller marks the answers it overtakes.                               *)
LEMMA OvertakeKeepsCalls ==
  ASSUME CallsType, Overtake
  PROVE  CallsType'
<1>1. DOMAIN call' = Handlers
  BY DEF Overtake
<1>2. ASSUME NEW k \in Handlers PROVE IsCall(call'[k])
  <2>1. call'[k] = [call[k] EXCEPT !.overtaken = TRUE] \/ call'[k] = call[k]
    BY DEF Overtake
  <2>2. IsCall(call[k])
    BY DEF CallsType
  <2>3. PICK c : c = call[k]
    OBVIOUS
  <2>4. IsCall(c) => IsCall([c EXCEPT !.overtaken = TRUE])
    BY DEF IsCall
  <2> QED BY <2>1, <2>2, <2>3, <2>4, Zenon
<1> QED BY <1>1, <1>2 DEF CallsType

(* The log of the volume only grows.                                        *)
RemoteGoesOn == RemoteType' /\ Len(log') >= Len(log)

(* What does not change keeps its type.                                     *)
LEMMA TypesKept ==
  ASSUME TypeOK
  PROVE  /\ UNCHANGED <<remoteVars, handled>> => RemoteGoesOn
         /\ UNCHANGED mapVars => MapType'
         /\ UNCHANGED poll => IsPoll(poll)'
         /\ UNCHANGED <<poll, handled>> /\ RemoteGoesOn => PollAhead'
         /\ UNCHANGED meta => IsMeta(meta)'
         /\ UNCHANGED call => CallsType'
<1>1. UNCHANGED <<remoteVars, handled>> => RemoteGoesOn
  <2>1. ASSUME UNCHANGED <<remoteVars, handled>> PROVE RemoteType' /\ log' = log
    BY <2>1 DEF TypeOK, RemoteType, remoteVars
  <2>2. Len(log) \in Nat
    BY LenProperties DEF TypeOK, RemoteType
  <2> QED BY <2>1, <2>2 DEF RemoteGoesOn
<1>2. UNCHANGED mapVars => MapType'
  BY DEF TypeOK, MapType, mapVars, Range
<1>3. UNCHANGED poll => IsPoll(poll)'
  BY DEF TypeOK, IsPoll
<1>4. UNCHANGED meta => IsMeta(meta)'
  BY DEF TypeOK, IsMeta
<1>5. UNCHANGED call => CallsType'
  BY DEF TypeOK, CallsType
<1>6. ASSUME UNCHANGED <<poll, handled>>, RemoteGoesOn PROVE PollAhead'
  <2>1. Len(log) \in Nat /\ Len(log') \in Nat /\ handled \in Nat
    BY <1>6, LenProperties DEF TypeOK, RemoteType, RemoteGoesOn
  <2> QED BY <1>6, <2>1 DEF TypeOK, PollAhead, RemoteGoesOn
<1> QED BY <1>1, <1>2, <1>3, <1>4, <1>5, <1>6

(* A handler's step, from the parts it changes.                             *)
LEMMA HandlerMoves ==
  ASSUME TypeOK, NEW h \in Handlers, NEW c, IsCall(c), Goto(h, c), UNCHANGED pollVars,
         RemoteGoesOn, IsMeta(meta'), MapType'
  PROVE  TypeOK'
<1>1. CallsType'
  BY GotoKeepsCalls DEF TypeOK
<1>2. IsPoll(poll)' /\ PollAhead'
  BY TypesKept DEF pollVars
<1>3. IsMeta(meta)'
  OBVIOUS
<1> QED BY <1>1, <1>2, <1>3 DEF TypeOK, RemoteGoesOn

(* A step that only moves the handler on.                                   *)
LEMMA HandlerOnlyMoves ==
  ASSUME TypeOK, NEW h \in Handlers, NEW c, IsCall(c), Goto(h, c),
         UNCHANGED <<remoteVars, meta, mapVars, pollVars>>
  PROVE  TypeOK'
<1>1. RemoteGoesOn /\ IsMeta(meta') /\ MapType'
  BY TypesKept DEF pollVars
<1> QED BY <1>1, HandlerMoves

(* A request is dispatched.                                                 *)
LEMMA BeginKeepsType ==
  ASSUME TypeOK, NEW h \in Handlers, NEW r \in Requests, Begin(h, r[1], r[2])
  PROVE  TypeOK'
<1>1. PICK op, p : op = r[1] /\ p = r[2]
  OBVIOUS
<1>2. op \in Ops /\ p \in Paths /\ Parent(p) \in Paths
  BY <1>1, RequestsAssumption, PathFacts
<1>3. ASSUME NEW o \in Ops, o = "Mkdir" => p # RootPath PROVE IsCall(NewCall(o, p))
  BY <1>2, <1>3, IdleIsCall DEF NewCall, IdleCall, IsCall
<1>4. ASSUME NEW c, IsCall(c), NEW t \in Paths, c.after = "getList"
      PROVE  /\ IsCall([c EXCEPT !.pc = "getList", !.dir = t])
             /\ IsCall([c EXCEPT !.pc = "getStat", !.target = t])
  <2>1. IsCall([c EXCEPT !.pc = "getList", !.dir = t])
    BY <1>4 DEF IsCall, CallPcs
  <2>2. IsCall([c EXCEPT !.pc = "getStat", !.target = t])
    BY <1>4 DEF IsCall, CallPcs
  <2> QED BY <2>1, <2>2
<1>5. \A o : NewCall(o, p).after = "getList"
  BY DEF NewCall, IdleCall
<1>6. \E c : IsCall(c) /\ Goto(h, c)
  <2>1. CASE op = "ListDir" /\ ListDir(h, p)
    <3>1. IsCall(NewCall("ListDir", p))
      BY <1>3 DEF Ops
    <3> QED BY <1>2, <1>4, <1>5, <2>1, <3>1, Zenon DEF ListDir
  <2>2. CASE op = "Stat" /\ Stat(h, p)
    <3>1. IsCall(NewCall("Stat", p))
      BY <1>3 DEF Ops
    <3> QED BY <1>2, <1>4, <1>5, <2>2, <3>1, Zenon DEF Stat
  <2>3. CASE op = "Mkdir" /\ p # RootPath /\ Mkdir(h, p)
    <3>1. IsCall(NewCall("Mkdir", p))
      BY <1>3, <2>3 DEF Ops
    <3> QED BY <1>2, <1>4, <1>5, <2>3, <3>1, Zenon DEF Mkdir
  <2>4. CASE op \in {"Trash", "Delete"} /\ Delete(h, op, p)
    <3>1. IsCall(NewCall(op, p))
      BY <1>2, <1>3, <2>4
    <3> QED BY <1>2, <1>4, <1>5, <2>4, <3>1, Zenon DEF Delete
  <2> QED BY <1>1, <2>1, <2>2, <2>3, <2>4 DEF Begin
<1> QED BY <1>6, HandlerOnlyMoves DEF Begin

(* The fields of a request, one by one.                                     *)
LEMMA CallFields ==
  ASSUME NEW c, IsCall(c)
  PROVE  /\ c.target \in Paths /\ c.dir \in Paths /\ c.arg \in Paths /\ c.depth \in Nat
         /\ c.link \in Links \cup {NoLink} /\ c.resp \in SUBSET Snapshots /\ c.overtaken \in BOOLEAN
         /\ c.after \in {"getList", "fetch", "remove"}
BY DEF IsCall

(* The folder's children, as the API answers them.                          *)
LEMMA AnswersAreSnapshots ==
  ASSUME RemoteType
  PROVE  /\ \A l \in Links : Snapshot(l) \in Snapshots
         /\ \A d : \A r \in Listings(d) : r \in SUBSET Snapshots
<1>1. ASSUME NEW l \in Links PROVE Snapshot(l) \in Snapshots
  BY DEF RemoteType, Snapshot, Snapshots
<1>2. \A d : Children(d) \in SUBSET Snapshots
  <2>1. \A d : ActiveChildren(d) \subseteq Links
    BY DEF ActiveChildren
  <2> QED BY <1>1, <2>1, Zenon DEF Children
<1>3. \A d : \A r \in Listings(d) : r = Children(d)
  BY DEF Listings
<1> QED BY <1>1, <1>2, <1>3

(* Stat looks at its cache.                                                 *)
LEMMA GetStatKeepsType ==
  ASSUME TypeOK, NEW h \in Handlers, GetStat(h)
  PROVE  TypeOK'
<1>1. PICK c : c = call[h]
  OBVIOUS
<1>2. IsCall(c) /\ c.pc = "getStat" /\ IsMeta(meta)
  BY <1>1 DEF GetStat, At, TypeOK, CallsType
<1>3. Parent(c.target) \in Paths
  BY <1>2, CallFields, PathFacts
<1>4. ASSUME c.target \in DOMAIN meta.stats
      PROVE  IsCall([c EXCEPT !.pc = "statted", !.found = meta.stats[c.target].link])
  <2>1. meta.stats[c.target].link \in Snapshots
    BY <1>2, <1>4 DEF IsMeta
  <2> QED BY <1>2, <2>1 DEF IsCall, CallPcs
<1>5. IsCall([c EXCEPT !.pc = "rootLink"])
  BY <1>2 DEF IsCall, CallPcs
<1>6. IsCall([c EXCEPT !.pc = "resolve", !.dir = Parent(c.target)])
  BY <1>2, <1>3 DEF IsCall, CallPcs
<1>7. \E d : IsCall(d) /\ Goto(h, d)
  BY <1>1, <1>4, <1>5, <1>6 DEF GetStat
<1> QED BY <1>7, HandlerOnlyMoves DEF GetStat

(* resolvePath's fast path.                                                 *)
LEMMA ResolveFastKeepsType ==
  ASSUME TypeOK, NEW h \in Handlers, ResolveFast(h)
  PROVE  TypeOK'
<1>1. PICK c : c = call[h]
  OBVIOUS
<1>2. IsCall(c) /\ c.pc = "resolve"
  BY <1>1 DEF ResolveFast, At, TypeOK, CallsType
<1>3. pathLinks[c.dir] \in Links
  <2>1. nodeKRs \subseteq Links /\ Range(pathLinks) \subseteq Links
    BY DEF TypeOK, MapType
  <2>2. c.dir \in DOMAIN pathLinks
    BY <1>1, <2>1, LinksAssumption DEF ResolveFast, Lookup
  <2> QED BY <2>1, <2>2 DEF Range
<1>4. PICK l \in Links : l = pathLinks[c.dir]
  BY <1>3
<1>5. IsCall([c EXCEPT !.pc = c.after, !.link = l])
  BY <1>2 DEF IsCall, CallPcs
<1> QED BY <1>1, <1>4, <1>5, HandlerOnlyMoves DEF ResolveFast

(* A folder is listed by the API, on the way or at the end of a path.       *)
LEMMA ApiListChildrenKeepsType ==
  ASSUME TypeOK, NEW h \in Handlers, Walk(h) \/ Fetch(h)
  PROVE  TypeOK'
<1>1. PICK c : c = call[h]
  OBVIOUS
<1>2. IsCall(c) /\ IsMeta(meta) /\ RemoteType
  BY <1>1 DEF TypeOK, CallsType
<1>3. ASSUME NEW r \in Listings(c.link), c.pc = "walk"
      PROVE  IsCall([c EXCEPT !.pc = "walked", !.resp = r, !.overtaken = FALSE])
  <2>1. r \in SUBSET Snapshots
    BY <1>2, AnswersAreSnapshots
  <2> QED BY <1>2, <1>3, <2>1 DEF IsCall, CallPcs
<1>4. ASSUME NEW r \in Listings(c.link), c.pc = "fetch"
      PROVE  IsCall([c EXCEPT !.pc = "fetched", !.resp = r, !.overtaken = FALSE])
  <2>1. r \in SUBSET Snapshots
    BY <1>2, AnswersAreSnapshots
  <2> QED BY <1>2, <1>4, <2>1 DEF IsCall, CallPcs
<1>5. IsCall(OfflineFallback(c))
  BY <1>2, OfflineIsCall
<1>6. CASE Walk(h)
  <2>1. \E d : IsCall(d) /\ Goto(h, d)
    BY <1>1, <1>3, <1>5, <1>6, IdleIsCall DEF Walk, ApiListChildren, At
  <2> QED BY <1>6, <2>1, HandlerOnlyMoves DEF Walk, ApiListChildren
<1>7. CASE Fetch(h)
  <2>1. \E d : IsCall(d) /\ Goto(h, d)
    BY <1>1, <1>4, <1>5, <1>7, IdleIsCall DEF Fetch, ApiListChildren, At
  <2> QED BY <1>7, <2>1, HandlerOnlyMoves DEF Fetch, ApiListChildren
<1> QED BY <1>6, <1>7

(* ListChildren looks at its cache.                                         *)
LEMMA GetListKeepsType ==
  ASSUME TypeOK, NEW h \in Handlers, GetList(h)
  PROVE  TypeOK'
<1>1. PICK c : c = call[h]
  OBVIOUS
<1>2. IsCall(c) /\ c.pc = "getList" /\ IsMeta(meta)
  BY <1>1 DEF GetList, At, TypeOK, CallsType
<1>3. ASSUME c.dir \in DOMAIN meta.lists
      PROVE  IsCall([c EXCEPT !.pc = "listed", !.resp = meta.lists[c.dir].links,
                              !.overtaken = meta.lists[c.dir].overtaken])
  <2>1. meta.lists[c.dir].links \in SUBSET Snapshots /\ meta.lists[c.dir].overtaken \in BOOLEAN
    BY <1>2, <1>3 DEF IsMeta
  <2> QED BY <1>2, <2>1 DEF IsCall, CallPcs
<1>4. IsCall([c EXCEPT !.pc = "resolve", !.after = "fetch"])
  BY <1>2 DEF IsCall, CallPcs
<1>5. \E d : IsCall(d) /\ Goto(h, d)
  BY <1>1, <1>3, <1>4 DEF GetList
<1> QED BY <1>5, HandlerOnlyMoves DEF GetList

(* What the caller of Stat does next.                                       *)
LEMMA StattedKeepsType ==
  ASSUME TypeOK, NEW h \in Handlers, Statted(h)
  PROVE  TypeOK'
<1>1. PICK c : c = call[h]
  OBVIOUS
<1>2. IsCall(c) /\ c.pc = "statted"
  BY <1>1 DEF Statted, At, TypeOK, CallsType
<1>3. Parent(c.arg) \in Paths
  BY <1>2, CallFields, PathFacts
<1>4. ASSUME c.op = "Mkdir", c.found.id \in Dirs PROVE IsCall([c EXCEPT !.pc = "create"])
  BY <1>2, <1>4 DEF IsCall, CallPcs
<1>5. IsCall([c EXCEPT !.pc = "resolve", !.dir = Parent(c.arg), !.after = "remove"])
  BY <1>2, <1>3 DEF IsCall, CallPcs
<1>6. \E d : IsCall(d) /\ Goto(h, d)
  BY <1>1, <1>4, <1>5, IdleIsCall DEF Statted
<1> QED BY <1>6, HandlerOnlyMoves DEF Statted

(* A link's path and a path's link are entered, with the link's keyring.    *)
LEMMA MapsGrow ==
  ASSUME MapType, NEW p \in Paths, NEW l \in Links,
         pathLinks' = pathLinks \/ pathLinks' = Put(pathLinks, p, l),
         linkPaths' = linkPaths \/ linkPaths' = Put(linkPaths, l, p),
         nodeKRs' = nodeKRs \/ nodeKRs' = nodeKRs \cup {l}
  PROVE  MapType'
<1>1. DOMAIN pathLinks' \subseteq Paths /\ Range(pathLinks') \subseteq Links
  BY DEF MapType, Put, Range
<1>2. DOMAIN linkPaths' \subseteq Links /\ Range(linkPaths') \subseteq Paths
  BY DEF MapType, Put, Range
<1>3. Range(pathLinks)' = Range(pathLinks') /\ Range(linkPaths)' = Range(linkPaths')
  BY DEF Range
<1> QED BY <1>1, <1>2, <1>3 DEF MapType

(* Stat of the root asks for the share's root link.                         *)
LEMMA StatRootKeepsType ==
  ASSUME TypeOK, NEW h \in Handlers, StatRoot(h)
  PROVE  TypeOK'
<1>1. PICK c : c = call[h]
  OBVIOUS
<1>2. IsCall(c) /\ c.pc = "rootLink" /\ IsMeta(meta) /\ RemoteType /\ MapType
  BY <1>1 DEF StatRoot, At, TypeOK, CallsType
<1>3. RemoteGoesOn
  BY TypesKept DEF StatRoot, pollVars
<1>4. PICK s \in Snapshots : s = Snapshot(Root)
  BY <1>2, AnswersAreSnapshots, LinksAssumption DEF Links
<1>5. RootPath \in Paths
  BY DEF RootPath, Paths
<1>6. MapType'
  BY <1>2, <1>5, MapsGrow, LinksAssumption DEF StatRoot, Links
<1>7. IsCall([c EXCEPT !.pc = "statted", !.found = s])
  BY <1>2 DEF IsCall, CallPcs
<1>8. IsMeta(SetStat(meta, RootPath, s, FALSE))
  BY <1>2, <1>5, SetStatIsMeta
<1>9. IsCall(OfflineFallback(c))
  BY <1>2, OfflineIsCall
<1>10. IsMeta(meta') /\ \E d : IsCall(d) /\ Goto(h, d)
  BY <1>1, <1>2, <1>4, <1>7, <1>8, <1>9 DEF StatRoot
<1> QED BY <1>3, <1>6, <1>10, HandlerMoves DEF StatRoot

(* resolvePath starts at the root.                                          *)
LEMMA ResolveStartKeepsType ==
  ASSUME TypeOK, NEW h \in Handlers, ResolveStart(h)
  PROVE  TypeOK'
<1>1. PICK c : c = call[h]
  OBVIOUS
<1>2. IsCall(c) /\ c.pc = "resolve" /\ IsMeta(meta) /\ MapType
  BY <1>1 DEF ResolveStart, At, TypeOK, CallsType
<1>3. RemoteGoesOn /\ IsMeta(meta')
  BY TypesKept DEF ResolveStart, pollVars
<1>4. RootPath \in Paths /\ Root \in Links
  BY LinksAssumption DEF RootPath, Paths, Links
<1>5. MapType'
  BY <1>2, <1>4, MapsGrow DEF ResolveStart
<1>6. IsCall([c EXCEPT !.link = Root, !.depth = 0, !.pc = c.after])
  BY <1>2, <1>4 DEF IsCall, CallPcs
<1>7. ASSUME c.dir # RootPath PROVE IsCall([c EXCEPT !.link = Root, !.depth = 0, !.pc = "walk"])
  <2>1. Len(c.dir) > 0
    BY <1>2, <1>7, CallFields, EmptySeq, LenProperties DEF Paths, RootPath
  <2> QED BY <1>2, <1>4, <2>1 DEF IsCall, CallPcs
<1>8. IsCall(OfflineFallback(c))
  BY <1>2, OfflineIsCall
<1>9. \E d : IsCall(d) /\ Goto(h, d)
  <2>1. \/ Goto(h, [c EXCEPT !.link = Root, !.depth = 0,
                             !.pc = IF c.dir = RootPath THEN c.after ELSE "walk"])
        \/ Goto(h, OfflineFallback(c))
    BY <1>1 DEF ResolveStart
  <2>2. CASE c.dir = RootPath
    BY <1>6, <1>8, <2>1, <2>2
  <2>3. CASE c.dir # RootPath
    BY <1>7, <1>8, <2>1, <2>3
  <2> QED BY <2>2, <2>3
<1> QED BY <1>3, <1>5, <1>9, HandlerMoves DEF ResolveStart

(* One round of resolvePath's loop.                                         *)
LEMMA WalkStepKeepsType ==
  ASSUME TypeOK, NEW h \in Handlers, WalkStep(h)
  PROVE  TypeOK'
<1>1. PICK c : c = call[h]
  OBVIOUS
<1>2. IsCall(c) /\ c.pc = "walked" /\ IsMeta(meta) /\ MapType
  BY <1>1 DEF WalkStep, At, TypeOK, CallsType
<1>3. RemoteGoesOn
  BY TypesKept DEF WalkStep, pollVars
<1>4. c.depth < Len(c.dir)
  BY <1>2 DEF IsCall
<1>5. PICK here, next : here = SubSeq(c.dir, 1, c.depth) /\ next = SubSeq(c.dir, 1, c.depth + 1)
  OBVIOUS
<1>6. here \in Paths /\ next \in Paths
  BY <1>2, <1>4, <1>5, CallFields, WalkedPathFacts
<1>7. IsMeta(meta')
  <2>1. meta' = SetList(meta, here, c.resp, c.overtaken)
    BY <1>1, <1>5 DEF WalkStep
  <2> QED BY <1>2, <1>6, <2>1, CallFields, SetListIsMeta
<1>8. CASE UNCHANGED mapVars /\ Goto(h, IdleCall)
  BY <1>3, <1>7, <1>8, IdleIsCall, TypesKept, HandlerMoves DEF WalkStep
<1>9. ASSUME NEW s \in c.resp, nodeKRs' = nodeKRs \cup {s.id}, linkPaths' = Put(linkPaths, s.id, next),
             pathLinks' = Put(pathLinks, next, s.id),
             Goto(h, [c EXCEPT !.link = s.id, !.depth = c.depth + 1, !.resp = {}, !.overtaken = FALSE,
                               !.pc = IF next = c.dir THEN c.after ELSE "walk"])
      PROVE  TypeOK'
  <2>1. PICK l \in Links : l = s.id
    BY <1>2, CallFields DEF Snapshots
  <2>2. MapType'
    BY <1>2, <1>6, <1>9, <2>1, MapsGrow
  <2>3. next # c.dir => c.depth + 1 < Len(c.dir)
    <3>1. c.depth + 1 = Len(c.dir) => next = c.dir
      BY <1>2, <1>5, CallFields, SubSeqFull DEF Paths
    <3>2. c.depth \in Nat /\ Len(c.dir) \in Nat
      BY <1>2, CallFields, LenProperties DEF Paths
    <3> QED BY <1>4, <3>1, <3>2
  <2>4. PICK n \in Nat : n = c.depth + 1
    BY <1>2, CallFields
  <2>5. next # c.dir => n < Len(c.dir)
    BY <2>3, <2>4
  <2>6. IsCall([c EXCEPT !.link = l, !.depth = n, !.resp = {}, !.overtaken = FALSE, !.pc = c.after])
    BY <1>2 DEF IsCall, CallPcs
  <2>7. ASSUME next # c.dir
        PROVE  IsCall([c EXCEPT !.link = l, !.depth = n, !.resp = {}, !.overtaken = FALSE, !.pc = "walk"])
    BY <1>2, <2>5, <2>7 DEF IsCall, CallPcs
  <2>8. \E d : IsCall(d) /\ Goto(h, d)
    <3>1. CASE next = c.dir
      BY <1>9, <2>1, <2>4, <2>6, <3>1
    <3>2. CASE next # c.dir
      BY <1>9, <2>1, <2>4, <2>7, <3>2
    <3> QED BY <3>1, <3>2
  <2> QED BY <1>3, <1>7, <2>2, <2>8, HandlerMoves DEF WalkStep
<1>10. \/ UNCHANGED mapVars /\ Goto(h, IdleCall)
       \/ \E s \in c.resp :
            /\ nodeKRs' = nodeKRs \cup {s.id} /\ linkPaths' = Put(linkPaths, s.id, next)
            /\ pathLinks' = Put(pathLinks, next, s.id)
            /\ Goto(h, [c EXCEPT !.link = s.id, !.depth = c.depth + 1, !.resp = {}, !.overtaken = FALSE,
                                 !.pc = IF next = c.dir THEN c.after ELSE "walk"])
  BY <1>1, <1>5 DEF WalkStep
<1> QED BY <1>8, <1>9, <1>10

(* A fetched listing is stored.                                             *)
LEMMA FetchStoreKeepsType ==
  ASSUME TypeOK, NEW h \in Handlers, FetchStore(h)
  PROVE  TypeOK'
<1>1. PICK c : c = call[h]
  OBVIOUS
<1>2. IsCall(c) /\ c.pc = "fetched" /\ IsMeta(meta)
  BY <1>1 DEF FetchStore, At, TypeOK, CallsType
<1>3. RemoteGoesOn /\ MapType'
  BY TypesKept DEF FetchStore, pollVars
<1>4. IsMeta(meta')
  <2>1. meta' = SetList(meta, c.dir, c.resp, c.overtaken)
    BY <1>1 DEF FetchStore
  <2> QED BY <1>2, <2>1, CallFields, SetListIsMeta
<1>5. IsCall([c EXCEPT !.pc = "listed"])
  BY <1>2 DEF IsCall, CallPcs
<1> QED BY <1>1, <1>3, <1>4, <1>5, HandlerMoves DEF FetchStore

(* The name is looked for in a listing, and found links are stored.         *)
LEMMA ListedKeepsType ==
  ASSUME TypeOK, NEW h \in Handlers, Listed(h)
  PROVE  TypeOK'
<1>1. PICK c : c = call[h]
  OBVIOUS
<1>2. IsCall(c) /\ c.pc = "listed" /\ IsMeta(meta)
  BY <1>1 DEF Listed, At, TypeOK, CallsType
<1>3. RemoteGoesOn /\ MapType'
  BY TypesKept DEF Listed, pollVars
<1>4. CASE UNCHANGED meta /\ Goto(h, IdleCall)
  BY <1>2, <1>3, <1>4, IdleIsCall, HandlerMoves DEF Listed
<1>5. ASSUME NEW s \in c.resp, meta' = SetStat(meta, c.target, s, c.overtaken),
             Goto(h, [c EXCEPT !.pc = "statted", !.found = s, !.resp = {},
                               !.after = "getList", !.overtaken = FALSE])
      PROVE  TypeOK'
  <2>1. s \in Snapshots
    BY <1>2, CallFields
  <2>2. IsMeta(meta')
    BY <1>2, <1>5, <2>1, CallFields, SetStatIsMeta
  <2>3. IsCall([c EXCEPT !.pc = "statted", !.found = s, !.resp = {},
                         !.after = "getList", !.overtaken = FALSE])
    BY <1>2, <2>1 DEF IsCall, CallPcs
  <2> QED BY <1>3, <1>5, <2>2, <2>3, HandlerMoves DEF Listed
<1>6. \/ UNCHANGED meta /\ Goto(h, IdleCall)
      \/ \E s \in c.resp :
           /\ meta' = SetStat(meta, c.target, s, c.overtaken)
           /\ Goto(h, [c EXCEPT !.pc = "statted", !.found = s, !.resp = {},
                                !.after = "getList", !.overtaken = FALSE])
  BY <1>1 DEF Listed, StatNotFound
<1> QED BY <1>4, <1>5, <1>6

(* MakeDir ends.                                                            *)
LEMMA MakeDirDoneKeepsType ==
  ASSUME TypeOK, NEW h \in Handlers, MakeDirDone(h)
  PROVE  TypeOK'
<1>1. RemoteGoesOn /\ MapType'
  BY TypesKept DEF MakeDirDone, pollVars
<1>2. PICK p : p = call[h].target
  OBVIOUS
<1>3. IsMeta(meta')
  BY <1>2, InvalidateIsMeta DEF MakeDirDone, TypeOK
<1> QED BY <1>1, <1>3, IdleIsCall, HandlerMoves DEF MakeDirDone

-----------------------------------------------------------------------------
(* The remote volume.                                                       *)

(* One link changes and the change is logged.                               *)
LEMMA RemoteChange ==
  ASSUME RemoteType, UNCHANGED handled, NEW l \in Links,
         NEW n \in [parent : Dirs \cup {NoLink}, name : Names,
                    state : {"absent", "active", "trashed", "gone"}, rev : Nat],
         node' = [node EXCEPT ![l] = n],
         NEW type \in {"create", "update", "update_metadata", "delete"}, LogEvent(type, l)
  PROVE  RemoteGoesOn
<1>1. node' \in [Links -> [parent : Dirs \cup {NoLink}, name : Names,
                           state : {"absent", "active", "trashed", "gone"}, rev : Nat]]
  BY DEF RemoteType
<1>2. PICK e : e = [type |-> type, link |-> l, parent |-> node'[l].parent, name |-> node'[l].name]
  OBVIOUS
<1>3. e \in Events
  BY <1>1, <1>2 DEF Events
<1>4. log' = Append(log, e) /\ Len(log) < MaxEvents
  BY <1>2 DEF LogEvent
<1>5. log' \in Seq(Events) /\ Len(log') = Len(log) + 1 /\ Len(log) \in Nat
  BY <1>3, <1>4, AppendProperties, LenProperties DEF RemoteType
<1>6. Len(log') <= MaxEvents /\ handled' \in 0 .. Len(log')
  BY <1>4, <1>5, BoundsAssumption DEF RemoteType
<1>7. RemoteType' /\ Len(log') >= Len(log)
  BY <1>1, <1>5, <1>6 DEF RemoteType
<1> QED BY <1>7 DEF RemoteGoesOn

(* Every kind of change is one of those.                                    *)
LEMMA RemoteOpsKeepType ==
  ASSUME RemoteType, UNCHANGED handled, NEW l \in Links, NEW d \in Dirs, NEW n \in Names,
         AddLink(l, d, n) \/ TrashLink(l) \/ DeleteLink(l) \/ RemoteUpdate(l) \/ RemoteMove(l, d, n)
  PROVE  RemoteGoesOn
<1> DEFINE Nodes == [parent : Dirs \cup {NoLink}, name : Names,
                     state : {"absent", "active", "trashed", "gone"}, rev : Nat]
<1>1. node[l] \in Nodes
  BY DEF RemoteType
<1>2. CASE AddLink(l, d, n)
  <2>1. PICK x \in Nodes : x = [parent |-> d, name |-> n, state |-> "active", rev |-> 0]
    OBVIOUS
  <2>2. node' = [node EXCEPT ![l] = x] /\ LogEvent("create", l)
    BY <1>2, <2>1 DEF AddLink
  <2> QED BY <2>2, RemoteChange
<1>3. CASE TrashLink(l)
  <2>1. PICK x \in Nodes : x = [node[l] EXCEPT !.state = "trashed"]
    BY <1>1
  <2>2. node' = [node EXCEPT ![l] = x] /\ LogEvent("update_metadata", l)
    BY <1>3, <2>1 DEF TrashLink
  <2> QED BY <2>2, RemoteChange
<1>4. CASE DeleteLink(l)
  <2>1. PICK x \in Nodes : x = [node[l] EXCEPT !.state = "gone"]
    BY <1>1
  <2>2. node' = [node EXCEPT ![l] = x] /\ LogEvent("delete", l)
    BY <1>4, <2>1 DEF DeleteLink
  <2> QED BY <2>2, RemoteChange
<1>5. CASE RemoteUpdate(l)
  <2>1. PICK r \in Nat : r = node[l].rev + 1
    BY <1>1
  <2>2. PICK x \in Nodes : x = [node[l] EXCEPT !.rev = r]
    BY <1>1
  <2>3. node' = [node EXCEPT ![l] = x] /\ LogEvent("update", l)
    BY <1>5, <2>1, <2>2 DEF RemoteUpdate
  <2> QED BY <2>3, RemoteChange
<1>6. CASE RemoteMove(l, d, n)
  <2>1. PICK x \in Nodes : x = [[node[l] EXCEPT !.parent = d] EXCEPT !.name = n]
    BY <1>1
  <2>2. node' = [node EXCEPT ![l] = x] /\ LogEvent("update_metadata", l)
    BY <1>6, <2>1 DEF RemoteMove, RemoteType
  <2> QED BY <2>2, RemoteChange
<1> QED BY <1>2, <1>3, <1>4, <1>5, <1>6

(* CreateFolder, by the server.                                             *)
LEMMA CreateFolderKeepsType ==
  ASSUME TypeOK, NEW h \in Handlers, CreateFolder(h)
  PROVE  TypeOK'
<1>1. PICK c : c = call[h]
  OBVIOUS
<1>2. IsCall(c) /\ c.pc = "create" /\ RemoteType
  BY <1>1 DEF CreateFolder, At, TypeOK, CallsType
<1>3. c.found.id \in Dirs /\ c.arg \in Paths /\ c.arg # RootPath
  BY <1>2 DEF IsCall
<1>4. Last(c.arg) \in Names
  BY <1>3, PathFacts
<1>5. RemoteGoesOn
  <2>1. CASE UNCHANGED remoteVars
    BY <2>1, TypesKept DEF CreateFolder, pollVars
  <2>2. CASE \E l \in Dirs : AddLink(l, c.found.id, Last(c.arg))
    BY <1>2, <1>3, <1>4, <2>2, RemoteOpsKeepType DEF CreateFolder, pollVars, Links
  <2> QED BY <1>1, <2>1, <2>2 DEF CreateFolder
<1>6. IsMeta(meta') /\ MapType'
  BY TypesKept DEF CreateFolder
<1>7. IsCall([c EXCEPT !.pc = "created"])
  BY <1>2 DEF IsCall, CallPcs
<1> QED BY <1>1, <1>5, <1>6, <1>7, HandlerMoves DEF CreateFolder

(* TrashChildren and DeleteChildren, by the server.                         *)
LEMMA RemoveLinkKeepsType ==
  ASSUME TypeOK, NEW h \in Handlers, RemoveLink(h)
  PROVE  TypeOK'
<1>1. PICK c : c = call[h]
  OBVIOUS
<1>2. IsCall(c) /\ c.pc = "remove" /\ RemoteType
  BY <1>1 DEF RemoveLink, At, TypeOK, CallsType
<1>3. c.found.id \in Links
  BY <1>2 DEF IsCall, Snapshots
<1>4. RemoteGoesOn
  <2>1. CASE UNCHANGED remoteVars
    BY <2>1, TypesKept DEF RemoveLink, pollVars
  <2>2. CASE TrashLink(c.found.id) \/ DeleteLink(c.found.id)
    <3>1. \E n \in Names : TRUE
      BY RemoteAssumption
    <3> QED BY <1>2, <1>3, <2>2, <3>1, RemoteOpsKeepType, LinksAssumption DEF RemoveLink, pollVars
  <2> QED BY <1>1, <2>1, <2>2 DEF RemoveLink
<1>5. IsMeta(meta') /\ MapType'
  BY TypesKept DEF RemoveLink
<1> QED BY <1>4, <1>5, IdleIsCall, HandlerMoves DEF RemoveLink

(* Other clients.                                                           *)
LEMMA RemoteKeepsType ==
  ASSUME TypeOK, Remote
  PROVE  TypeOK'
<1>1. PICK l \in RemoteLinks :
         \/ RemoteTrash(l) \/ RemoteDelete(l) \/ RemoteUpdate(l)
         \/ \E d \in Dirs, n \in Names : RemoteCreate(l, d, n) \/ RemoteMove(l, d, n)
  BY DEF Remote
<1>2. l \in Links /\ Root \in Dirs /\ \E n \in Names : TRUE
  BY RemoteAssumption, LinksAssumption
<1>3. \E d \in Dirs, n \in Names :
        AddLink(l, d, n) \/ TrashLink(l) \/ DeleteLink(l) \/ RemoteUpdate(l) \/ RemoteMove(l, d, n)
  BY <1>1, <1>2 DEF RemoteTrash, RemoteDelete, RemoteCreate
<1>4. RemoteGoesOn
  BY <1>2, <1>3, RemoteOpsKeepType DEF Remote, pollVars, TypeOK
<1>5. IsMeta(meta)' /\ MapType' /\ CallsType' /\ IsPoll(poll)' /\ PollAhead'
  BY <1>4, TypesKept DEF Remote, pollVars
<1> QED BY <1>4, <1>5 DEF TypeOK, RemoteGoesOn

-----------------------------------------------------------------------------
(* The poller keeps the types.                                              *)

(* The event being handled is one of the log's.                             *)
LEMMA EventHandled ==
  ASSUME RemoteType, handled < Len(log)
  PROVE  log[handled + 1] \in Events /\ handled + 1 \in 0 .. Len(log)
<1>1. Len(log) \in Nat /\ log \in Seq(Events)
  BY LenProperties DEF RemoteType
<1>2. handled + 1 \in 1 .. Len(log)
  BY <1>1 DEF RemoteType
<1>3. log[handled + 1] \in Events
  BY <1>1, <1>2, ElementOfSeq
<1> QED BY <1>1, <1>2, <1>3

(* The stages of the fallback chain: what each needs is there.              *)
LEMMA StageFromIsPoll ==
  ASSUME NEW q, NEW i \in 1 .. 4,
         q \in [pc : PollPcs \cup {"begin"}, ev : Events, path : Paths \cup {NoPath},
                parentPath : Paths \cup {NoPath}, old : SUBSET SUBSET Snapshots,
                oldParent : SUBSET SUBSET Snapshots, resp : SUBSET Snapshots]
  PROVE  /\ IsPoll(StageFrom(q, i)) /\ StageFrom(q, i).pc # "idle"
         /\ \E st \in {"diffOwn", "diffParent", "checkTrash", "changed"} :
              StageFrom(q, i) = [q EXCEPT !.pc = st, !.resp = {}]
<1> DEFINE First(m) == Applies(q, Stages[m]) /\ \A o \in i .. m - 1 : ~ Applies(q, Stages[o])
           k == CHOOSE m \in i .. Len(Stages) : First(m)
<1>1. Len(Stages) = 4 /\ Stages[1] = "diffOwn" /\ Stages[2] = "diffParent"
      /\ Stages[3] = "checkTrash" /\ Stages[4] = "changed"
  BY DEF Stages
<1>2. /\ Applies(q, "diffOwn") => q.path # NoPath
      /\ Applies(q, "diffParent") => q.parentPath # NoPath
      /\ Applies(q, "changed")
  BY DEF Applies
<1>3. \E m \in i .. 4 : First(m)
  <2> DEFINE T == {m \in i .. 4 : Applies(q, Stages[m])}
  <2>1. 4 \in T
    BY <1>1, <1>2
  <2>2. \E m \in T : \A o \in T : m <= o
    BY <2>1
  <2> QED BY <2>2
<1>4. k \in i .. 4 /\ First(k)
  BY <1>1, <1>3
<1>5. StageFrom(q, i) = [q EXCEPT !.pc = Stages[k], !.resp = {}]
  BY DEF StageFrom
<1> HIDE DEF k
<1>6. k = 1 \/ k = 2 \/ k = 3 \/ k = 4
  BY <1>4
<1>7. \/ Stages[k] = "diffOwn" /\ q.path # NoPath
      \/ Stages[k] = "diffParent" /\ q.parentPath # NoPath
      \/ Stages[k] = "checkTrash" \/ Stages[k] = "changed"
  BY <1>1, <1>2, <1>4, <1>6, Zenon
<1>8. PICK st : st = Stages[k]
  OBVIOUS
<1>9. IsPoll([q EXCEPT !.pc = st, !.resp = {}]) /\ [q EXCEPT !.pc = st, !.resp = {}].pc # "idle"
  BY <1>7, <1>8 DEF IsPoll, PollPcs
<1>10. st \in {"diffOwn", "diffParent", "checkTrash", "changed"}
  BY <1>7, <1>8
<1>11. StageFrom(q, i) = [q EXCEPT !.pc = st, !.resp = {}]
  BY <1>5, <1>8
<1> QED BY <1>9, <1>10, <1>11, Zenon

(* A step of the poller, from the parts it changes.                         *)
LEMMA PollerMoves ==
  ASSUME TypeOK, UNCHANGED remoteVars, handled' \in 0 .. Len(log), IsPoll(poll'),
         poll'.pc # "idle" => handled' < Len(log), IsMeta(meta'), MapType', CallsType'
  PROVE  TypeOK'
<1>1. node' = node /\ log' = log
  BY DEF remoteVars
<1>2. RemoteType' /\ PollAhead'
  BY <1>1 DEF TypeOK, RemoteType, PollAhead
<1>3. IsMeta(meta)' /\ IsPoll(poll)'
  OBVIOUS
<1> QED BY <1>2, <1>3 DEF TypeOK

(* handle() ends and the poller is one event further.                       *)
LEMMA HandleDoneFacts ==
  ASSUME RemoteType, handled < Len(log), NEW es, HandleDone(es)
  PROVE  handled' \in 0 .. Len(log) /\ IsPoll(poll') /\ poll'.pc = "idle"
BY EventHandled DEF HandleDone, IsPoll, IdlePoll

(* handle() goes on with the same event.                                    *)
LEMMA HandleGoesOn ==
  ASSUME RemoteType, handled < Len(log), UNCHANGED handled
  PROVE  handled' \in 0 .. Len(log) /\ handled' < Len(log)
BY DEF RemoteType

(* What the poller looks up before it invalidates anything.                 *)
LEMMA LookupsTyped ==
  ASSUME TypeOK
  PROVE  /\ \A l : LinkPath(l) \in Paths \cup {NoPath}
         /\ \A p : OldList(p) \in SUBSET SUBSET Snapshots
<1>1. \A l : LinkPath(l) \in Paths \cup {NoPath}
  BY DEF TypeOK, MapType, LinkPath, Lookup, Range
<1>2. ASSUME NEW p PROVE OldList(p) \in SUBSET SUBSET Snapshots
  <2>1. p \in DOMAIN meta.lists => meta.lists[p].links \in SUBSET Snapshots
    BY DEF TypeOK, IsMeta
  <2> QED BY <2>1 DEF OldList
<1> QED BY <1>1, <1>2

(* Paths are only taken out of pathLinks.                                   *)
LEMMA MapsShrink ==
  ASSUME MapType, DOMAIN pathLinks' \subseteq DOMAIN pathLinks, Range(pathLinks') \subseteq Range(pathLinks),
         linkPaths' = linkPaths \/ (\E l \in Links, p \in Paths : linkPaths' = Put(linkPaths, l, p)),
         UNCHANGED nodeKRs
  PROVE  MapType'
<1>1. DOMAIN linkPaths' \subseteq Links /\ Range(linkPaths') \subseteq Paths
  BY DEF MapType, Put, Range
<1>2. Range(pathLinks)' = Range(pathLinks') /\ Range(linkPaths)' = Range(linkPaths')
  BY DEF Range
<1> QED BY <1>1, <1>2 DEF MapType

(* A delete event.                                                          *)
LEMMA HandleDeleteKeepsType ==
  ASSUME TypeOK, HandleDelete
  PROVE  TypeOK'
<1>1. RemoteType /\ IsMeta(meta) /\ MapType /\ handled < Len(log) /\ CallsType'
  BY OvertakeKeepsCalls DEF TypeOK, HandleDelete, Handling
<1>2. MapType'
  <2>1. DOMAIN pathLinks' \subseteq DOMAIN pathLinks /\ Range(pathLinks') \subseteq Range(pathLinks)
    BY ForgetFacts DEF HandleDelete
  <2> QED BY <1>1, <2>1, MapsShrink DEF HandleDelete
<1>3. IsMeta(meta')
  BY <1>1, InvalidateIsMeta DEF HandleDelete
<1>4. \E es : HandleDone(es)
  BY DEF HandleDelete
<1> QED BY <1>1, <1>2, <1>3, <1>4, HandleDoneFacts, PollerMoves DEF HandleDelete

(* A create event.                                                          *)
LEMMA HandleCreateKeepsType ==
  ASSUME TypeOK, HandleCreate
  PROVE  TypeOK'
<1>1. RemoteType /\ IsMeta(meta) /\ MapType /\ handled < Len(log) /\ CallsType'
  BY OvertakeKeepsCalls DEF TypeOK, HandleCreate, Handling
<1>2. PICK e \in Events : e = log[handled + 1]
  BY <1>1, EventHandled
<1>3. PICK pp : pp = LinkPath(e.parent)
  OBVIOUS
<1>4. pp \in Paths \cup {NoPath}
  BY <1>3, LookupsTyped
<1>5. e.link \in Links /\ e.name \in Names
  BY DEF Events
<1>6. MapType'
  <2>1. DOMAIN pathLinks' \subseteq DOMAIN pathLinks /\ Range(pathLinks') \subseteq Range(pathLinks)
    BY ForgetFacts DEF HandleCreate
  <2>2. pp # NoPath => Child(pp, e.name) \in Paths
    BY <1>4, <1>5, PathFacts
  <2>3. linkPaths' = linkPaths \/ (pp # NoPath /\ linkPaths' = Put(linkPaths, e.link, Child(pp, e.name)))
    BY <1>2, <1>3 DEF HandleCreate, AnnounceCreated
  <2> QED BY <1>1, <1>5, <2>1, <2>2, <2>3, MapsShrink DEF HandleCreate
<1>7. IsMeta(meta')
  BY <1>1, InvalidateIsMeta DEF HandleCreate
<1>8. CASE \E es : HandleDone(es)
  BY <1>1, <1>6, <1>7, <1>8, HandleDoneFacts, PollerMoves DEF HandleCreate
<1>9. ASSUME pp # NoPath, UNCHANGED handled,
             poll' = [pc |-> "createName", ev |-> e, path |-> NoPath, parentPath |-> pp, old |-> {},
                      oldParent |-> OldList(pp), resp |-> {}]
      PROVE  TypeOK'
  <2>1. PICK o : o = OldList(pp)
    OBVIOUS
  <2>2. o \in SUBSET SUBSET Snapshots
    BY <2>1, LookupsTyped
  <2>3. IsPoll(poll')
    BY <1>4, <1>9, <2>1, <2>2 DEF IsPoll, PollPcs
  <2> QED BY <1>1, <1>6, <1>7, <1>9, <2>3, HandleGoesOn, PollerMoves DEF HandleCreate
<1>10. \/ \E es : HandleDone(es)
       \/ /\ pp # NoPath /\ UNCHANGED handled
          /\ poll' = [pc |-> "createName", ev |-> e, path |-> NoPath, parentPath |-> pp, old |-> {},
                      oldParent |-> OldList(pp), resp |-> {}]
  BY <1>2, <1>3 DEF HandleCreate, AnnounceCreated
<1> QED BY <1>8, <1>9, <1>10

(* An update event.                                                         *)
LEMMA HandleUpdateKeepsType ==
  ASSUME TypeOK, HandleUpdate
  PROVE  TypeOK'
<1>1. RemoteType /\ IsMeta(meta) /\ MapType /\ handled < Len(log) /\ CallsType'
  BY OvertakeKeepsCalls DEF TypeOK, HandleUpdate, Handling
<1>2. PICK e \in Events : e = log[handled + 1]
  BY <1>1, EventHandled
<1>3. PICK own, pp : own = LinkPath(e.link) /\ pp = LinkPath(e.parent)
  OBVIOUS
<1>4. MapType'
  <2>1. DOMAIN pathLinks' \subseteq DOMAIN pathLinks /\ Range(pathLinks') \subseteq Range(pathLinks)
    BY ForgetFacts DEF HandleUpdate
  <2> QED BY <1>1, <2>1, MapsShrink DEF HandleUpdate
<1>5. IsMeta(meta')
  <2>1. PICK m : m = MetaInvalidatePath(MetaInvalidatePath(meta, own), pp)
    OBVIOUS
  <2>2. IsMeta(m)
    BY <1>1, <2>1, InvalidateIsMeta
  <2>3. meta' = m \/ meta' \in MetaInvalidateLinkID(m, e.parent)
    BY <1>2, <1>3, <2>1 DEF HandleUpdate
  <2> QED BY <2>2, <2>3, InvalidateIsMeta
<1>6. PICK o1, o2 : o1 = OldList(own) /\ o2 = OldList(pp)
  OBVIOUS
<1>7. PICK q : q = [pc |-> "begin", ev |-> e, path |-> own, parentPath |-> pp, old |-> o1,
                    oldParent |-> o2, resp |-> {}]
  OBVIOUS
<1>8. IsPoll(StageFrom(q, 1))
  <2>1. o1 \in SUBSET SUBSET Snapshots /\ o2 \in SUBSET SUBSET Snapshots
        /\ own \in Paths \cup {NoPath} /\ pp \in Paths \cup {NoPath}
    BY <1>3, <1>6, LookupsTyped
  <2>2. q \in [pc : PollPcs \cup {"begin"}, ev : Events, path : Paths \cup {NoPath},
              parentPath : Paths \cup {NoPath}, old : SUBSET SUBSET Snapshots,
              oldParent : SUBSET SUBSET Snapshots, resp : SUBSET Snapshots]
    BY <1>7, <2>1
  <2>3. 1 \in 1 .. 4
    OBVIOUS
  <2> QED BY <2>2, <2>3, StageFromIsPoll, Zenon
<1>9. poll' = StageFrom(q, 1) /\ UNCHANGED handled
  BY <1>2, <1>3, <1>6, <1>7 DEF HandleUpdate
<1> QED BY <1>1, <1>4, <1>5, <1>8, <1>9, HandleGoesOn, PollerMoves DEF HandleUpdate

(* The state of handle() between two of its requests.                       *)
LEMMA PollFields ==
  ASSUME TypeOK, poll.pc # "idle"
  PROVE  /\ poll \in [pc : PollPcs, ev : Events, path : Paths \cup {NoPath},
                      parentPath : Paths \cup {NoPath}, old : SUBSET SUBSET Snapshots,
                      oldParent : SUBSET SUBSET Snapshots, resp : SUBSET Snapshots]
         /\ poll.pc \in {"diffOwn", "applyOwn"} => poll.path \in Paths
         /\ poll.pc \in {"createName", "diffParent", "applyParent"} => poll.parentPath \in Paths
         /\ RemoteType /\ IsMeta(meta) /\ MapType /\ handled < Len(log)
         /\ \A i \in 1 .. 4 : IsPoll(StageFrom(poll, i))
<1>1. IsPoll(poll) /\ poll # IdlePoll
  BY DEF TypeOK, IdlePoll
<1>2. poll \in [pc : PollPcs, ev : Events, path : Paths \cup {NoPath},
               parentPath : Paths \cup {NoPath}, old : SUBSET SUBSET Snapshots,
               oldParent : SUBSET SUBSET Snapshots, resp : SUBSET Snapshots]
  BY <1>1 DEF IsPoll
<1>3. /\ poll.pc \in {"diffOwn", "applyOwn"} => poll.path \in Paths
      /\ poll.pc \in {"createName", "diffParent", "applyParent"} => poll.parentPath \in Paths
  BY <1>1, <1>2 DEF IsPoll
<1>4. RemoteType /\ IsMeta(meta) /\ MapType /\ handled < Len(log)
  BY DEF TypeOK, PollAhead
<1>5. PICK q : q = poll
  OBVIOUS
<1>6. \A i \in 1 .. 4 : IsPoll(StageFrom(q, i))
  <2>1. q \in [pc : PollPcs \cup {"begin"}, ev : Events, path : Paths \cup {NoPath},
              parentPath : Paths \cup {NoPath}, old : SUBSET SUBSET Snapshots,
              oldParent : SUBSET SUBSET Snapshots, resp : SUBSET Snapshots]
    BY <1>2, <1>5
  <2> QED BY <2>1, StageFromIsPoll
<1> QED BY <1>2, <1>3, <1>4, <1>5, <1>6

(* The name of a new link is asked for.                                     *)
LEMMA CreateNameKeepsType ==
  ASSUME TypeOK, CreateName
  PROVE  TypeOK'
<1>1. poll.pc = "createName"
  BY DEF CreateName
<1>2. RemoteType /\ IsMeta(meta) /\ MapType /\ handled < Len(log) /\ poll.parentPath \in Paths
  BY <1>1, PollFields
<1>3. poll.ev.link \in Links
  BY <1>1, PollFields DEF Events
<1>4. IsMeta(meta') /\ CallsType'
  BY TypesKept DEF CreateName
<1>5. CASE poll' = StageFrom(poll, 2) /\ UNCHANGED <<linkPaths, emitted, handled>>
  <2>1. IsPoll(poll')
    BY <1>1, <1>5, PollFields
  <2>2. MapType'
    BY <1>5, TypesKept DEF CreateName, mapVars
  <2> QED BY <1>2, <1>4, <1>5, <2>1, <2>2, HandleGoesOn, PollerMoves DEF CreateName
<1>6. CASE AnnounceCreated(poll.ev.link, Child(poll.parentPath, node[poll.ev.link].name))
  <2>1. PICK l \in Links : l = poll.ev.link
    BY <1>3
  <2>2. node[l].name \in Names
    BY <1>2 DEF RemoteType
  <2>3. PICK p \in Paths : p = Child(poll.parentPath, node[l].name)
    BY <1>2, <2>2, PathFacts
  <2>4. MapType'
    BY <1>2, <1>6, <2>1, <2>3, MapsGrow DEF CreateName, AnnounceCreated
  <2>5. \E es : HandleDone(es)
    BY <1>6 DEF AnnounceCreated
  <2> QED BY <1>2, <1>4, <2>4, <2>5, HandleDoneFacts, PollerMoves DEF CreateName
<1> QED BY <1>5, <1>6 DEF CreateName

(* A folder is listed again, to compare.                                    *)
LEMMA DiffFetchKeepsType ==
  ASSUME TypeOK, DiffOwn \/ DiffParent
  PROVE  TypeOK'
<1>1. poll.pc \in {"diffOwn", "diffParent"}
  BY DEF DiffOwn, DiffParent, DiffFetch
<1>2. RemoteType /\ handled < Len(log)
  BY <1>1, PollFields
<1>3. PICK q : q = poll
  OBVIOUS
<1>4. ASSUME NEW d, NEW r \in Listings(d), q.pc = "diffOwn"
      PROVE  IsPoll([q EXCEPT !.pc = "applyOwn", !.resp = r])
  <2>1. r \in SUBSET Snapshots
    BY <1>2, AnswersAreSnapshots
  <2> QED BY <1>1, <1>3, <1>4, <2>1, PollFields, NoPathAssumption DEF IsPoll, PollPcs
<1>5. ASSUME NEW d, NEW r \in Listings(d), q.pc = "diffParent"
      PROVE  IsPoll([q EXCEPT !.pc = "applyParent", !.resp = r])
  <2>1. r \in SUBSET Snapshots
    BY <1>2, AnswersAreSnapshots
  <2> QED BY <1>1, <1>3, <1>5, <2>1, PollFields, NoPathAssumption DEF IsPoll, PollPcs
<1>6. IsPoll(StageFrom(q, 1 + 1)) /\ IsPoll(StageFrom(q, 2 + 1))
  BY <1>1, <1>3, PollFields
<1>7. IsPoll(poll') /\ UNCHANGED <<remoteVars, meta, mapVars, call, handled>>
  BY <1>3, <1>4, <1>5, <1>6 DEF DiffOwn, DiffParent, DiffFetch
<1>8. IsMeta(meta') /\ MapType' /\ CallsType'
  BY <1>7, TypesKept
<1> QED BY <1>2, <1>7, <1>8, HandleGoesOn, PollerMoves

(* The new listing is compared, its paths recorded and cached.              *)
LEMMA DiffApplyTyped ==
  ASSUME TypeOK, NEW pc, NEW dp \in Paths, NEW olds, pc # "idle", DiffApply(pc, dp, olds)
  PROVE  TypeOK'
<1>1. poll.pc # "idle"
  BY DEF DiffApply
<1>2. RemoteType /\ IsMeta(meta) /\ MapType /\ handled < Len(log)
  BY <1>1, PollFields
<1>3. PICK new \in SUBSET Snapshots : new = poll.resp
  BY <1>1, PollFields
<1>4. IsMeta(meta')
  <2>1. meta' = SetList(meta, dp, new, FALSE)
    BY <1>3 DEF DiffApply
  <2> QED BY <1>2, <2>1, SetListIsMeta
<1>5. MapType'
  <2> DEFINE ids == {s.id : s \in new}
             at(l) == Child(dp, (CHOOSE s \in new : s.id = l).name)
  <2>1. linkPaths' = [l \in DOMAIN linkPaths \cup ids |-> IF l \in ids THEN at(l) ELSE linkPaths[l]]
    BY <1>3 DEF DiffApply
  <2>2. ids \subseteq Links
    BY DEF Snapshots
  <2>3. ASSUME NEW l \in ids PROVE at(l) \in Paths
    <3>1. PICK s : s = CHOOSE t \in new : t.id = l
      OBVIOUS
    <3>2. s \in new
      BY <3>1
    <3>3. s.name \in Names
      BY <3>2 DEF Snapshots
    <3> QED BY <3>1, <3>3, PathFacts
  <2> HIDE DEF ids, at
  <2>4. DOMAIN linkPaths' = DOMAIN linkPaths \cup ids
        /\ \A l \in DOMAIN linkPaths' : linkPaths'[l] \in Paths
    BY <1>2, <2>1, <2>3 DEF MapType, Range
  <2>5. DOMAIN linkPaths' \subseteq Links /\ Range(linkPaths') \subseteq Paths
    BY <1>2, <2>2, <2>4 DEF MapType, Range
  <2>6. pathLinks' = pathLinks /\ nodeKRs' = nodeKRs
    BY DEF DiffApply
  <2>7. Range(pathLinks)' = Range(pathLinks) /\ Range(linkPaths)' = Range(linkPaths')
    BY <2>6 DEF Range
  <2> QED BY <1>2, <2>5, <2>6, <2>7 DEF MapType
<1>6. CallsType'
  BY TypesKept DEF DiffApply
<1>7. \E es : HandleDone(es)
  BY DEF DiffApply
<1> QED BY <1>2, <1>4, <1>5, <1>6, <1>7, HandleDoneFacts, PollerMoves DEF DiffApply

(* For the link's own path or for its parent's.                             *)
LEMMA DiffApplyKeepsType ==
  ASSUME TypeOK, DiffApplyOwn \/ DiffApplyParent
  PROVE  TypeOK'
<1>1. CASE DiffApplyOwn
  <2>1. PICK p, o : p = poll.path /\ o = poll.old
    OBVIOUS
  <2>2. p \in Paths /\ DiffApply("applyOwn", p, o)
    BY <1>1, <2>1, PollFields DEF DiffApplyOwn
  <2> QED BY <2>2, DiffApplyTyped
<1>2. CASE DiffApplyParent
  <2>1. PICK p, o : p = poll.parentPath /\ o = poll.oldParent
    OBVIOUS
  <2>2. p \in Paths /\ DiffApply("applyParent", p, o)
    BY <1>2, <2>1, PollFields DEF DiffApplyParent
  <2> QED BY <2>2, DiffApplyTyped
<1> QED BY <1>1, <1>2

(* The last two attempts.                                                   *)
LEMMA HandleEndsTyped ==
  ASSUME TypeOK, CheckTrash \/ FallbackChanged
  PROVE  TypeOK'
<1>1. poll.pc # "idle"
  BY DEF CheckTrash, FallbackChanged
<1>2. RemoteType /\ MapType /\ handled < Len(log)
  BY <1>1, PollFields
<1>3. IsMeta(meta') /\ CallsType'
  BY TypesKept DEF CheckTrash, FallbackChanged
<1>4. MapType'
  <2>1. PICK l : l = poll.ev.link
    OBVIOUS
  <2>2. /\ linkPaths' = linkPaths \/ linkPaths' = Drop(linkPaths, {l})
        /\ pathLinks' = pathLinks /\ nodeKRs' = nodeKRs
    BY <2>1 DEF CheckTrash, FallbackChanged, mapVars
  <2>3. DOMAIN linkPaths' \subseteq Links /\ Range(linkPaths') \subseteq Paths
    BY <1>2, <2>2, DropFacts DEF MapType
  <2>4. Range(pathLinks)' = Range(pathLinks) /\ Range(linkPaths)' = Range(linkPaths')
    BY <2>2 DEF Range
  <2> QED BY <1>2, <2>2, <2>3, <2>4 DEF MapType
<1>5. \E es : HandleDone(es)
  BY DEF CheckTrash, FallbackChanged
<1> QED BY <1>2, <1>3, <1>4, <1>5, HandleDoneFacts, PollerMoves DEF CheckTrash, FallbackChanged

(* Everything cached about paths is dropped.                                *)
LEMMA RefreshKeepsType ==
  ASSUME TypeOK, Refresh
  PROVE  TypeOK'
<1>1. RemoteType /\ MapType /\ IsPoll(poll) /\ CallsType'
  BY OvertakeKeepsCalls DEF TypeOK, Refresh
<1>2. handled' \in 0 .. Len(log)
  BY <1>1, LenProperties DEF Refresh, RemoteType
<1>3. IsPoll(poll') /\ poll'.pc = "idle"
  BY <1>1 DEF Refresh
<1>4. IsMeta(meta')
  BY EmptyMapFacts DEF Refresh, IsMeta
<1>5. MapType'
  BY <1>1, EmptyMapFacts, MapsShrink DEF Refresh
<1> QED BY <1>1, <1>2, <1>3, <1>4, <1>5, PollerMoves DEF Refresh

-----------------------------------------------------------------------------
(* The session's state keeps its type: caches hold links of the volume      *)
(* under paths, a walk never runs past the end of its path, MakeDir creates *)
(* in a folder and under a name, a folder is only compared when it has a    *)
(* path, and the poller never gets past the head of the event log.          *)
THEOREM SessionTypeCorrect == Spec => []TypeOK
<1>1. Init => TypeOK
  <2> SUFFICES ASSUME Init PROVE TypeOK
    OBVIOUS
  <2>1. node \in [Links -> [parent : Dirs \cup {NoLink}, name : Names,
                            state : {"absent", "active", "trashed", "gone"}, rev : Nat]]
    BY DEF Init
  <2>2. log \in Seq(Events) /\ Len(log) = 0 /\ handled = 0
    BY DEF Init
  <2>3. RemoteType
    BY <2>1, <2>2, BoundsAssumption DEF RemoteType
  <2>4. IsMeta(meta)
    BY EmptyMapFacts DEF Init, IsMeta
  <2>5. MapType
    BY EmptyMapFacts DEF Init, MapType
  <2>6. IsPoll(poll) /\ PollAhead
    BY DEF Init, IsPoll, PollAhead, IdlePoll
  <2>7. CallsType
    BY IdleIsCall DEF Init, CallsType
  <2> QED BY <2>3, <2>4, <2>5, <2>6, <2>7 DEF TypeOK
<1>2. TypeOK /\ [Next]_vars => TypeOK'
  <2> SUFFICES ASSUME TypeOK, [Next]_vars PROVE TypeOK'
    OBVIOUS
  <2>1. CASE Remote
    BY <2>1, RemoteKeepsType
  <2>2. ASSUME NEW h \in Handlers, Handler(h) PROVE TypeOK'
    <3>1. CASE \E r \in Requests : Begin(h, r[1], r[2])
      BY <3>1, BeginKeepsType
    <3>2. CASE GetStat(h) \/ StatRoot(h) \/ ResolveFast(h) \/ ResolveStart(h)
      BY <3>2, GetStatKeepsType, StatRootKeepsType, ResolveFastKeepsType, ResolveStartKeepsType
    <3>3. CASE Walk(h) \/ WalkStep(h) \/ GetList(h) \/ Fetch(h) \/ FetchStore(h)
      BY <3>3, ApiListChildrenKeepsType, WalkStepKeepsType, GetListKeepsType, FetchStoreKeepsType
    <3>4. CASE Listed(h) \/ Statted(h) \/ CreateFolder(h) \/ MakeDirDone(h) \/ RemoveLink(h)
      BY <3>4, ListedKeepsType, StattedKeepsType, CreateFolderKeepsType, MakeDirDoneKeepsType,
         RemoveLinkKeepsType
    <3> QED BY <2>2, <3>1, <3>2, <3>3, <3>4 DEF Handler, Progress
  <2>3. CASE Poller
    BY <2>3, HandleDeleteKeepsType, HandleCreateKeepsType, HandleUpdateKeepsType, CreateNameKeepsType,
       DiffFetchKeepsType, DiffApplyKeepsType, HandleEndsTyped, RefreshKeepsType DEF Poller
  <2>4. CASE UNCHANGED vars
    <3>1. UNCHANGED <<remoteVars, meta, mapVars, call, poll, handled>>
      BY <2>4 DEF vars, pollVars
    <3>2. RemoteGoesOn /\ IsMeta(meta)' /\ MapType' /\ IsPoll(poll)' /\ CallsType'
      BY <3>1, TypesKept
    <3>3. PollAhead'
      BY <3>1, <3>2, TypesKept
    <3> QED BY <3>2, <3>3 DEF TypeOK, RemoteGoesOn
  <2> QED BY <2>1, <2>2, <2>3, <2>4 DEF Next
<1> QED BY <1>1, <1>2, PTL DEF Spec

-----------------------------------------------------------------------------
(* Keyrings.                                                                *)

(* A step that keeps or shrinks pathLinks, or adds one link with a keyring, *)
(* and takes no keyring away.                                               *)
LEMMA KeyringsKept ==
  ASSUME ResolvedHaveKeyrings, nodeKRs \subseteq nodeKRs', Range(pathLinks') \subseteq Range(pathLinks)
  PROVE  ResolvedHaveKeyrings'
<1>1. Range(pathLinks)' = Range(pathLinks')
  BY DEF Range
<1> QED BY <1>1 DEF ResolvedHaveKeyrings

(* A link is entered with its keyring.                                      *)
LEMMA KeyringsAdded ==
  ASSUME ResolvedHaveKeyrings, NEW p, NEW l,
         nodeKRs' = nodeKRs \cup {l}, pathLinks' = Put(pathLinks, p, l)
  PROVE  ResolvedHaveKeyrings'
<1>1. Range(pathLinks)' = Range(pathLinks')
  BY DEF Range
<1>2. Range(pathLinks') \subseteq Range(pathLinks) \cup {l}
  BY PutFacts
<1> QED BY <1>1, <1>2 DEF ResolvedHaveKeyrings

(* No handler's step separates a resolved path from its keyring.            *)
LEMMA HandlerKeepsKeyrings ==
  ASSUME ResolvedHaveKeyrings, NEW h \in Handlers, Handler(h)
  PROVE  ResolvedHaveKeyrings'
<1>1. CASE UNCHANGED mapVars
  BY <1>1, KeyringsKept DEF mapVars
<1>2. CASE StatRoot(h)
  BY <1>2, KeyringsKept DEF StatRoot
<1>3. CASE ResolveStart(h)
  <2>1. \/ nodeKRs' = nodeKRs \cup {Root} /\ pathLinks' = Put(pathLinks, RootPath, Root)
        \/ UNCHANGED <<nodeKRs, pathLinks>>
    BY <1>3 DEF ResolveStart
  <2> QED BY <2>1, KeyringsAdded, KeyringsKept
<1>4. CASE WalkStep(h)
  <2>1. \/ \E p, l : nodeKRs' = nodeKRs \cup {l} /\ pathLinks' = Put(pathLinks, p, l)
        \/ UNCHANGED mapVars
    BY <1>4 DEF WalkStep
  <2> QED BY <1>1, <2>1, KeyringsAdded
<1>5. CASE \/ \E r \in Requests : Begin(h, r[1], r[2])
           \/ GetStat(h) \/ ResolveFast(h) \/ Walk(h) \/ GetList(h) \/ Fetch(h) \/ FetchStore(h)
           \/ Listed(h) \/ Statted(h) \/ CreateFolder(h) \/ MakeDirDone(h) \/ RemoveLink(h)
  BY <1>1, <1>5 DEF Begin, GetStat, ResolveFast, Walk, GetList, Fetch, FetchStore, Listed, Statted,
                    CreateFolder, MakeDirDone, RemoveLink, ApiListChildren
<1> QED BY <1>2, <1>3, <1>4, <1>5 DEF Handler, Progress

(* Nor does the poller: it only takes paths away.                           *)
LEMMA PollerKeepsKeyrings ==
  ASSUME ResolvedHaveKeyrings, Poller
  PROVE  ResolvedHaveKeyrings'
<1>1. nodeKRs' = nodeKRs /\ Range(pathLinks') \subseteq Range(pathLinks)
  <2>1. CASE HandleDelete
    BY <2>1, ForgetFacts DEF HandleDelete
  <2>2. CASE HandleCreate
    BY <2>2, ForgetFacts DEF HandleCreate
  <2>3. CASE HandleUpdate
    BY <2>3, ForgetFacts DEF HandleUpdate
  <2>4. CASE CreateName \/ CheckTrash \/ FallbackChanged
    BY <2>4 DEF CreateName, CheckTrash, FallbackChanged, mapVars
  <2>5. CASE DiffOwn \/ DiffParent
    BY <2>5 DEF DiffOwn, DiffParent, DiffFetch, mapVars
  <2>6. CASE DiffApplyOwn \/ DiffApplyParent
    BY <2>6 DEF DiffApplyOwn, DiffApplyParent, DiffApply
  <2>7. CASE Refresh
    BY <2>7, EmptyMapFacts DEF Refresh
  <2> QED BY <2>1, <2>2, <2>3, <2>4, <2>5, <2>6, <2>7 DEF Poller
<1> QED BY <1>1, KeyringsKept

(* Whatever handlers resolve, the poller forgets and other clients change,  *)
(* a linkID that pathLinks holds has its keyring in nodeKRs: resolvePath's  *)
(* fast path and the keyring of the parent it returns agree.                *)
THEOREM ResolvedAlwaysHaveKeyrings == Spec => []ResolvedHaveKeyrings
<1>1. Init => ResolvedHaveKeyrings
  BY EmptyMapFacts DEF Init, ResolvedHaveKeyrings
<1>2. ResolvedHaveKeyrings /\ [Next]_vars => ResolvedHaveKeyrings'
  <2> SUFFICES ASSUME ResolvedHaveKeyrings, [Next]_vars PROVE ResolvedHaveKeyrings'
    OBVIOUS
  <2>1. CASE Remote \/ UNCHANGED vars
    <3>1. UNCHANGED mapVars
      BY <2>1 DEF Remote, vars
    <3> QED BY <3>1, KeyringsKept DEF mapVars
  <2> QED BY <2>1, HandlerKeepsKeyrings, PollerKeepsKeyrings DEF Next
<1> QED BY <1>1, <1>2, PTL DEF Spec

-----------------------------------------------------------------------------
(* Listings, of a volume where links stay where they are.                   *)

(* Other clients and this one create links, change files and put files in   *)
(* the trash: no link is moved or renamed, no folder goes away and no file  *)
(* is deleted for good but from the trash.                                  *)
Settled ==
  /\ \A l \in Links : node[l].state # "absent" =>
       node'[l].parent = node[l].parent /\ node'[l].name = node[l].name
  /\ \A d \in Dirs : node'[d].state \notin {"trashed", "gone"}
  /\ \A l \in Links : node[l].state = "active" => node'[l].state # "gone"

(* The first event whose invalidations are still to come.                   *)
From == IF poll.pc = "idle" THEN handled + 1 ELSE handled + 2

(* A change of folder d's children is still to be dealt with.               *)
Pending(d) == \E i \in From .. Len(log) : log[i].parent = d /\ log[i].type # "delete"

(* A listing is folder d's current one, or will be invalidated.             *)
Fresh(links, d) == links = Children(d) \/ Pending(d)

KnownAs(d, p) == d \in DOMAIN linkPaths /\ linkPaths[d] = p

TreeInv == node[Root].state = "active" /\ \A d \in Dirs : node[d].state \in {"absent", "active"}

(* Events tell where their link still is.                                   *)
IsHere(e) ==
  /\ e.link # Root /\ node[e.link].state # "absent"
  /\ node[e.link].parent = e.parent /\ node[e.link].name = e.name

LogInv == \A i \in 1 .. Len(log) : IsHere(log[i])

(* Path p leads to folder d by way of its parent's recorded path.           *)
Placed(d, p) ==
  /\ node[d].state = "active"
  /\ \/ d = Root /\ p = RootPath
     \/ /\ d # Root /\ node[d].parent \in Dirs \cap DOMAIN linkPaths
        /\ p = Child(linkPaths[node[d].parent], node[d].name)

PathsInv == \A d \in Dirs \cap DOMAIN linkPaths : Placed(d, linkPaths[d])

LinksInv == \A p \in DOMAIN pathLinks : pathLinks[p] \in Dirs => KnownAs(pathLinks[p], p)

(* The folders of a listing are where it says.                              *)
Kids(links, d) ==
  \A s \in links : s.id \in Dirs =>
    /\ s.id # Root /\ node[s.id].state = "active"
    /\ node[s.id].parent = d /\ node[s.id].name = s.name

(* A handler is at the folder it has resolved, with that folder's listing.  *)
CallPlaced(c) ==
  /\ c.pc \in {"walk", "walked"} /\ c.link \in Dirs => KnownAs(c.link, SubSeq(c.dir, 1, c.depth))
  /\ c.pc \in {"fetch", "fetched"} /\ c.link \in Dirs => KnownAs(c.link, c.dir)
  /\ c.pc \in {"walked", "fetched"} => c.link \in Dirs /\ Kids(c.resp, c.link)

CallFresh(c) == c.pc \in {"walked", "fetched"} /\ ~ c.overtaken => Fresh(c.resp, c.link)

CallsInv == \A h \in Handlers : CallPlaced(call[h]) /\ CallFresh(call[h])

(* So is the poller.                                                        *)
PollPlaced(q) ==
  /\ IsHere(q.ev)
  /\ q.path # NoPath /\ q.ev.link \in Dirs => KnownAs(q.ev.link, q.path)
  /\ q.parentPath # NoPath => q.ev.parent \in Dirs /\ KnownAs(q.ev.parent, q.parentPath)
  /\ q.pc = "applyOwn" => q.ev.link \in Dirs /\ Kids(q.resp, q.ev.link)
  /\ q.pc = "applyParent" => q.ev.parent \in Dirs /\ Kids(q.resp, q.ev.parent)

PollFresh(q) ==
  /\ q.pc = "applyOwn" => Fresh(q.resp, q.ev.link)
  /\ q.pc = "applyParent" => Fresh(q.resp, q.ev.parent)

PollInv == poll.pc # "idle" => PollPlaced(poll) /\ PollFresh(poll)

(* A listing stored in time is fresh, and under its folder's path.          *)
ListOK(p, e) == ~ e.overtaken => \E d \in Dirs : KnownAs(d, p) /\ Fresh(e.links, d)

ListsInv == \A p \in DOMAIN meta.lists : ListOK(p, meta.lists[p])

PlacesInv == TreeInv /\ LogInv /\ PathsInv /\ LinksInv
FreshInv == TypeOK /\ PlacesInv /\ CallsInv /\ PollInv /\ ListsInv

-----------------------------------------------------------------------------
(* What a step leaves of a settled volume.                                  *)

(* Links stay where they are and recorded folders keep their paths.         *)
PlacesKept ==
  /\ \A l \in Links : node[l].state # "absent" =>
       /\ node'[l].state # "absent"
       /\ node'[l].parent = node[l].parent /\ node'[l].name = node[l].name
  /\ \A d \in Dirs : node[d].state = "active" => node'[d].state = "active"
  /\ \A d \in Dirs \cap DOMAIN linkPaths : d \in DOMAIN linkPaths' /\ linkPaths'[d] = linkPaths[d]

FreshKept == \A links, d : Fresh(links, d) => Fresh(links, d)'

(* What is placed stays placed.                                             *)
LEMMA PlacesKeptFacts ==
  ASSUME TypeOK, PlacesKept
  PROVE  /\ \A d \in Dirs : \A p : KnownAs(d, p) => KnownAs(d, p)'
         /\ \A d \in Dirs : \A p : Placed(d, p) => Placed(d, p)'
         /\ \A links \in SUBSET Snapshots : \A d : Kids(links, d) => Kids(links, d)'
         /\ \A e \in Events : IsHere(e) => IsHere(e)'
<1>1. \A d \in Dirs : \A p : KnownAs(d, p) => KnownAs(d, p)'
  BY DEF KnownAs, PlacesKept
<1>2. ASSUME NEW d \in Dirs, NEW p, Placed(d, p) PROVE Placed(d, p)'
  <2>1. node[d].state = "active" /\ d \in Links /\ node[d].state # "absent"
    BY <1>2 DEF Placed, Links
  <2>2. node'[d].state = "active" /\ node'[d].parent = node[d].parent /\ node'[d].name = node[d].name
    BY <2>1 DEF PlacesKept
  <2>3. CASE d = Root /\ p = RootPath
    BY <2>2, <2>3 DEF Placed
  <2>4. CASE d # Root
    <3>1. PICK e : e = node[d].parent
      OBVIOUS
    <3>2. e \in Dirs \cap DOMAIN linkPaths /\ p = Child(linkPaths[e], node[d].name)
      BY <1>2, <2>4, <3>1 DEF Placed
    <3>3. e \in DOMAIN linkPaths' /\ linkPaths'[e] = linkPaths[e]
      BY <3>2 DEF PlacesKept
    <3> QED BY <2>2, <2>4, <3>1, <3>2, <3>3 DEF Placed
  <2> QED BY <1>2, <2>3, <2>4 DEF Placed
<1>3. ASSUME NEW links \in SUBSET Snapshots, NEW d, Kids(links, d) PROVE Kids(links, d)'
  <2> SUFFICES ASSUME NEW s \in links, s.id \in Dirs
               PROVE  /\ s.id # Root /\ node'[s.id].state = "active"
                      /\ node'[s.id].parent = d /\ node'[s.id].name = s.name
    BY DEF Kids
  <2>1. PICK k \in Dirs : k = s.id
    OBVIOUS
  <2>2. k # Root /\ node[k].state = "active" /\ node[k].parent = d /\ node[k].name = s.name
    BY <1>3, <2>1 DEF Kids
  <2>3. k \in Links /\ node[k].state # "absent"
    BY <2>2 DEF Links
  <2> QED BY <2>1, <2>2, <2>3 DEF PlacesKept
<1>4. ASSUME NEW e \in Events, IsHere(e) PROVE IsHere(e)'
  <2>1. PICK k \in Links : k = e.link
    BY DEF Events
  <2> QED BY <1>4, <2>1 DEF IsHere, PlacesKept
<1> QED BY <1>1, <1>2, <1>3, <1>4

(* So what handlers and the poller hold stays placed.                       *)
LEMMA HoldersKept ==
  ASSUME TypeOK, PlacesKept
  PROVE  /\ \A c : IsCall(c) /\ CallPlaced(c) => CallPlaced(c)'
         /\ \A q : IsPoll(q) /\ q.pc # "idle" /\ PollPlaced(q) => PollPlaced(q)'
<1>1. ASSUME NEW c, IsCall(c), CallPlaced(c) PROVE CallPlaced(c)'
  <2>1. PICK d, r : d = c.link /\ r = c.resp
    OBVIOUS
  <2>2. r \in SUBSET Snapshots
    BY <1>1, <2>1, CallFields
  <2>3. c.pc \in {"walk", "walked"} /\ d \in Dirs => KnownAs(d, SubSeq(c.dir, 1, c.depth))'
    BY <1>1, <2>1, PlacesKeptFacts DEF CallPlaced
  <2>4. c.pc \in {"fetch", "fetched"} /\ d \in Dirs => KnownAs(d, c.dir)'
    BY <1>1, <2>1, PlacesKeptFacts DEF CallPlaced
  <2>5. c.pc \in {"walked", "fetched"} => d \in Dirs /\ Kids(r, d)'
    BY <1>1, <2>1, <2>2, PlacesKeptFacts DEF CallPlaced
  <2> QED BY <2>1, <2>3, <2>4, <2>5 DEF CallPlaced
<1>2. ASSUME NEW q, IsPoll(q), q.pc # "idle", PollPlaced(q) PROVE PollPlaced(q)'
  <2>1. PICK e, r : e = q.ev /\ r = q.resp
    OBVIOUS
  <2>2. e \in Events /\ r \in SUBSET Snapshots
    BY <1>2, <2>1 DEF IsPoll, IdlePoll
  <2>3. IsHere(e)'
    BY <1>2, <2>1, <2>2, PlacesKeptFacts DEF PollPlaced
  <2>4. /\ q.path # NoPath /\ e.link \in Dirs => KnownAs(e.link, q.path)'
        /\ q.parentPath # NoPath => e.parent \in Dirs /\ KnownAs(e.parent, q.parentPath)'
    BY <1>2, <2>1, PlacesKeptFacts DEF PollPlaced
  <2>5. /\ q.pc = "applyOwn" => e.link \in Dirs /\ Kids(r, e.link)'
        /\ q.pc = "applyParent" => e.parent \in Dirs /\ Kids(r, e.parent)'
    BY <1>2, <2>1, <2>2, PlacesKeptFacts DEF PollPlaced
  <2> QED BY <2>1, <2>3, <2>4, <2>5 DEF PollPlaced
<1> QED BY <1>1, <1>2

-----------------------------------------------------------------------------
(* The volume changes.                                                      *)

(* What is still to be dealt with, once an event is appended.               *)
LEMMA PendingGrows ==
  ASSUME TypeOK, NEW e \in Events, log' = Append(log, e), UNCHANGED <<handled, poll>>
  PROVE  /\ \A d : Pending(d) => Pending(d)'
         /\ e.type # "delete" => Pending(e.parent)'
<1>1. PICK n \in Nat : n = Len(log)
  BY LenProperties DEF TypeOK, RemoteType
<1>2. log \in Seq(Events)
  BY DEF TypeOK, RemoteType
<1>3. Len(log') = n + 1 /\ log'[n + 1] = e /\ \A i \in 1 .. n : log'[i] = log[i]
  BY <1>1, <1>2, AppendProperties
<1>4. From' = From
  BY DEF From
<1>5. From \in 1 .. n + 1
  BY <1>1 DEF From, TypeOK, RemoteType, PollAhead
<1>6. PICK f \in 1 .. n + 1 : f = From
  BY <1>5
<1>7. ASSUME NEW d, Pending(d) PROVE Pending(d)'
  <2>1. PICK i \in f .. n : log[i].parent = d /\ log[i].type # "delete"
    BY <1>1, <1>6, <1>7 DEF Pending
  <2>2. i \in f .. Len(log') /\ log'[i] = log[i]
    BY <1>3, <2>1
  <2> QED BY <1>4, <1>6, <2>1, <2>2 DEF Pending
<1>8. ASSUME e.type # "delete" PROVE Pending(e.parent)'
  <2>1. n + 1 \in f .. Len(log')
    BY <1>3
  <2>2. log'[n + 1].parent = e.parent /\ log'[n + 1].type # "delete"
    BY <1>3, <1>8
  <2> QED BY <1>4, <1>6, <2>1, <2>2 DEF Pending
<1> QED BY <1>7, <1>8

(* One link changes where it is, and the change is logged.                  *)
LEMMA SettledChange ==
  ASSUME TypeOK, TypeOK', TreeInv, LogInv, Settled, NEW l \in Links \ {Root}, NEW n,
         NEW type \in {"create", "update", "update_metadata", "delete"},
         node' = [node EXCEPT ![l] = n], LogEvent(type, l), n.state # "absent",
         type = "delete" => n.state = "gone", UNCHANGED <<handled, poll, linkPaths>>
  PROVE  PlacesKept /\ FreshKept /\ TreeInv' /\ LogInv'
<1> DEFINE Nodes == [parent : Dirs \cup {NoLink}, name : Names,
                     state : {"absent", "active", "trashed", "gone"}, rev : Nat]
<1>1. node \in [Links -> Nodes] /\ node' \in [Links -> Nodes] /\ log \in Seq(Events)
  BY DEF TypeOK, RemoteType
<1>2. node'[l] = n /\ \A k \in Links : k # l => node'[k] = node[k]
  BY <1>1
<1>3. ASSUME NEW k \in Links, node[k].state # "absent"
      PROVE  /\ node'[k].state # "absent"
             /\ node'[k].parent = node[k].parent /\ node'[k].name = node[k].name
  BY <1>2, <1>3 DEF Settled
<1>4. \A d \in Dirs : node'[d].state \in {"absent", "active"}
  BY <1>1 DEF Settled, Links
<1>5. ASSUME NEW d \in Dirs, node[d].state = "active" PROVE node'[d].state = "active"
  BY <1>3, <1>4, <1>5 DEF Links
<1>6. PlacesKept
  BY <1>3, <1>5 DEF PlacesKept
<1>7. TreeInv'
  BY <1>4, <1>5, LinksAssumption DEF TreeInv
<1>8. PICK e \in Events : e = [type |-> type, link |-> l, parent |-> node'[l].parent, name |-> node'[l].name]
  BY <1>1 DEF Events
<1>9. log' = Append(log, e)
  BY <1>8 DEF LogEvent
<1>10. LogInv'
  <2>1. PICK m \in Nat : m = Len(log)
    BY <1>1, LenProperties
  <2>2. Len(log') = m + 1 /\ log'[m + 1] = e /\ \A i \in 1 .. m : log'[i] = log[i]
    BY <1>1, <1>8, <1>9, <2>1, AppendProperties
  <2>3. IsHere(e)'
    BY <1>2, <1>8 DEF IsHere
  <2>4. ASSUME NEW i \in 1 .. m PROVE IsHere(log[i])'
    <3>1. log[i] \in Events /\ IsHere(log[i])
      BY <1>1, <2>1, ElementOfSeq DEF LogInv
    <3>2. PICK v : v = log[i]
      OBVIOUS
    <3>3. IsHere(v)'
      BY <1>6, <3>1, <3>2, PlacesKeptFacts
    <3>4. v = log'[i]
      BY <2>2, <3>2
    <3> QED BY <2>2, <3>2, <3>3, <3>4 DEF IsHere
  <2>5. IsHere(log[m + 1])'
    BY <2>2, <2>3
  <2>6. ASSUME NEW i \in 1 .. m + 1 PROVE IsHere(log[i])'
    <3>1. i \in 1 .. m \/ i = m + 1
      OBVIOUS
    <3> QED BY <2>4, <2>5, <3>1
  <2> QED BY <2>2, <2>6 DEF LogInv
<1>11. ASSUME NEW d, type = "delete" \/ e.parent # d PROVE Children(d)' = Children(d)
  <2>1. ASSUME NEW k \in Links \ {Root}
        PROVE  (node'[k].state = "active" /\ node'[k].parent = d)
                 <=> (node[k].state = "active" /\ node[k].parent = d)
    <3>1. CASE k # l
      BY <1>2, <3>1
    <3>2. CASE k = l /\ type = "delete"
      BY <1>2, <3>2 DEF Settled
    <3>3. CASE k = l /\ e.parent # d
      <4>1. node'[k].parent # d
        BY <1>8, <3>3
      <4>2. node[k].state = "active" => node'[k].parent = node[k].parent
        BY <1>3
      <4> QED BY <4>1, <4>2
    <3> QED BY <1>11, <3>1, <3>2, <3>3
  <2>2. ActiveChildren(d)' = ActiveChildren(d)
    BY <2>1 DEF ActiveChildren
  <2>3. ASSUME NEW k \in ActiveChildren(d) PROVE Snapshot(k)' = Snapshot(k)
    <3>1. CASE k # l
      BY <1>2, <3>1 DEF Snapshot, ActiveChildren
    <3>2. CASE k = l
      <4>1. node[l].state = "active" /\ node[l].parent = d
        BY <2>3, <3>2 DEF ActiveChildren
      <4>2. type # "delete" /\ node'[l].parent = d
        BY <1>2, <1>3, <4>1 DEF Settled
      <4> QED BY <1>8, <1>11, <4>2
    <3> QED BY <3>1, <3>2
  <2> QED BY <2>2, <2>3 DEF Children
<1>12. ASSUME NEW links, NEW d, Fresh(links, d) PROVE Fresh(links, d)'
  <2>1. CASE type = "delete" \/ e.parent # d
    BY <1>9, <1>11, <1>12, <2>1, PendingGrows DEF Fresh
  <2>2. CASE type # "delete" /\ e.parent = d
    <3>1. e.type = type
      BY <1>8
    <3> QED BY <1>9, <2>2, <3>1, PendingGrows DEF Fresh
  <2> QED BY <2>1, <2>2
<1> QED BY <1>6, <1>7, <1>10, <1>12 DEF FreshKept

(* The changes other clients make, and the ones this client asks for.       *)
LEMMA SettledOps ==
  ASSUME TypeOK, TypeOK', TreeInv, LogInv, Settled, UNCHANGED <<handled, poll, linkPaths>>,
         NEW l \in Links \ {Root}, NEW d, NEW n,
         AddLink(l, d, n) \/ TrashLink(l) \/ DeleteLink(l) \/ RemoteUpdate(l) \/ RemoteMove(l, d, n)
  PROVE  PlacesKept /\ FreshKept /\ TreeInv' /\ LogInv'
<1>1. node \in [Links -> [parent : Dirs \cup {NoLink}, name : Names,
                          state : {"absent", "active", "trashed", "gone"}, rev : Nat]]
  BY DEF TypeOK, RemoteType
<1>2. CASE AddLink(l, d, n)
  <2>1. PICK x : x = [parent |-> d, name |-> n, state |-> "active", rev |-> 0]
    OBVIOUS
  <2>2. node' = [node EXCEPT ![l] = x] /\ LogEvent("create", l) /\ x.state # "absent"
    BY <1>2, <2>1 DEF AddLink
  <2> QED BY <2>2, SettledChange
<1>3. CASE TrashLink(l)
  <2>1. PICK x : x = [node[l] EXCEPT !.state = "trashed"]
    OBVIOUS
  <2>2. node' = [node EXCEPT ![l] = x] /\ LogEvent("update_metadata", l) /\ x.state # "absent"
    BY <1>1, <1>3, <2>1 DEF TrashLink
  <2> QED BY <2>2, SettledChange
<1>4. CASE DeleteLink(l)
  <2>1. PICK x : x = [node[l] EXCEPT !.state = "gone"]
    OBVIOUS
  <2>2. node' = [node EXCEPT ![l] = x] /\ LogEvent("delete", l) /\ x.state = "gone"
    BY <1>1, <1>4, <2>1 DEF DeleteLink
  <2> QED BY <2>2, SettledChange
<1>5. CASE RemoteUpdate(l)
  <2>1. node[l].state = "active"
    BY <1>5 DEF RemoteUpdate, Reachable
  <2>2. PICK x : x = [node[l] EXCEPT !.rev = @ + 1]
    OBVIOUS
  <2>3. node' = [node EXCEPT ![l] = x] /\ LogEvent("update", l) /\ x.state # "absent"
    BY <1>1, <1>5, <2>1, <2>2 DEF RemoteUpdate
  <2> QED BY <2>3, SettledChange
<1>6. CASE RemoteMove(l, d, n)
  <2>1. node[l].state = "active"
    BY <1>6 DEF RemoteMove, Reachable
  <2>2. PICK x : x = [[node[l] EXCEPT !.parent = d] EXCEPT !.name = n]
    OBVIOUS
  <2>3. node' = [node EXCEPT ![l] = x] /\ LogEvent("update_metadata", l) /\ x.state # "absent"
    BY <1>1, <1>6, <2>1, <2>2 DEF RemoteMove
  <2> QED BY <2>3, SettledChange
<1> QED BY <1>2, <1>3, <1>4, <1>5, <1>6

-----------------------------------------------------------------------------
(* What a step does not touch.                                              *)

(* An unchanged volume.                                                     *)
LEMMA VolumeKept ==
  ASSUME TypeOK, TreeInv, LogInv, UNCHANGED remoteVars
  PROVE  /\ TreeInv' /\ LogInv'
         /\ From' = From => FreshKept
         /\ (\A d \in Dirs \cap DOMAIN linkPaths : d \in DOMAIN linkPaths' /\ linkPaths'[d] = linkPaths[d])
              => PlacesKept
<1>1. node' = node /\ log' = log
  BY DEF remoteVars
<1>2. TreeInv' /\ LogInv'
  BY <1>1 DEF TreeInv, LogInv, IsHere
<1>3. ASSUME From' = From PROVE FreshKept
  <2>1. \A d : Children(d)' = Children(d)
    BY <1>1 DEF Children, ActiveChildren, Snapshot
  <2>2. \A d : Pending(d)' <=> Pending(d)
    BY <1>1, <1>3 DEF Pending
  <2> QED BY <2>1, <2>2 DEF FreshKept, Fresh
<1>4. ASSUME \A d \in Dirs \cap DOMAIN linkPaths : d \in DOMAIN linkPaths' /\ linkPaths'[d] = linkPaths[d]
      PROVE  PlacesKept
  BY <1>1, <1>4 DEF PlacesKept
<1> QED BY <1>2, <1>3, <1>4

(* Paths that are added lead where their folder is, so no path changes.     *)
LEMMA PathsGrow ==
  ASSUME TypeOK, PathsInv, UNCHANGED node,
         Dirs \cap DOMAIN linkPaths \subseteq DOMAIN linkPaths',
         \A d \in Dirs \cap DOMAIN linkPaths' :
           (d \in DOMAIN linkPaths /\ linkPaths'[d] = linkPaths[d]) \/ Placed(d, linkPaths'[d])
  PROVE  PlacesKept /\ PathsInv'
<1>1. ASSUME NEW d \in Dirs \cap DOMAIN linkPaths
      PROVE  d \in DOMAIN linkPaths' /\ linkPaths'[d] = linkPaths[d]
  <2>1. d \in DOMAIN linkPaths'
    BY <1>1
  <2>2. Placed(d, linkPaths[d])
    BY <1>1 DEF PathsInv
  <2>3. PICK p, q : p = linkPaths[d] /\ q = linkPaths'[d]
    OBVIOUS
  <2>4. Placed(d, p) /\ Placed(d, q) => p = q
    BY DEF Placed
  <2> QED BY <2>1, <2>2, <2>3, <2>4
<1>2. PlacesKept
  BY <1>1 DEF PlacesKept
<1>3. ASSUME NEW d \in Dirs \cap DOMAIN linkPaths' PROVE Placed(d, linkPaths[d])'
  <2>1. PICK p : p = linkPaths'[d]
    OBVIOUS
  <2>2. Placed(d, p)
    BY <2>1 DEF PathsInv
  <2>3. Placed(d, p)'
    BY <1>2, <2>2, PlacesKeptFacts
  <2> QED BY <2>1, <2>3
<1> QED BY <1>2, <1>3 DEF PathsInv

(* Recorded paths that stay, stay right.                                    *)
LEMMA PathsStay ==
  ASSUME TypeOK, PathsInv, PlacesKept, UNCHANGED linkPaths
  PROVE  PathsInv'
<1>1. ASSUME NEW d \in Dirs \cap DOMAIN linkPaths PROVE Placed(d, linkPaths[d])'
  <2>1. PICK p : p = linkPaths[d] /\ p = linkPaths'[d]
    OBVIOUS
  <2>2. Placed(d, p)
    BY <2>1 DEF PathsInv
  <2>3. Placed(d, p)'
    BY <2>2, PlacesKeptFacts
  <2> QED BY <2>1, <2>3
<1> QED BY <1>1 DEF PathsInv

(* Resolved paths that stay, stay right.                                    *)
LEMMA LinksStay ==
  ASSUME TypeOK, LinksInv, PlacesKept,
         \A p \in DOMAIN pathLinks' :
           \/ p \in DOMAIN pathLinks /\ pathLinks'[p] = pathLinks[p]
           \/ pathLinks'[p] \in Dirs => KnownAs(pathLinks[p], p)'
  PROVE  LinksInv'
<1>1. ASSUME NEW p \in DOMAIN pathLinks', pathLinks'[p] \in Dirs PROVE KnownAs(pathLinks[p], p)'
  <2>1. PICK d \in Dirs : d = pathLinks'[p]
    BY <1>1
  <2>2. KnownAs(d, p)'
    <3>1. CASE pathLinks[p] = d /\ p \in DOMAIN pathLinks
      <4>1. KnownAs(d, p)
        BY <3>1 DEF LinksInv
      <4> QED BY <4>1, PlacesKeptFacts
    <3> QED BY <2>1, <3>1
  <2> QED BY <2>1, <2>2
<1> QED BY <1>1 DEF LinksInv

(* Listings that stay and listings that are added.                          *)
LEMMA ListsStay ==
  ASSUME TypeOK, ListsInv, PlacesKept, FreshKept,
         \A p \in DOMAIN meta'.lists :
           \/ p \in DOMAIN meta.lists /\ meta'.lists[p] = meta.lists[p]
           \/ ListOK(p, meta.lists[p])'
  PROVE  ListsInv'
<1>1. ASSUME NEW p \in DOMAIN meta'.lists PROVE ListOK(p, meta.lists[p])'
  <2>1. PICK e : e = meta'.lists[p]
    OBVIOUS
  <2>2. ASSUME ListOK(p, e) PROVE ListOK(p, e)'
    <3>1. ASSUME NEW d \in Dirs, KnownAs(d, p), Fresh(e.links, d)
          PROVE  KnownAs(d, p)' /\ Fresh(e.links, d)'
      BY <3>1, PlacesKeptFacts DEF FreshKept
    <3> QED BY <2>2, <3>1 DEF ListOK
  <2>3. ListOK(p, e)'
    BY <2>1, <2>2 DEF ListsInv
  <2> QED BY <2>1, <2>3
<1> QED BY <1>1 DEF ListsInv

(* One handler moves on, the others stay where they are.                    *)
LEMMA CallsMove ==
  ASSUME TypeOK, CallsInv, PlacesKept, FreshKept, NEW h \in Handlers, NEW c, Goto(h, c),
         CallPlaced(c)', CallFresh(c)'
  PROVE  CallsInv'
<1>1. DOMAIN call = Handlers /\ call' = [call EXCEPT ![h] = c]
  BY DEF TypeOK, CallsType, Goto
<1>2. ASSUME NEW k \in Handlers PROVE CallPlaced(call[k])' /\ CallFresh(call[k])'
  <2>1. CASE k = h
    <3>1. c = call'[k]
      BY <1>1, <2>1
    <3> QED BY <3>1
  <2>2. CASE k # h
    <3>1. PICK x : x = call[k] /\ x = call'[k]
      BY <1>1, <2>2
    <3>2. IsCall(x) /\ CallPlaced(x) /\ CallFresh(x)
      BY <3>1 DEF TypeOK, CallsType, CallsInv
    <3>3. CallPlaced(x)'
      BY <3>2, HoldersKept
    <3>4. CallFresh(x)'
      BY <3>2 DEF CallFresh, FreshKept
    <3> QED BY <3>1, <3>3, <3>4
  <2> QED BY <2>1, <2>2
<1> QED BY <1>2 DEF CallsInv

(* Nobody but the poller moves.                                             *)
LEMMA CallsStay ==
  ASSUME TypeOK, CallsInv, PlacesKept, FreshKept, UNCHANGED call
  PROVE  CallsInv'
<1>1. ASSUME NEW k \in Handlers PROVE CallPlaced(call[k])' /\ CallFresh(call[k])'
  <2>1. PICK x : x = call[k] /\ x = call'[k]
    OBVIOUS
  <2>2. IsCall(x) /\ CallPlaced(x) /\ CallFresh(x)
    BY <2>1 DEF TypeOK, CallsType, CallsInv
  <2>3. CallPlaced(x)'
    BY <2>2, HoldersKept
  <2>4. CallFresh(x)'
    BY <2>2 DEF CallFresh, FreshKept
  <2> QED BY <2>1, <2>3, <2>4
<1> QED BY <1>1 DEF CallsInv

(* The poller stays where it is.                                            *)
LEMMA PollStays ==
  ASSUME TypeOK, PollInv, PlacesKept, FreshKept, UNCHANGED poll
  PROVE  PollInv'
<1>1. ASSUME poll.pc # "idle" PROVE PollPlaced(poll)' /\ PollFresh(poll)'
  <2>1. PICK x : x = poll /\ x = poll'
    OBVIOUS
  <2>2. IsPoll(x) /\ x.pc # "idle" /\ PollPlaced(x) /\ PollFresh(x)
    BY <1>1, <2>1 DEF TypeOK, PollInv
  <2>3. PollPlaced(x)'
    BY <2>2, HoldersKept
  <2>4. PollFresh(x)'
    BY <2>2 DEF PollFresh, FreshKept
  <2> QED BY <2>1, <2>3, <2>4
<1> QED BY <1>1 DEF PollInv

-----------------------------------------------------------------------------
(* Handlers keep listings fresh.                                            *)

(* A handler that holds no folder and no listing.                           *)
Elsewhere(c) == c.pc \notin {"walk", "walked", "fetch", "fetched"}

(* Nothing is asked of it.                                                  *)
LEMMA ElsewhereIsFine == ASSUME NEW c, Elsewhere(c) PROVE CallPlaced(c)' /\ CallFresh(c)'
BY DEF Elsewhere, CallPlaced, CallFresh

(* A handler's step, from what it does to each part.                        *)
LEMMA HandlerKeepsFresh ==
  ASSUME FreshInv, TypeOK', PlacesKept, FreshKept, TreeInv', LogInv', PathsInv', LinksInv', ListsInv',
         UNCHANGED poll, NEW h \in Handlers, NEW c, Goto(h, c), CallPlaced(c)', CallFresh(c)'
  PROVE  FreshInv'
<1>1. CallsInv'
  BY CallsMove DEF FreshInv
<1>2. PollInv'
  BY PollStays DEF FreshInv
<1> QED BY <1>1, <1>2 DEF FreshInv, PlacesInv

(* No listing is stored.                                                    *)
ListsShrink == \A p \in DOMAIN meta'.lists : p \in DOMAIN meta.lists /\ meta'.lists[p] = meta.lists[p]

(* A step that leaves the volume and the paths alone and stores no listing. *)
LEMMA QuietKeepsFresh ==
  ASSUME FreshInv, TypeOK', UNCHANGED <<remoteVars, pathLinks, linkPaths, pollVars>>, ListsShrink,
         NEW h \in Handlers, NEW c, Goto(h, c), CallPlaced(c)', CallFresh(c)'
  PROVE  FreshInv'
<1>1. From' = From /\ UNCHANGED poll
  BY DEF From, pollVars
<1>2. PlacesKept /\ FreshKept /\ TreeInv' /\ LogInv'
  BY <1>1, VolumeKept DEF FreshInv, PlacesInv
<1>3. PathsInv' /\ LinksInv'
  BY <1>2, PathsStay, LinksStay DEF FreshInv, PlacesInv
<1>4. ListsInv'
  BY <1>2, ListsStay DEF FreshInv, ListsShrink
<1> QED BY <1>1, <1>2, <1>3, <1>4, HandlerKeepsFresh

(* What an offline request falls back to is such a place.                   *)
LEMMA OfflineElsewhere == ASSUME NEW c, IsCall(c) PROVE Elsewhere(OfflineFallback(c))
<1>1. Elsewhere(IdleCall)
  BY DEF Elsewhere, IdleCall
<1>2. \A r, o : Elsewhere([c EXCEPT !.pc = "listed", !.resp = r, !.overtaken = o])
  BY DEF Elsewhere, IsCall
<1>3. \A s : Elsewhere([c EXCEPT !.pc = "statted", !.found = s])
  BY DEF Elsewhere, IsCall
<1> QED BY <1>1, <1>2, <1>3 DEF OfflineFallback

(* Steps that only move the handler on, to where it holds no listing.       *)
LEMMA MovesKeepFresh ==
  ASSUME FreshInv, TypeOK', NEW h \in Handlers,
         (\E r \in Requests : Begin(h, r[1], r[2])) \/ GetStat(h) \/ GetList(h) \/ Statted(h)
  PROVE  FreshInv'
<1>1. IsCall(call[h])
  BY DEF FreshInv, TypeOK, CallsType
<1>2. PICK c : c = call[h]
  OBVIOUS
<1>3. UNCHANGED <<remoteVars, meta, mapVars, pollVars>>
  BY DEF Begin, GetStat, GetList, Statted
<1>4. ListsShrink
  BY <1>3 DEF ListsShrink
<1>5. ASSUME NEW x, Elsewhere(x), Goto(h, x) PROVE FreshInv'
  BY <1>3, <1>4, <1>5, QuietKeepsFresh, ElsewhereIsFine DEF mapVars
<1>6. Elsewhere(IdleCall)
  BY DEF Elsewhere, IdleCall
<1>7. /\ \A op, p : Elsewhere([NewCall(op, p) EXCEPT !.pc = "getList", !.dir = p])
      /\ \A op, p, t : Elsewhere([NewCall(op, p) EXCEPT !.pc = "getStat", !.target = t])
  BY DEF NewCall, IdleCall, Elsewhere
<1>8. /\ \A s : Elsewhere([c EXCEPT !.pc = "statted", !.found = s])
      /\ Elsewhere([c EXCEPT !.pc = "rootLink"])
      /\ \A t : Elsewhere([c EXCEPT !.pc = "resolve", !.dir = t])
  BY <1>1, <1>2 DEF IsCall, Elsewhere
<1>9. /\ \A r, o : Elsewhere([c EXCEPT !.pc = "listed", !.resp = r, !.overtaken = o])
      /\ Elsewhere([c EXCEPT !.pc = "resolve", !.after = "fetch"])
      /\ Elsewhere([c EXCEPT !.pc = "create"])
      /\ \A t : Elsewhere([c EXCEPT !.pc = "resolve", !.dir = t, !.after = "remove"])
  BY <1>1, <1>2 DEF IsCall, Elsewhere
<1>10. CASE \E r \in Requests : Begin(h, r[1], r[2])
  BY <1>5, <1>7, <1>10 DEF Begin, ListDir, Stat, Mkdir, Delete
<1>11. CASE GetStat(h)
  BY <1>2, <1>5, <1>8, <1>11 DEF GetStat
<1>12. CASE GetList(h)
  BY <1>2, <1>5, <1>9, <1>12 DEF GetList
<1>13. CASE Statted(h)
  BY <1>2, <1>5, <1>6, <1>9, <1>13 DEF Statted
<1> QED BY <1>10, <1>11, <1>12, <1>13

(* Steps that store a stat, or drop what is cached for a path.              *)
LEMMA StatsKeepFresh ==
  ASSUME FreshInv, TypeOK', NEW h \in Handlers, StatRoot(h) \/ Listed(h) \/ MakeDirDone(h)
  PROVE  FreshInv'
<1>1. IsCall(call[h]) /\ IsMeta(meta)
  BY DEF FreshInv, TypeOK, CallsType
<1>2. PICK c : c = call[h]
  OBVIOUS
<1>3. UNCHANGED <<remoteVars, pathLinks, linkPaths, pollVars>>
  BY DEF StatRoot, Listed, MakeDirDone, mapVars
<1>4. \A p, s, o : SetStat(meta, p, s, o).lists = meta.lists
  BY <1>1 DEF SetStat, IsMeta
<1>5. ASSUME NEW p PROVE \A q \in DOMAIN MetaInvalidatePath(meta, p).lists :
               q \in DOMAIN meta.lists /\ MetaInvalidatePath(meta, p).lists[q] = meta.lists[q]
  <2>1. MetaInvalidatePath(meta, p).lists = meta.lists
        \/ MetaInvalidatePath(meta, p).lists = Drop(meta.lists, {p, Parent(p)})
    BY DEF MetaInvalidatePath
  <2>2. PICK f : f = meta.lists
    OBVIOUS
  <2>3. PICK ks : ks = {p, Parent(p)}
    OBVIOUS
  <2>4. \A q \in DOMAIN Drop(f, ks) : q \in DOMAIN f /\ Drop(f, ks)[q] = f[q]
    BY DropFacts
  <2> QED BY <2>1, <2>2, <2>3, <2>4
<1>6. ListsShrink
  <2>1. \/ meta' = meta \/ (\E p, s, o : meta' = SetStat(meta, p, s, o))
        \/ \E p : meta' = MetaInvalidatePath(meta, p)
    BY DEF StatRoot, Listed, StatNotFound, MakeDirDone
  <2>2. CASE meta'.lists = meta.lists
    BY <2>2 DEF ListsShrink
  <2>3. CASE \E p : meta' = MetaInvalidatePath(meta, p)
    BY <1>5, <2>3 DEF ListsShrink
  <2> QED BY <1>4, <2>1, <2>2, <2>3
<1>7. ASSUME NEW x, Elsewhere(x), Goto(h, x) PROVE FreshInv'
  BY <1>3, <1>6, <1>7, QuietKeepsFresh, ElsewhereIsFine
<1>8. Elsewhere(IdleCall)
  BY DEF Elsewhere, IdleCall
<1>9. /\ \A s : Elsewhere([c EXCEPT !.pc = "statted", !.found = s])
      /\ \A s : Elsewhere([c EXCEPT !.pc = "statted", !.found = s, !.resp = {},
                                    !.after = "getList", !.overtaken = FALSE])
      /\ Elsewhere(OfflineFallback(c))
  BY <1>1, <1>2, OfflineElsewhere DEF IsCall, Elsewhere
<1>10. CASE StatRoot(h)
  BY <1>2, <1>7, <1>9, <1>10 DEF StatRoot
<1>11. CASE Listed(h)
  BY <1>2, <1>7, <1>8, <1>9, <1>11 DEF Listed, StatNotFound
<1>12. CASE MakeDirDone(h)
  BY <1>7, <1>8, <1>12 DEF MakeDirDone
<1> QED BY <1>10, <1>11, <1>12

(* The volume changes under the caches.                                     *)
LEMMA ChangesKeepFresh ==
  ASSUME FreshInv, TypeOK', PlacesKept, FreshKept, TreeInv', LogInv',
         UNCHANGED <<meta, mapVars, pollVars>>
  PROVE  /\ PathsInv' /\ LinksInv' /\ ListsInv' /\ PollInv'
         /\ UNCHANGED call => FreshInv'
<1>1. UNCHANGED <<pathLinks, linkPaths, poll>>
  BY DEF mapVars, pollVars
<1>2. PathsInv' /\ LinksInv' /\ ListsInv' /\ PollInv'
  BY <1>1, PathsStay, LinksStay, ListsStay, PollStays DEF FreshInv, PlacesInv
<1>3. UNCHANGED call => CallsInv'
  BY CallsStay DEF FreshInv
<1> QED BY <1>2, <1>3 DEF FreshInv, PlacesInv

(* Other clients.                                                           *)
LEMMA RemoteKeepsFresh ==
  ASSUME FreshInv, TypeOK', Settled, Remote
  PROVE  FreshInv'
<1>1. PICK l \in RemoteLinks :
         \/ RemoteTrash(l) \/ RemoteDelete(l) \/ RemoteUpdate(l)
         \/ \E d \in Dirs, n \in Names : RemoteCreate(l, d, n) \/ RemoteMove(l, d, n)
  BY DEF Remote
<1>2. l \in Links \ {Root}
  BY RemoteAssumption
<1>3. \E d, n :
        AddLink(l, d, n) \/ TrashLink(l) \/ DeleteLink(l) \/ RemoteUpdate(l) \/ RemoteMove(l, d, n)
  BY <1>1 DEF RemoteTrash, RemoteDelete, RemoteCreate
<1>4. UNCHANGED <<meta, mapVars, pollVars, call, handled, poll, linkPaths>>
  BY DEF Remote, mapVars, pollVars
<1>5. PlacesKept /\ FreshKept /\ TreeInv' /\ LogInv'
  BY <1>2, <1>3, <1>4, SettledOps DEF FreshInv, PlacesInv
<1> QED BY <1>4, <1>5, ChangesKeepFresh

(* What this client asks the server to do.                                  *)
LEMMA WritesKeepFresh ==
  ASSUME FreshInv, TypeOK', Settled, NEW h \in Handlers, CreateFolder(h) \/ RemoveLink(h)
  PROVE  FreshInv'
<1>1. IsCall(call[h]) /\ TreeInv /\ LogInv /\ TypeOK
  BY DEF FreshInv, PlacesInv, TypeOK, CallsType
<1>2. UNCHANGED <<meta, mapVars, pollVars, handled, poll, linkPaths>>
  BY DEF CreateFolder, RemoveLink, mapVars, pollVars
<1>3. PlacesKept /\ FreshKept /\ TreeInv' /\ LogInv'
  <2>1. CASE UNCHANGED remoteVars
    <3>1. From' = From
      BY <1>2 DEF From
    <3> QED BY <1>1, <1>2, <2>1, <3>1, VolumeKept
  <2>2. CASE CreateFolder(h) /\ ~ UNCHANGED remoteVars
    <3>1. PICK l \in Dirs : AddLink(l, call[h].found.id, Last(call[h].arg))
      BY <2>2 DEF CreateFolder
    <3>2. l \in Links \ {Root}
      BY <1>1, <3>1 DEF AddLink, TreeInv, Links
    <3> QED BY <1>1, <1>2, <3>1, <3>2, SettledOps
  <2>3. CASE RemoveLink(h) /\ ~ UNCHANGED remoteVars
    <3>1. PICK l : l = call[h].found.id
      OBVIOUS
    <3>2. l # Root /\ (TrashLink(l) \/ DeleteLink(l))
      BY <2>3, <3>1 DEF RemoveLink
    <3>3. l \in Links
      BY <1>1, <2>3, <3>1 DEF RemoveLink, At, IsCall, Snapshots
    <3> QED BY <1>1, <1>2, <3>2, <3>3, SettledOps
  <2> QED BY <2>1, <2>2, <2>3
<1>4. PathsInv' /\ LinksInv' /\ ListsInv'
  BY <1>2, <1>3, ChangesKeepFresh
<1>5. Elsewhere(IdleCall) /\ Elsewhere([call[h] EXCEPT !.pc = "created"])
  BY <1>1 DEF IsCall, Elsewhere, IdleCall
<1>6. \E c : Elsewhere(c) /\ Goto(h, c)
  BY <1>5 DEF CreateFolder, RemoveLink
<1> QED BY <1>2, <1>3, <1>4, <1>6, ElsewhereIsFine, HandlerKeepsFresh

(* The listing the API gives is the folder's, and its folders are there.    *)
LEMMA ListingsAreFresh ==
  ASSUME NEW l, NEW r \in Listings(l)
  PROVE  l \in Dirs /\ Kids(r, l) /\ Fresh(r, l)
<1>1. l \in Dirs /\ r = Children(l)
  BY DEF Listings
<1>2. ASSUME NEW s \in Children(l)
      PROVE  /\ s.id # Root /\ node[s.id].state = "active"
             /\ node[s.id].parent = l /\ node[s.id].name = s.name
  <2>1. PICK k \in ActiveChildren(l) : s = Snapshot(k)
    BY <1>2 DEF Children
  <2>2. s.id = k /\ s.name = node[k].name
    BY <2>1 DEF Snapshot
  <2> QED BY <2>1, <2>2 DEF ActiveChildren
<1> QED BY <1>1, <1>2 DEF Kids, Fresh

(* A folder is listed by the API, on the way or at the end of a path.       *)
LEMMA ApiListChildrenKeepsFresh ==
  ASSUME FreshInv, TypeOK', NEW h \in Handlers, Walk(h) \/ Fetch(h)
  PROVE  FreshInv'
<1>1. PICK c : c = call[h]
  OBVIOUS
<1>2. IsCall(c) /\ CallPlaced(c) /\ TypeOK /\ TreeInv /\ LogInv
  BY <1>1 DEF FreshInv, PlacesInv, TypeOK, CallsType, CallsInv
<1>3. UNCHANGED <<remoteVars, meta, mapVars, pollVars>>
  BY DEF Walk, Fetch, ApiListChildren
<1>4. ListsShrink
  BY <1>3 DEF ListsShrink
<1>5. From' = From /\ UNCHANGED linkPaths
  BY <1>3 DEF From, pollVars, mapVars
<1>6. PlacesKept /\ FreshKept
  BY <1>2, <1>3, <1>5, VolumeKept
<1>7. ASSUME NEW x, Goto(h, x), Elsewhere(x) \/ (IsCall(x) /\ CallPlaced(x) /\ CallFresh(x)) PROVE FreshInv'
  <2>1. IsCall(x) /\ CallPlaced(x) /\ CallFresh(x) => CallPlaced(x)' /\ CallFresh(x)'
    BY <1>2, <1>6, HoldersKept DEF CallFresh, FreshKept
  <2> QED BY <1>3, <1>4, <1>7, <2>1, QuietKeepsFresh, ElsewhereIsFine DEF mapVars
<1>8. ASSUME NEW r \in Listings(c.link), NEW to,
             (c.pc = "walk" /\ to = "walked") \/ (c.pc = "fetch" /\ to = "fetched"),
             Goto(h, [c EXCEPT !.pc = to, !.resp = r, !.overtaken = FALSE])
      PROVE  FreshInv'
  <2>1. PICK x : x = [c EXCEPT !.pc = to, !.resp = r, !.overtaken = FALSE]
    OBVIOUS
  <2>2. /\ x.pc = to /\ x.resp = r /\ x.link = c.link /\ x.dir = c.dir /\ x.depth = c.depth
    BY <1>2, <2>1 DEF IsCall
  <2>3. c.link \in Dirs /\ Kids(r, c.link) /\ Fresh(r, c.link)
    BY <1>8, ListingsAreFresh
  <2>4. CallPlaced(x) /\ CallFresh(x)
    BY <1>2, <1>8, <2>2, <2>3 DEF CallPlaced, CallFresh
  <2>5. x = call'[h] /\ IsCall(call'[h])
    BY <1>8, <2>1 DEF Goto, FreshInv, TypeOK, CallsType
  <2> QED BY <1>7, <1>8, <2>1, <2>4, <2>5
<1>9. Elsewhere(IdleCall) /\ Elsewhere(OfflineFallback(c))
  BY <1>2, OfflineElsewhere DEF Elsewhere, IdleCall
<1> QED BY <1>1, <1>7, <1>8, <1>9 DEF Walk, Fetch, ApiListChildren, At

(* resolvePath's fast path leads to the folder its path was recorded for.   *)
LEMMA ResolveFastKeepsFresh ==
  ASSUME FreshInv, TypeOK', NEW h \in Handlers, ResolveFast(h)
  PROVE  FreshInv'
<1>1. PICK c : c = call[h]
  OBVIOUS
<1>2. IsCall(c) /\ TypeOK /\ LinksInv
  BY <1>1 DEF FreshInv, PlacesInv, TypeOK, CallsType
<1>3. UNCHANGED <<remoteVars, meta, mapVars, pollVars, pathLinks, linkPaths>>
  BY DEF ResolveFast, mapVars
<1>4. ListsShrink
  BY <1>3 DEF ListsShrink
<1>5. PICK x : x = [c EXCEPT !.pc = c.after, !.link = pathLinks[c.dir]]
  OBVIOUS
<1>6. x.pc = c.after /\ x.link = pathLinks[c.dir] /\ x.dir = c.dir
  BY <1>2, <1>5 DEF IsCall
<1>7. c.after \in {"getList", "fetch", "remove"}
  BY <1>2, CallFields
<1>8. c.dir \in DOMAIN pathLinks
  <2>1. nodeKRs \subseteq Links
    BY <1>2 DEF TypeOK, MapType
  <2> QED BY <1>1, <2>1, LinksAssumption DEF ResolveFast, Lookup
<1>9. x.link \in Dirs => KnownAs(x.link, x.dir)'
  BY <1>2, <1>3, <1>6, <1>8 DEF LinksInv, KnownAs
<1>10. CallPlaced(x)' /\ CallFresh(x)'
  BY <1>6, <1>7, <1>9 DEF CallPlaced, CallFresh
<1>11. Goto(h, x)
  BY <1>1, <1>5 DEF ResolveFast
<1> QED BY <1>3, <1>4, <1>10, <1>11, QuietKeepsFresh

(* The walk starts at the root, whose path is the root path.                *)
LEMMA ResolveStartKeepsFresh ==
  ASSUME FreshInv, TypeOK', NEW h \in Handlers, ResolveStart(h)
  PROVE  FreshInv'
<1>1. PICK c : c = call[h]
  OBVIOUS
<1>2. IsCall(c) /\ TypeOK /\ TreeInv /\ LogInv /\ PathsInv /\ LinksInv /\ ListsInv
  BY <1>1 DEF FreshInv, PlacesInv, TypeOK, CallsType
<1>3. UNCHANGED <<remoteVars, meta, pollVars, node, poll>> /\ From' = From
  BY DEF ResolveStart, remoteVars, pollVars, From
<1>4. /\ DOMAIN linkPaths' = DOMAIN linkPaths \cup {Root} /\ linkPaths'[Root] = RootPath
      /\ \A x \in DOMAIN linkPaths : x # Root => linkPaths'[x] = linkPaths[x]
  <2>1. linkPaths' = Put(linkPaths, Root, RootPath)
    BY DEF ResolveStart
  <2> QED BY <2>1 DEF Put
<1>5. PlacesKept /\ PathsInv'
  <2>1. Placed(Root, RootPath)
    BY <1>2 DEF Placed, TreeInv
  <2>2. ASSUME NEW d \in Dirs \cap DOMAIN linkPaths'
        PROVE  (d \in DOMAIN linkPaths /\ linkPaths'[d] = linkPaths[d]) \/ Placed(d, linkPaths'[d])
    BY <1>4, <2>1
  <2> QED BY <1>2, <1>3, <1>4, <2>2, PathsGrow
<1>6. FreshKept /\ TreeInv' /\ LogInv'
  BY <1>2, <1>3, VolumeKept
<1>7. KnownAs(Root, RootPath)'
  BY <1>4 DEF KnownAs
<1>8. LinksInv'
  <2>1. CASE pathLinks' = Put(pathLinks, RootPath, Root)
    <3>1. /\ DOMAIN pathLinks' = DOMAIN pathLinks \cup {RootPath} /\ pathLinks'[RootPath] = Root
          /\ \A x \in DOMAIN pathLinks : x # RootPath => pathLinks'[x] = pathLinks[x]
      BY <2>1 DEF Put
    <3>2. KnownAs(pathLinks[RootPath], RootPath)'
      BY <1>7, <3>1
    <3>3. ASSUME NEW p \in DOMAIN pathLinks'
          PROVE  \/ p \in DOMAIN pathLinks /\ pathLinks'[p] = pathLinks[p]
                 \/ pathLinks'[p] \in Dirs => KnownAs(pathLinks[p], p)'
      BY <3>1, <3>2
    <3> QED BY <1>2, <1>5, <3>3, LinksStay
  <2>2. CASE UNCHANGED pathLinks
    BY <1>2, <1>5, <2>2, LinksStay
  <2> QED BY <2>1, <2>2 DEF ResolveStart
<1>9. ListsInv'
  BY <1>2, <1>3, <1>5, <1>6, ListsStay
<1>10. ASSUME NEW pc, (pc = c.after /\ c.dir = RootPath) \/ pc = "walk"
       PROVE  LET x == [c EXCEPT !.link = Root, !.depth = 0, !.pc = pc]
              IN  CallPlaced(x)' /\ CallFresh(x)'
  <2>1. PICK x : x = [c EXCEPT !.link = Root, !.depth = 0, !.pc = pc]
    OBVIOUS
  <2>2. x.pc = pc /\ x.link = Root /\ x.depth = 0 /\ x.dir = c.dir
    BY <1>2, <2>1 DEF IsCall
  <2>3. SubSeq(c.dir, 1, 0) = RootPath
    BY <1>2, CallFields DEF RootPath, Paths
  <2>4. pc \notin {"walked", "fetched"} /\ (pc = "fetch" => c.dir = RootPath)
    BY <1>2, <1>10, CallFields
  <2>5. CallPlaced(x)' /\ CallFresh(x)'
    BY <1>7, <2>2, <2>3, <2>4 DEF CallPlaced, CallFresh
  <2> QED BY <2>1, <2>5
<1>11. \E x : Goto(h, x) /\ CallPlaced(x)' /\ CallFresh(x)'
  <2>1. CASE Goto(h, [c EXCEPT !.link = Root, !.depth = 0,
                               !.pc = IF c.dir = RootPath THEN c.after ELSE "walk"])
    <3>1. CASE c.dir = RootPath
      BY <1>10, <2>1, <3>1
    <3>2. CASE c.dir # RootPath
      BY <1>10, <2>1, <3>2
    <3> QED BY <3>1, <3>2
  <2>2. CASE Goto(h, OfflineFallback(c))
    BY <1>2, <2>2, OfflineElsewhere, ElsewhereIsFine
  <2> QED BY <1>1, <2>1, <2>2 DEF ResolveStart
<1> QED BY <1>3, <1>5, <1>6, <1>8, <1>9, <1>11, HandlerKeepsFresh

(* Storing a listing.                                                       *)
LEMMA SetListFacts ==
  ASSUME NEW m, IsMeta(m), NEW p, NEW ls, NEW ov
  PROVE  LET m2 == SetList(m, p, ls, ov)
         IN  /\ DOMAIN m2.lists = DOMAIN m.lists \cup {p}
             /\ m2.lists[p] = [links |-> ls, overtaken |-> ov]
             /\ \A q \in DOMAIN m.lists : q # p => m2.lists[q] = m.lists[q]
<1> DEFINE e == [links |-> ls, overtaken |-> ov]
           m2 == SetList(m, p, ls, ov)
<1>1. m2.lists = Put(m.lists, p, e)
  BY DEF SetList, IsMeta
<1> HIDE DEF e, m2
<1>2. PICK f : f = m.lists
  OBVIOUS
<1>3. /\ DOMAIN Put(f, p, e) = DOMAIN f \cup {p} /\ Put(f, p, e)[p] = e
      /\ \A x \in DOMAIN f : x # p => Put(f, p, e)[x] = f[x]
  BY DEF Put
<1>4. /\ DOMAIN m2.lists = DOMAIN m.lists \cup {p} /\ m2.lists[p] = e
      /\ \A q \in DOMAIN m.lists : q # p => m2.lists[q] = m.lists[q]
  BY <1>1, <1>2, <1>3
<1> QED BY <1>4 DEF e, m2

(* A listing is stored under the path of its folder.                        *)
LEMMA StoreKeepsLists ==
  ASSUME TypeOK, ListsInv, PlacesKept, FreshKept, NEW d \in Dirs, NEW p, NEW ls, NEW ov \in BOOLEAN,
         meta' = SetList(meta, p, ls, ov), KnownAs(d, p), ~ ov => Fresh(ls, d)
  PROVE  ListsInv'
<1>1. PICK e : e = [links |-> ls, overtaken |-> ov]
  OBVIOUS
<1>2. /\ DOMAIN meta'.lists = DOMAIN meta.lists \cup {p} /\ meta'.lists[p] = e
      /\ \A q \in DOMAIN meta.lists : q # p => meta'.lists[q] = meta.lists[q]
  BY <1>1, SetListFacts DEF TypeOK
<1>3. KnownAs(d, p)' /\ (~ ov => Fresh(ls, d)')
  BY PlacesKeptFacts DEF FreshKept
<1>4. e.links = ls /\ e.overtaken = ov
  BY <1>1
<1>5. ListOK(p, e)'
  BY <1>3, <1>4 DEF ListOK
<1>6. ListOK(p, meta.lists[p])'
  BY <1>2, <1>5
<1>7. ASSUME NEW q \in DOMAIN meta'.lists
      PROVE  (q \in DOMAIN meta.lists /\ meta'.lists[q] = meta.lists[q]) \/ ListOK(q, meta.lists[q])'
  BY <1>2, <1>6
<1> QED BY <1>7, ListsStay

(* A fetched listing is stored.                                             *)
LEMMA FetchStoreKeepsFresh ==
  ASSUME FreshInv, TypeOK', NEW h \in Handlers, FetchStore(h)
  PROVE  FreshInv'
<1>1. PICK c : c = call[h]
  OBVIOUS
<1>2. /\ IsCall(c) /\ CallPlaced(c) /\ CallFresh(c) /\ c.pc = "fetched"
      /\ TypeOK /\ TreeInv /\ LogInv /\ PathsInv /\ LinksInv /\ ListsInv
  BY <1>1 DEF FreshInv, PlacesInv, TypeOK, CallsType, CallsInv, FetchStore, At
<1>3. UNCHANGED <<remoteVars, linkPaths, pathLinks, poll>> /\ From' = From
  BY DEF FetchStore, mapVars, pollVars, From
<1>4. PlacesKept /\ FreshKept /\ TreeInv' /\ LogInv'
  BY <1>2, <1>3, VolumeKept
<1>5. PathsInv' /\ LinksInv'
  BY <1>2, <1>3, <1>4, PathsStay, LinksStay
<1>6. ListsInv'
  <2>1. PICK d, p, ls, ov : d = c.link /\ p = c.dir /\ ls = c.resp /\ ov = c.overtaken
    OBVIOUS
  <2>2. d \in Dirs /\ KnownAs(d, p) /\ ov \in BOOLEAN /\ (~ ov => Fresh(ls, d))
    BY <1>2, <2>1, CallFields DEF CallPlaced, CallFresh
  <2>3. meta' = SetList(meta, p, ls, ov)
    BY <1>1, <2>1 DEF FetchStore
  <2> QED BY <1>2, <1>4, <2>2, <2>3, StoreKeepsLists
<1>7. PICK x : x = [c EXCEPT !.pc = "listed"]
  OBVIOUS
<1>8. Elsewhere(x) /\ Goto(h, x)
  BY <1>1, <1>2, <1>7 DEF Elsewhere, IsCall, FetchStore
<1> QED BY <1>3, <1>4, <1>5, <1>6, <1>8, ElsewhereIsFine, HandlerKeepsFresh

(* The next part of a path is appended to the walked ones.                  *)
LEMMA WalkedPathGrows ==
  ASSUME NEW p \in Paths, NEW d \in Nat, d < Len(p)
  PROVE  SubSeq(p, 1, d + 1) = Child(SubSeq(p, 1, d), p[d + 1])
<1>1. Len(p) \in Nat /\ p \in Seq(Names)
  BY LenProperties DEF Paths
<1>2. \A i \in 1 .. d + 1 : p[i] \in Names
  BY <1>1, ElementOfSeq
<1>3. PICK u, v : u = SubSeq(p, 1, d) /\ v = SubSeq(p, 1, d + 1)
  OBVIOUS
<1>4. u \in Seq(Names) /\ Len(u) = d /\ \A i \in 1 .. d : u[i] = p[i]
  <2>1. \A i \in 1 .. d : p[i] \in Names
    BY <1>2
  <2> QED BY <1>3, <2>1, SubSeqProperties
<1>5. v \in Seq(Names) /\ Len(v) = d + 1 /\ \A i \in 1 .. d + 1 : v[i] = p[i]
  BY <1>2, <1>3, SubSeqProperties
<1>6. PICK n \in Names : n = p[d + 1]
  BY <1>2
<1>7. PICK w : w = Append(u, n)
  OBVIOUS
<1>8. w \in Seq(Names) /\ Len(w) = d + 1 /\ w[d + 1] = n /\ \A i \in 1 .. d : w[i] = u[i]
  BY <1>4, <1>7, AppendProperties
<1>9. \A i \in 1 .. d + 1 : v[i] = w[i]
  BY <1>4, <1>5, <1>6, <1>8
<1>10. v = w
  BY <1>5, <1>8, <1>9, SeqEqual
<1> QED BY <1>3, <1>6, <1>7, <1>10 DEF Child

(* One round of resolvePath's loop: the next folder is recorded under the   *)
(* path that its parent's path and its name make.                           *)
LEMMA WalkStepKeepsFresh ==
  ASSUME FreshInv, TypeOK', NEW h \in Handlers, WalkStep(h)
  PROVE  FreshInv'
<1>1. PICK c : c = call[h]
  OBVIOUS
<1>2. /\ IsCall(c) /\ CallPlaced(c) /\ CallFresh(c) /\ c.pc = "walked"
      /\ TypeOK /\ TreeInv /\ LogInv /\ PathsInv /\ LinksInv /\ ListsInv
  BY <1>1 DEF FreshInv, PlacesInv, TypeOK, CallsType, CallsInv, WalkStep, At
<1>3. UNCHANGED <<remoteVars, node, poll>> /\ From' = From
  BY DEF WalkStep, remoteVars, pollVars, From
<1>4. FreshKept /\ TreeInv' /\ LogInv'
  BY <1>2, <1>3, VolumeKept
<1>5. PICK d, ls, ov, here, next :
        /\ d = c.link /\ ls = c.resp /\ ov = c.overtaken
        /\ here = SubSeq(c.dir, 1, c.depth) /\ next = SubSeq(c.dir, 1, c.depth + 1)
  OBVIOUS
<1>6. d \in Dirs /\ KnownAs(d, here) /\ Kids(ls, d) /\ ov \in BOOLEAN /\ (~ ov => Fresh(ls, d))
  BY <1>2, <1>5, CallFields DEF CallPlaced, CallFresh
<1>7. meta' = SetList(meta, here, ls, ov)
  BY <1>1, <1>5 DEF WalkStep
<1>8. PlacesKept => ListsInv'
  BY <1>2, <1>4, <1>6, <1>7, StoreKeepsLists
<1>9. CASE UNCHANGED mapVars /\ Goto(h, IdleCall)
  <2>1. UNCHANGED <<linkPaths, pathLinks>>
    BY <1>9 DEF mapVars
  <2>2. PlacesKept
    BY <1>2, <1>3, <2>1, VolumeKept
  <2>3. PathsInv' /\ LinksInv'
    BY <1>2, <2>1, <2>2, PathsStay, LinksStay
  <2>4. Elsewhere(IdleCall)
    BY DEF Elsewhere, IdleCall
  <2> QED BY <1>3, <1>4, <1>8, <1>9, <2>2, <2>3, <2>4, ElsewhereIsFine, HandlerKeepsFresh
<1>10. ASSUME NEW s \in ls, s.name = c.dir[c.depth + 1], linkPaths' = Put(linkPaths, s.id, next),
              pathLinks' = Put(pathLinks, next, s.id),
              Goto(h, [c EXCEPT !.link = s.id, !.depth = c.depth + 1, !.resp = {}, !.overtaken = FALSE,
                                !.pc = IF next = c.dir THEN c.after ELSE "walk"])
       PROVE  FreshInv'
  <2>1. PICK l : l = s.id
    OBVIOUS
  <2>2. /\ DOMAIN linkPaths' = DOMAIN linkPaths \cup {l} /\ linkPaths'[l] = next
        /\ \A x \in DOMAIN linkPaths : x # l => linkPaths'[x] = linkPaths[x]
    BY <1>10, <2>1 DEF Put
  <2>3. /\ DOMAIN pathLinks' = DOMAIN pathLinks \cup {next} /\ pathLinks'[next] = l
        /\ \A x \in DOMAIN pathLinks : x # next => pathLinks'[x] = pathLinks[x]
    BY <1>10, <2>1 DEF Put
  <2>4. next = Child(here, s.name)
    <3>1. c.dir \in Paths /\ c.depth \in Nat /\ c.depth < Len(c.dir)
      BY <1>2, CallFields DEF IsCall
    <3> QED BY <1>5, <1>10, <3>1, WalkedPathGrows
  <2>5. l \in Dirs => Placed(l, next)
    <3>1. ASSUME l \in Dirs PROVE Placed(l, next)
      <4>1. l # Root /\ node[l].state = "active" /\ node[l].parent = d /\ node[l].name = s.name
        BY <1>6, <2>1, <3>1 DEF Kids
      <4>2. d \in Dirs \cap DOMAIN linkPaths /\ linkPaths[d] = here
        BY <1>6 DEF KnownAs
      <4> QED BY <2>4, <4>1, <4>2 DEF Placed
    <3> QED BY <3>1
  <2>6. PlacesKept /\ PathsInv'
    <3>1. ASSUME NEW k \in Dirs \cap DOMAIN linkPaths'
          PROVE  (k \in DOMAIN linkPaths /\ linkPaths'[k] = linkPaths[k]) \/ Placed(k, linkPaths'[k])
      BY <2>2, <2>5
    <3> QED BY <1>2, <1>3, <2>2, <3>1, PathsGrow
  <2>7. KnownAs(l, next)'
    BY <2>2 DEF KnownAs
  <2>8. LinksInv'
    <3>1. KnownAs(pathLinks[next], next)'
      BY <2>3, <2>7
    <3>2. ASSUME NEW p \in DOMAIN pathLinks'
          PROVE  \/ p \in DOMAIN pathLinks /\ pathLinks'[p] = pathLinks[p]
                 \/ pathLinks'[p] \in Dirs => KnownAs(pathLinks[p], p)'
      BY <2>3, <3>1
    <3> QED BY <1>2, <2>6, <3>2, LinksStay
  <2>9. PICK x : x = [c EXCEPT !.link = s.id, !.depth = c.depth + 1, !.resp = {}, !.overtaken = FALSE,
                               !.pc = IF next = c.dir THEN c.after ELSE "walk"]
    OBVIOUS
  <2>10. /\ x.pc = (IF next = c.dir THEN c.after ELSE "walk") /\ x.link = l /\ x.depth = c.depth + 1
         /\ x.dir = c.dir
    BY <1>2, <2>1, <2>9 DEF IsCall
  <2>11. x.pc \notin {"walked", "fetched"} /\ (x.pc = "fetch" => x.dir = next)
    BY <1>2, <2>10, CallFields
  <2>12. next = SubSeq(x.dir, 1, x.depth)
    BY <1>5, <2>10
  <2>13. CallPlaced(x)' /\ CallFresh(x)'
    BY <2>7, <2>10, <2>11, <2>12 DEF CallPlaced, CallFresh
  <2>14. Goto(h, x)
    BY <1>10, <2>9
  <2> QED BY <1>3, <1>4, <1>8, <2>6, <2>8, <2>13, <2>14, HandlerKeepsFresh
<1>11. \/ UNCHANGED mapVars /\ Goto(h, IdleCall)
       \/ \E s \in ls :
            /\ s.name = c.dir[c.depth + 1] /\ linkPaths' = Put(linkPaths, s.id, next)
            /\ pathLinks' = Put(pathLinks, next, s.id)
            /\ Goto(h, [c EXCEPT !.link = s.id, !.depth = c.depth + 1, !.resp = {}, !.overtaken = FALSE,
                                 !.pc = IF next = c.dir THEN c.after ELSE "walk"])
  BY <1>1, <1>5 DEF WalkStep
<1> QED BY <1>9, <1>10, <1>11

-----------------------------------------------------------------------------
(* The poller keeps listings fresh.                                         *)

(* A map with some of another's entries.                                    *)
Part(f, g) == \A x \in DOMAIN f : x \in DOMAIN g /\ f[x] = g[x]

(* Deleting from a map leaves such a part of it.                            *)
LEMMA DropIsPart ==
  ASSUME NEW f, NEW ks
  PROVE  Part(Drop(f, ks), f) /\ \A k \in ks : k \notin DOMAIN Drop(f, ks)
BY DEF Drop, Restrict, Part

(* Forgetting a path or a link only takes entries out.                      *)
LEMMA ForgetIsPart ==
  ASSUME NEW pl, NEW p, NEW l
  PROVE  Part(ForgetPath(pl, p), pl) /\ Part(ForgetLink(pl, l), pl)
<1>1. Part(ForgetLink(pl, l), pl)
  BY DropIsPart DEF ForgetLink
<1>2. ForgetPath(pl, p) = EmptyMap \/ \E ks : ForgetPath(pl, p) = Drop(pl, ks)
  BY DEF ForgetPath
<1>3. Part(EmptyMap, pl)
  BY DEF EmptyMap, Part
<1> QED BY <1>1, <1>2, <1>3, DropIsPart

(* Twice as well as once.                                                   *)
LEMMA PartOfPart ==
  ASSUME NEW f, NEW g, NEW k, Part(f, g), Part(g, k)
  PROVE  Part(f, k)
BY DEF Part

(* Invalidating takes listings out, the path's own among them.              *)
LEMMA InvalidateIsPart ==
  ASSUME NEW m, NEW p, NEW l
  PROVE  /\ Part(MetaInvalidatePath(m, p).lists, m.lists)
         /\ p # NoPath => p \notin DOMAIN MetaInvalidatePath(m, p).lists
         /\ \A m2 \in MetaInvalidateLinkID(m, l) : Part(m2.lists, m.lists)
<1>1. Part(m.lists, m.lists)
  BY DEF Part
<1>2. ASSUME NEW q
      PROVE  /\ Part(MetaInvalidatePath(m, q).lists, m.lists)
             /\ q # NoPath => q \notin DOMAIN MetaInvalidatePath(m, q).lists
  <2>1. PICK ks : ks = {q, Parent(q)}
    OBVIOUS
  <2>2. CASE q = NoPath
    BY <1>1, <2>2 DEF MetaInvalidatePath
  <2>3. CASE q # NoPath
    <3>1. MetaInvalidatePath(m, q).lists = Drop(m.lists, ks)
      BY <2>1, <2>3 DEF MetaInvalidatePath
    <3>2. PICK f : f = m.lists
      OBVIOUS
    <3>3. Part(Drop(f, ks), f) /\ q \notin DOMAIN Drop(f, ks)
      BY <2>1, DropIsPart
    <3> QED BY <3>1, <3>2, <3>3
  <2> QED BY <2>2, <2>3
<1>3. \A m2 \in MetaInvalidateLinkID(m, l) : m2 = m \/ \E q : m2 = MetaInvalidatePath(m, q)
  BY DEF MetaInvalidateLinkID
<1> QED BY <1>1, <1>2, <1>3

(* What linkPath() answers.                                                 *)
LEMMA LinkPathFacts ==
  ASSUME TypeOK, NEW l
  PROVE  /\ LinkPath(l) # NoPath => l \in Links /\ KnownAs(l, LinkPath(l))
         /\ \A p : KnownAs(l, p) => p = LinkPath(l) /\ p # NoPath
<1>1. l \in DOMAIN linkPaths => l \in Links /\ linkPaths[l] \in Paths
  BY DEF TypeOK, MapType, Range
<1> QED BY <1>1, NoPathAssumption DEF LinkPath, Lookup, KnownAs

(* The poller begins with an event: answers on their way are overtaken.     *)
LEMMA OvertakeKeepsPlaces ==
  ASSUME TypeOK, CallsInv, PlacesKept, Overtake
  PROVE  CallsInv'
<1>1. ASSUME NEW k \in Handlers PROVE CallPlaced(call[k])' /\ CallFresh(call[k])'
  <2>1. PICK c : c = call[k]
    OBVIOUS
  <2>2. IsCall(c) /\ CallPlaced(c)
    BY <2>1 DEF TypeOK, CallsType, CallsInv
  <2>3. CallPlaced(c)'
    BY <2>2, HoldersKept
  <2>4. CASE c.pc \in {"walked", "fetched", "listed"}
    <3>1. PICK x : x = [c EXCEPT !.overtaken = TRUE]
      OBVIOUS
    <3>2. x = call'[k]
      BY <2>1, <2>4, <3>1 DEF Overtake
    <3>3. x.overtaken /\ x.pc = c.pc /\ x.link = c.link /\ x.dir = c.dir /\ x.depth = c.depth /\ x.resp = c.resp
      BY <2>2, <3>1 DEF IsCall
    <3>4. CallPlaced(x)' /\ CallFresh(x)'
      BY <2>3, <3>3 DEF CallPlaced, CallFresh
    <3> QED BY <3>2, <3>4
  <2>5. CASE c.pc \notin {"walked", "fetched", "listed"}
    <3>1. c = call'[k]
      BY <2>1, <2>5 DEF Overtake
    <3>2. CallFresh(c)'
      BY <2>5 DEF CallFresh
    <3> QED BY <2>3, <3>1, <3>2
  <2> QED BY <2>4, <2>5
<1> QED BY <1>1 DEF CallsInv

(* The event's own folder loses its listing, the others keep theirs fresh.  *)
LEMMA HandlingKeepsLists ==
  ASSUME TypeOK, ListsInv, PlacesKept, UNCHANGED remoteVars, handled < Len(log), poll.pc = "idle",
         From' = handled + 2, Part(meta'.lists, meta.lists), NEW e, e = log[handled + 1],
         e.type = "delete" \/ \A p \in DOMAIN meta'.lists : ~ KnownAs(e.parent, p)
  PROVE  ListsInv'
<1>1. node' = node /\ log' = log
  BY DEF remoteVars
<1>2. PICK n \in Nat, m \in Nat : n = Len(log) /\ m = handled /\ m < n
  BY LenProperties DEF TypeOK, RemoteType
<1>3. From = m + 1 /\ From' = m + 2
  BY <1>2 DEF From
<1>4. ASSUME NEW d, e.type = "delete" \/ e.parent # d, Pending(d) PROVE Pending(d)'
  <2>1. PICK i \in m + 1 .. n : log[i].parent = d /\ log[i].type # "delete"
    BY <1>2, <1>3, <1>4 DEF Pending
  <2>2. i # m + 1
    BY <1>2, <1>4, <2>1
  <2>3. i \in m + 2 .. n
    BY <2>2
  <2> QED BY <1>1, <1>2, <1>3, <2>1, <2>3 DEF Pending
<1>5. \A d : Children(d)' = Children(d)
  BY <1>1 DEF Children, ActiveChildren, Snapshot
<1>6. ASSUME NEW p \in DOMAIN meta'.lists PROVE ListOK(p, meta.lists[p])'
  <2>1. PICK x : x = meta'.lists[p]
    OBVIOUS
  <2>2. ListOK(p, x)
    BY <2>1 DEF ListsInv, Part
  <2>3. ASSUME NEW d \in Dirs, KnownAs(d, p), Fresh(x.links, d) PROVE KnownAs(d, p)' /\ Fresh(x.links, d)'
    <3>1. KnownAs(d, p)'
      BY <2>3, PlacesKeptFacts
    <3>2. e.type = "delete" \/ e.parent # d
      BY <2>3
    <3> QED BY <1>4, <1>5, <2>3, <3>1, <3>2 DEF Fresh
  <2>4. ListOK(p, x)'
    BY <2>2, <2>3 DEF ListOK
  <2> QED BY <2>1, <2>4
<1> QED BY <1>6 DEF ListsInv

(* An announced link is recorded under its folder's path and its name.      *)
LEMMA AnnouncedIsPlaced ==
  ASSUME TypeOK, TreeInv, PathsInv, UNCHANGED node, NEW e \in Events, IsHere(e), NEW pp,
         e.parent \in Dirs, KnownAs(e.parent, pp), linkPaths' = Put(linkPaths, e.link, Child(pp, e.name))
  PROVE  PlacesKept /\ PathsInv'
<1>1. PICK l, p : l \in Links /\ l = e.link /\ p = Child(pp, e.name)
  BY DEF Events
<1>2. /\ DOMAIN linkPaths' = DOMAIN linkPaths \cup {l} /\ linkPaths'[l] = p
      /\ \A x \in DOMAIN linkPaths : x # l => linkPaths'[x] = linkPaths[x]
  BY <1>1 DEF Put
<1>3. ASSUME l \in Dirs PROVE Placed(l, p)
  <2>1. l # Root /\ node[l].state # "absent" /\ node[l].parent = e.parent /\ node[l].name = e.name
    BY <1>1 DEF IsHere
  <2>2. node[l].state = "active"
    BY <1>3, <2>1 DEF TreeInv
  <2>3. e.parent \in Dirs \cap DOMAIN linkPaths /\ linkPaths[e.parent] = pp
    BY DEF KnownAs
  <2> QED BY <1>1, <2>1, <2>2, <2>3 DEF Placed
<1>4. ASSUME NEW k \in Dirs \cap DOMAIN linkPaths'
      PROVE  (k \in DOMAIN linkPaths /\ linkPaths'[k] = linkPaths[k]) \/ Placed(k, linkPaths'[k])
  BY <1>2, <1>3
<1> QED BY <1>2, <1>4, PathsGrow

(* The event about to be handled, and what linkPath() says of its folder.   *)
LEMMA EventIsHere ==
  ASSUME FreshInv, handled < Len(log)
  PROVE  LET e == log[handled + 1]
         IN  /\ e \in Events /\ IsHere(e)
             /\ LinkPath(e.parent) # NoPath => e.parent \in Dirs /\ KnownAs(e.parent, LinkPath(e.parent))
             /\ LinkPath(e.link) # NoPath => KnownAs(e.link, LinkPath(e.link))
<1>1. PICK e \in Events : e = log[handled + 1]
  BY EventHandled DEF FreshInv, TypeOK
<1>2. IsHere(e)
  <2>1. handled + 1 \in 1 .. Len(log)
    BY LenProperties DEF FreshInv, TypeOK, RemoteType
  <2> QED BY <1>1, <2>1 DEF FreshInv, PlacesInv, LogInv
<1>3. e.parent \in Dirs \cup {NoLink}
  BY DEF Events
<1>4. LinkPath(e.parent) # NoPath => e.parent \in Dirs /\ KnownAs(e.parent, LinkPath(e.parent))
  BY <1>3, LinkPathFacts, LinksAssumption DEF FreshInv
<1>5. LinkPath(e.link) # NoPath => KnownAs(e.link, LinkPath(e.link))
  BY LinkPathFacts DEF FreshInv
<1> QED BY <1>1, <1>2, <1>4, <1>5

(* The poller begins with an event, from what it does to each part.         *)
LEMMA HandlingKeepsFresh ==
  ASSUME FreshInv, TypeOK', UNCHANGED remoteVars, handled < Len(log), poll.pc = "idle", Overtake,
         PlacesKept, PathsInv', Part(pathLinks', pathLinks),
         From' = handled + 2, Part(meta'.lists, meta.lists), NEW e, e = log[handled + 1],
         e.type = "delete" \/ LinkPath(e.parent) = NoPath \/ LinkPath(e.parent) \notin DOMAIN meta'.lists,
         PollInv'
  PROVE  FreshInv'
<1>1. TypeOK /\ TreeInv /\ LogInv /\ LinksInv /\ CallsInv /\ ListsInv
  BY DEF FreshInv, PlacesInv
<1>2. TreeInv' /\ LogInv'
  BY <1>1, VolumeKept
<1>3. LinksInv'
  BY <1>1, LinksStay DEF Part
<1>4. CallsInv'
  BY <1>1, OvertakeKeepsPlaces
<1>5. \A p : KnownAs(e.parent, p) => p = LinkPath(e.parent) /\ p # NoPath
  BY <1>1, LinkPathFacts
<1>6. ListsInv'
  BY <1>1, <1>5, HandlingKeepsLists
<1> QED BY <1>2, <1>3, <1>4, <1>6 DEF FreshInv, PlacesInv

(* A delete event: its link is in the trash already, or unknown here.       *)
LEMMA HandleDeleteKeepsFresh ==
  ASSUME FreshInv, TypeOK', HandleDelete
  PROVE  FreshInv'
<1>1. PICK e : e = log[handled + 1]
  OBVIOUS
<1>2. /\ poll.pc = "idle" /\ handled < Len(log) /\ e.type = "delete" /\ Overtake
      /\ UNCHANGED <<remoteVars, linkPaths>>
  BY <1>1 DEF HandleDelete, Handling
<1>3. TypeOK /\ TreeInv /\ LogInv /\ PathsInv
  BY DEF FreshInv, PlacesInv
<1>4. PlacesKept
  BY <1>2, <1>3, VolumeKept
<1>5. PathsInv'
  BY <1>2, <1>3, <1>4, PathsStay
<1>6. poll'.pc = "idle" /\ handled' = handled + 1
  BY DEF HandleDelete, HandleDone, IdlePoll
<1>7. From' = handled + 2 /\ PollInv'
  BY <1>3, <1>6 DEF From, PollInv, TypeOK, RemoteType
<1>8. Part(meta'.lists, meta.lists)
  <2>1. \/ \E p : meta' = MetaInvalidatePath(meta, p)
        \/ \E l : meta' \in MetaInvalidateLinkID(meta, l)
    BY DEF HandleDelete
  <2> QED BY <2>1, InvalidateIsPart
<1>9. Part(pathLinks', pathLinks)
  <2>1. \/ \E p : pathLinks' = ForgetPath(pathLinks, p)
        \/ \E p, l : pathLinks' = ForgetLink(ForgetPath(pathLinks, p), l)
    BY DEF HandleDelete
  <2> QED BY <2>1, ForgetIsPart, PartOfPart
<1> QED BY <1>1, <1>2, <1>4, <1>5, <1>7, <1>8, <1>9, HandlingKeepsFresh

(* A create event: its folder's listing is dropped.                         *)
LEMMA HandleCreateKeepsFresh ==
  ASSUME FreshInv, TypeOK', HandleCreate
  PROVE  FreshInv'
<1>1. PICK e, pp : e = log[handled + 1] /\ pp = LinkPath(e.parent)
  OBVIOUS
<1>2. poll.pc = "idle" /\ handled < Len(log) /\ Overtake /\ UNCHANGED <<remoteVars, node>>
  BY DEF HandleCreate, Handling, remoteVars
<1>3. TypeOK /\ TreeInv /\ LogInv /\ PathsInv
  BY DEF FreshInv, PlacesInv
<1>4. e \in Events /\ IsHere(e) /\ (pp # NoPath => e.parent \in Dirs /\ KnownAs(e.parent, pp))
  BY <1>1, <1>2, EventIsHere
<1>5. PlacesKept /\ PathsInv'
  <2>1. \/ UNCHANGED linkPaths
        \/ pp # NoPath /\ linkPaths' = Put(linkPaths, e.link, Child(pp, e.name))
    BY <1>1 DEF HandleCreate, AnnounceCreated
  <2>2. CASE UNCHANGED linkPaths
    <3>1. PlacesKept
      BY <1>2, <1>3, <2>2, VolumeKept
    <3> QED BY <1>3, <2>2, <3>1, PathsStay
  <2>3. CASE pp # NoPath /\ linkPaths' = Put(linkPaths, e.link, Child(pp, e.name))
    BY <1>2, <1>3, <1>4, <2>3, AnnouncedIsPlaced
  <2> QED BY <2>1, <2>2, <2>3
<1>6. Part(meta'.lists, meta.lists) /\ (pp = NoPath \/ pp \notin DOMAIN meta'.lists)
  <2>1. \/ pp # NoPath /\ meta' = MetaInvalidatePath(meta, pp)
        \/ pp = NoPath /\ \E l : meta' \in MetaInvalidateLinkID(meta, l)
    BY <1>1 DEF HandleCreate
  <2> QED BY <2>1, InvalidateIsPart
<1>7. Part(pathLinks', pathLinks)
  <2>1. \/ \E p : pathLinks' = ForgetPath(pathLinks, p)
        \/ \E l : pathLinks' = ForgetLink(pathLinks, l)
    BY DEF HandleCreate
  <2> QED BY <2>1, ForgetIsPart
<1>8. From' = handled + 2 /\ PollInv'
  <2>1. CASE \E es : HandleDone(es)
    <3>1. poll'.pc = "idle" /\ handled' = handled + 1
      BY <2>1 DEF HandleDone, IdlePoll
    <3> QED BY <1>3, <3>1 DEF From, PollInv, TypeOK, RemoteType
  <2>2. CASE /\ pp # NoPath /\ UNCHANGED handled
             /\ poll' = [pc |-> "createName", ev |-> e, path |-> NoPath, parentPath |-> pp,
                         old |-> {}, oldParent |-> OldList(pp), resp |-> {}]
    <3>1. PICK q : q = poll'
      OBVIOUS
    <3>2. q.pc = "createName" /\ q.ev = e /\ q.path = NoPath /\ q.parentPath = pp
      BY <2>2, <3>1
    <3>3. IsHere(e)' /\ KnownAs(e.parent, pp)'
      BY <1>3, <1>4, <1>5, <2>2, PlacesKeptFacts
    <3>4. PollPlaced(q)' /\ PollFresh(q)'
      BY <1>4, <2>2, <3>2, <3>3 DEF PollPlaced, PollFresh
    <3>5. PollInv'
      BY <3>1, <3>4 DEF PollInv
    <3>6. From' = handled + 2
      BY <2>2, <3>1, <3>2 DEF From
    <3> QED BY <3>5, <3>6
  <2> QED BY <1>1, <2>1, <2>2 DEF HandleCreate, AnnounceCreated
<1> QED BY <1>1, <1>2, <1>5, <1>6, <1>7, <1>8, HandlingKeepsFresh

(* An update event: its folder's listing is dropped.                        *)
LEMMA HandleUpdateKeepsFresh ==
  ASSUME FreshInv, TypeOK', HandleUpdate
  PROVE  FreshInv'
<1>1. PICK e, own, pp : e = log[handled + 1] /\ own = LinkPath(e.link) /\ pp = LinkPath(e.parent)
  OBVIOUS
<1>2. /\ poll.pc = "idle" /\ handled < Len(log) /\ Overtake
      /\ UNCHANGED <<remoteVars, linkPaths, handled>>
  BY DEF HandleUpdate, Handling
<1>3. TypeOK /\ TreeInv /\ LogInv /\ PathsInv
  BY DEF FreshInv, PlacesInv
<1>4. /\ e \in Events /\ IsHere(e) /\ (pp # NoPath => e.parent \in Dirs /\ KnownAs(e.parent, pp))
      /\ (own # NoPath => KnownAs(e.link, own))
  BY <1>1, <1>2, EventIsHere
<1>5. PlacesKept
  BY <1>2, <1>3, VolumeKept
<1>6. PathsInv'
  BY <1>2, <1>3, <1>5, PathsStay
<1>7. Part(meta'.lists, meta.lists) /\ (pp = NoPath \/ pp \notin DOMAIN meta'.lists)
  <2>1. PICK m1, m2 : m1 = MetaInvalidatePath(meta, own) /\ m2 = MetaInvalidatePath(m1, pp)
    OBVIOUS
  <2>2. meta' = m2 \/ \E l : meta' \in MetaInvalidateLinkID(m2, l)
    BY <1>1, <2>1 DEF HandleUpdate
  <2>3. Part(m1.lists, meta.lists) /\ Part(m2.lists, m1.lists)
        /\ (pp # NoPath => pp \notin DOMAIN m2.lists)
    BY <2>1, InvalidateIsPart
  <2>4. Part(meta'.lists, m2.lists)
    BY <2>2, InvalidateIsPart DEF Part
  <2>5. Part(m2.lists, meta.lists)
    BY <2>3, PartOfPart
  <2>6. Part(meta'.lists, meta.lists)
    BY <2>4, <2>5, PartOfPart
  <2>7. pp # NoPath => pp \notin DOMAIN meta'.lists
    BY <2>3, <2>4 DEF Part
  <2> QED BY <2>6, <2>7
<1>8. Part(pathLinks', pathLinks)
  <2>1. PICK f1, f2 : /\ f1 = ForgetPath(pathLinks, own)
                      /\ f2 = IF pp = NoPath THEN f1 ELSE ForgetPath(f1, pp)
    OBVIOUS
  <2>2. pathLinks' = f2 \/ \E l : pathLinks' = ForgetLink(f2, l)
    BY <1>1, <2>1 DEF HandleUpdate
  <2>3. Part(f1, pathLinks) /\ Part(f1, f1)
    BY <2>1, ForgetIsPart DEF Part
  <2>4. Part(f2, f1)
    BY <2>1, <2>3, ForgetIsPart
  <2>5. Part(f2, pathLinks)
    BY <2>3, <2>4, PartOfPart
  <2>6. pathLinks' = f2 \/ Part(pathLinks', f2)
    BY <2>2, ForgetIsPart
  <2> QED BY <2>5, <2>6, PartOfPart
<1>9. From' = handled + 2 /\ PollInv'
  <2>1. PICK o1, o2 : o1 = OldList(own) /\ o2 = OldList(pp)
    OBVIOUS
  <2>2. PICK q : q = [pc |-> "begin", ev |-> e, path |-> own, parentPath |-> pp, old |-> o1,
                      oldParent |-> o2, resp |-> {}]
    OBVIOUS
  <2>3. poll' = StageFrom(q, 1)
    BY <1>1, <2>1, <2>2 DEF HandleUpdate
  <2>4. \E st \in {"diffOwn", "diffParent", "checkTrash", "changed"} :
          StageFrom(q, 1) = [q EXCEPT !.pc = st, !.resp = {}]
    <3>1. o1 \in SUBSET SUBSET Snapshots /\ o2 \in SUBSET SUBSET Snapshots
          /\ own \in Paths \cup {NoPath} /\ pp \in Paths \cup {NoPath}
      BY <1>1, <1>3, <2>1, LookupsTyped
    <3>2. q \in [pc : PollPcs \cup {"begin"}, ev : Events, path : Paths \cup {NoPath},
                parentPath : Paths \cup {NoPath}, old : SUBSET SUBSET Snapshots,
                oldParent : SUBSET SUBSET Snapshots, resp : SUBSET Snapshots]
      BY <1>4, <2>2, <3>1
    <3>3. 1 \in 1 .. 4
      OBVIOUS
    <3> QED BY <3>2, <3>3, StageFromIsPoll, Zenon
  <2>5. PICK st, x : /\ st \in {"diffOwn", "diffParent", "checkTrash", "changed"}
                    /\ x = poll' /\ x = [q EXCEPT !.pc = st, !.resp = {}]
    BY <2>3, <2>4
  <2>6. x.pc = st /\ x.ev = e /\ x.path = own /\ x.parentPath = pp
    BY <2>2, <2>5
  <2>7. /\ IsHere(e)' /\ (pp # NoPath => e.parent \in Dirs /\ KnownAs(e.parent, pp)')
        /\ (own # NoPath /\ e.link \in Dirs => KnownAs(e.link, own)')
    BY <1>3, <1>4, <1>5, PlacesKeptFacts
  <2>8. PollPlaced(x)' /\ PollFresh(x)'
    BY <2>5, <2>6, <2>7 DEF PollPlaced, PollFresh
  <2>9. PollInv'
    BY <2>5, <2>8 DEF PollInv
  <2>10. From' = handled + 2
    BY <1>2, <2>5, <2>6 DEF From
  <2> QED BY <2>9, <2>10
<1> QED BY <1>1, <1>2, <1>5, <1>6, <1>7, <1>8, <1>9, HandlingKeepsFresh

(* handle() goes on or ends: nothing more has been invalidated.             *)
LEMMA PollGoesOn ==
  ASSUME TypeOK, poll.pc # "idle",
         (\E es : HandleDone(es)) \/ (UNCHANGED handled /\ poll'.pc # "idle")
  PROVE  From' = From /\ ((\E es : HandleDone(es)) => PollInv')
<1>1. handled \in Nat
  BY LenProperties DEF TypeOK, RemoteType
<1>2. CASE \E es : HandleDone(es)
  <2>1. poll'.pc = "idle" /\ handled' = handled + 1
    BY <1>2 DEF HandleDone, IdlePoll
  <2> QED BY <1>1, <2>1 DEF From, PollInv
<1>3. CASE UNCHANGED handled /\ poll'.pc # "idle"
  <2>1. ~ \E es : HandleDone(es)
    BY <1>3 DEF HandleDone, IdlePoll
  <2> QED BY <1>3, <2>1 DEF From
<1> QED BY <1>2, <1>3

(* A later step of handle(), from what it does to each part.                *)
LEMMA PollerKeepsFresh ==
  ASSUME FreshInv, TypeOK', UNCHANGED <<remoteVars, pathLinks, call>>, From' = From,
         PlacesKept, PathsInv', ListsInv', PollInv'
  PROVE  FreshInv'
<1>1. TypeOK /\ TreeInv /\ LogInv /\ LinksInv /\ CallsInv
  BY DEF FreshInv, PlacesInv
<1>2. FreshKept /\ TreeInv' /\ LogInv'
  BY <1>1, VolumeKept
<1>3. LinksInv' /\ CallsInv'
  BY <1>1, <1>2, LinksStay, CallsStay
<1> QED BY <1>2, <1>3 DEF FreshInv, PlacesInv

(* The next attempt is about the same event.                                *)
LEMMA NextStageKept ==
  ASSUME FreshInv, poll.pc # "idle", PlacesKept, NEW i \in 1 .. 4, poll' = StageFrom(poll, i)
  PROVE  PollInv' /\ poll'.pc # "idle"
<1>1. PICK q : q = poll
  OBVIOUS
<1>2. /\ q \in [pc : PollPcs, ev : Events, path : Paths \cup {NoPath},
               parentPath : Paths \cup {NoPath}, old : SUBSET SUBSET Snapshots,
               oldParent : SUBSET SUBSET Snapshots, resp : SUBSET Snapshots]
      /\ IsPoll(q) /\ PollPlaced(q) /\ TypeOK
  BY <1>1, PollFields DEF FreshInv, TypeOK, PollInv
<1>3. q \in [pc : PollPcs \cup {"begin"}, ev : Events, path : Paths \cup {NoPath},
             parentPath : Paths \cup {NoPath}, old : SUBSET SUBSET Snapshots,
             oldParent : SUBSET SUBSET Snapshots, resp : SUBSET Snapshots]
  BY <1>2
<1>4. \E st \in {"diffOwn", "diffParent", "checkTrash", "changed"} :
        StageFrom(q, i) = [q EXCEPT !.pc = st, !.resp = {}]
  BY <1>3, StageFromIsPoll, Zenon
<1>5. PICK st, x : /\ st \in {"diffOwn", "diffParent", "checkTrash", "changed"}
                  /\ x = poll' /\ x = [q EXCEPT !.pc = st, !.resp = {}]
  BY <1>1, <1>4
<1>6. x.pc = st /\ x.ev = q.ev /\ x.path = q.path /\ x.parentPath = q.parentPath
  BY <1>2, <1>5
<1>7. PollPlaced(q)'
  BY <1>1, <1>2, HoldersKept
<1>8. PollPlaced(x)' /\ PollFresh(x)'
  BY <1>5, <1>6, <1>7 DEF PollPlaced, PollFresh
<1> QED BY <1>5, <1>6, <1>8 DEF PollInv

(* A new link's name is asked for, and its path recorded.                   *)
LEMMA CreateNameKeepsFresh ==
  ASSUME FreshInv, TypeOK', CreateName
  PROVE  FreshInv'
<1>1. poll.pc = "createName" /\ UNCHANGED <<remoteVars, node, meta, pathLinks, call>>
  BY DEF CreateName, remoteVars
<1>2. TypeOK /\ TreeInv /\ LogInv /\ PathsInv /\ ListsInv /\ PollPlaced(poll)
  BY <1>1 DEF FreshInv, PlacesInv, PollInv
<1>3. CASE UNCHANGED <<linkPaths, handled>> /\ poll' = StageFrom(poll, 2)
  <2>1. PlacesKept
    BY <1>1, <1>2, <1>3, VolumeKept
  <2>2. PathsInv'
    BY <1>2, <1>3, <2>1, PathsStay
  <2>3. PollInv' /\ poll'.pc # "idle"
    BY <1>1, <1>3, <2>1, NextStageKept
  <2>4. From' = From
    BY <1>1, <1>2, <1>3, <2>3, PollGoesOn
  <2>5. FreshKept
    BY <1>1, <1>2, <2>4, VolumeKept
  <2>6. ListsInv'
    BY <1>1, <1>2, <2>1, <2>5, ListsStay
  <2> QED BY <1>1, <2>1, <2>2, <2>3, <2>4, <2>6, PollerKeepsFresh
<1>4. CASE AnnounceCreated(poll.ev.link, Child(poll.parentPath, node[poll.ev.link].name))
  <2>1. PICK e, pp : e = poll.ev /\ pp = poll.parentPath
    OBVIOUS
  <2>2. e \in Events /\ pp \in Paths
    BY <1>1, <1>2, <2>1, PollFields
  <2>3. IsHere(e) /\ e.parent \in Dirs /\ KnownAs(e.parent, pp)
    BY <1>2, <2>1, <2>2, NoPathAssumption DEF PollPlaced
  <2>4. linkPaths' = Put(linkPaths, e.link, Child(pp, e.name))
    BY <1>4, <2>1, <2>3 DEF AnnounceCreated, IsHere
  <2>5. PlacesKept /\ PathsInv'
    BY <1>1, <1>2, <2>2, <2>3, <2>4, AnnouncedIsPlaced
  <2>6. \E es : HandleDone(es)
    BY <1>4 DEF AnnounceCreated
  <2>7. From' = From /\ PollInv'
    BY <1>1, <1>2, <2>6, PollGoesOn
  <2>8. FreshKept
    BY <1>1, <1>2, <2>7, VolumeKept
  <2>9. ListsInv'
    BY <1>1, <1>2, <2>5, <2>8, ListsStay
  <2> QED BY <1>1, <2>5, <2>7, <2>9, PollerKeepsFresh
<1> QED BY <1>3, <1>4 DEF CreateName

(* A folder is listed again, to compare.                                    *)
LEMMA DiffFetchKeepsFresh ==
  ASSUME FreshInv, TypeOK', DiffOwn \/ DiffParent
  PROVE  FreshInv'
<1>1. poll.pc \in {"diffOwn", "diffParent"} /\ UNCHANGED <<remoteVars, meta, mapVars, call, handled>>
  BY DEF DiffOwn, DiffParent, DiffFetch
<1>2. UNCHANGED <<linkPaths, pathLinks>> /\ poll.pc # "idle"
  BY <1>1 DEF mapVars
<1>3. PICK q : q = poll
  OBVIOUS
<1>4. TypeOK /\ TreeInv /\ LogInv /\ PathsInv /\ ListsInv /\ IsPoll(q) /\ PollPlaced(q) /\ q.pc # "idle"
  BY <1>2, <1>3 DEF FreshInv, PlacesInv, PollInv, TypeOK
<1>5. PlacesKept
  BY <1>1, <1>2, <1>4, VolumeKept
<1>6. PathsInv'
  BY <1>2, <1>4, <1>5, PathsStay
<1>7. ASSUME PollInv', From' = From PROVE FreshInv'
  <2>1. FreshKept
    BY <1>1, <1>4, <1>7, VolumeKept
  <2>2. ListsInv'
    BY <1>1, <1>4, <1>5, <2>1, ListsStay
  <2> QED BY <1>1, <1>2, <1>5, <1>6, <1>7, <2>2, PollerKeepsFresh
<1>8. CASE poll' = StageFrom(poll, 1 + 1) \/ poll' = StageFrom(poll, 2 + 1)
  <2>1. PollInv' /\ poll'.pc # "idle"
    BY <1>2, <1>5, <1>8, NextStageKept
  <2> QED BY <1>1, <1>2, <1>4, <1>7, <2>1, PollGoesOn
<1>9. ASSUME NEW l, NEW r \in Listings(l), NEW pc, poll' = [q EXCEPT !.pc = pc, !.resp = r],
             (pc = "applyOwn" /\ l = q.ev.link) \/ (pc = "applyParent" /\ l = q.ev.parent)
      PROVE  FreshInv'
  <2>1. PICK x : x = poll'
    OBVIOUS
  <2>2. x.pc = pc /\ x.resp = r /\ x.ev = q.ev /\ x.path = q.path /\ x.parentPath = q.parentPath
    BY <1>4, <1>9, <2>1 DEF IsPoll, IdlePoll
  <2>3. l \in Dirs /\ Kids(r, l) /\ Fresh(r, l)
    BY <1>9, ListingsAreFresh
  <2>4. From' = From
    BY <1>1, <1>2, <1>4, <1>9, <2>1, <2>2, PollGoesOn
  <2>5. FreshKept
    BY <1>1, <1>4, <2>4, VolumeKept
  <2>6. r \in SUBSET Snapshots
    BY <1>4, <1>9, AnswersAreSnapshots DEF TypeOK
  <2>7. Kids(r, l)' /\ Fresh(r, l)' /\ PollPlaced(q)'
    BY <1>4, <1>5, <2>3, <2>5, <2>6, PlacesKeptFacts, HoldersKept DEF FreshKept
  <2>8. PollPlaced(x)'
    BY <1>9, <2>2, <2>3, <2>7 DEF PollPlaced
  <2>9. PollFresh(x)'
    BY <1>9, <2>2, <2>7 DEF PollFresh
  <2>10. PollInv'
    BY <2>1, <2>8, <2>9 DEF PollInv
  <2> QED BY <1>7, <2>4, <2>10
<1>10. CASE DiffOwn
  BY <1>3, <1>8, <1>9, <1>10 DEF DiffOwn, DiffFetch
<1>11. CASE DiffParent
  BY <1>3, <1>8, <1>9, <1>11 DEF DiffParent, DiffFetch
<1> QED BY <1>10, <1>11

(* The new listing is stored, and the paths of the links it has recorded.   *)
LEMMA DiffApplyKeeps ==
  ASSUME FreshInv, TypeOK', NEW pc, NEW dp \in Paths, NEW olds, DiffApply(pc, dp, olds), poll.pc # "idle",
         NEW d \in Dirs, KnownAs(d, dp), Kids(poll.resp, d), Fresh(poll.resp, d)
  PROVE  FreshInv'
<1>1. UNCHANGED <<remoteVars, node, pathLinks, call>> /\ \E es : HandleDone(es)
  BY DEF DiffApply, remoteVars
<1>2. TypeOK /\ TreeInv /\ LogInv /\ PathsInv /\ ListsInv
  BY DEF FreshInv, PlacesInv
<1>3. From' = From /\ PollInv'
  BY <1>1, <1>2, PollGoesOn
<1>4. FreshKept
  BY <1>1, <1>2, <1>3, VolumeKept
<1>5. PICK new \in SUBSET Snapshots : new = poll.resp
  BY <1>2, PollFields
<1>6. PlacesKept /\ PathsInv'
  <2> DEFINE ids == {s.id : s \in new}
             at(l) == Child(dp, (CHOOSE s \in new : s.id = l).name)
  <2>1. linkPaths' = [l \in DOMAIN linkPaths \cup ids |-> IF l \in ids THEN at(l) ELSE linkPaths[l]]
    BY <1>5 DEF DiffApply
  <2>2. ASSUME NEW l \in ids, l \in Dirs PROVE Placed(l, at(l))
    <3>1. PICK s : s = CHOOSE t \in new : t.id = l
      OBVIOUS
    <3>2. s \in new /\ s.id = l
      BY <2>2, <3>1
    <3>3. l # Root /\ node[l].state = "active" /\ node[l].parent = d /\ node[l].name = s.name
      BY <1>5, <2>2, <3>2 DEF Kids
    <3>4. at(l) = Child(dp, s.name)
      BY <3>1
    <3>5. d \in Dirs \cap DOMAIN linkPaths /\ linkPaths[d] = dp
      BY DEF KnownAs
    <3> QED BY <3>3, <3>4, <3>5 DEF Placed
  <2> HIDE DEF ids, at
  <2>3. DOMAIN linkPaths' = DOMAIN linkPaths \cup ids
        /\ \A l \in DOMAIN linkPaths' : linkPaths'[l] = IF l \in ids THEN at(l) ELSE linkPaths[l]
    BY <2>1
  <2>4. ASSUME NEW k \in Dirs \cap DOMAIN linkPaths'
        PROVE  (k \in DOMAIN linkPaths /\ linkPaths'[k] = linkPaths[k]) \/ Placed(k, linkPaths'[k])
    BY <2>2, <2>3
  <2>5. Dirs \cap DOMAIN linkPaths \subseteq DOMAIN linkPaths'
    BY <2>3
  <2> QED BY <1>1, <1>2, <2>4, <2>5, PathsGrow
<1>7. ListsInv'
  <2>1. meta' = SetList(meta, dp, new, FALSE)
    BY <1>5 DEF DiffApply
  <2> QED BY <1>2, <1>4, <1>5, <1>6, <2>1, StoreKeepsLists
<1> QED BY <1>1, <1>3, <1>6, <1>7, PollerKeepsFresh

(* For the link's own path or for its parent's.                             *)
LEMMA DiffApplyKeepsFresh ==
  ASSUME FreshInv, TypeOK', DiffApplyOwn \/ DiffApplyParent
  PROVE  FreshInv'
<1>1. CASE DiffApplyOwn
  <2>1. PICK p, o, d : p = poll.path /\ o = poll.old /\ d = poll.ev.link
    OBVIOUS
  <2>2. poll.pc = "applyOwn" /\ DiffApply("applyOwn", p, o)
    BY <1>1, <2>1 DEF DiffApplyOwn
  <2>3. p \in Paths /\ p # NoPath
    BY <2>1, <2>2, PollFields, NoPathAssumption DEF FreshInv
  <2>4. d \in Dirs /\ KnownAs(d, p) /\ Kids(poll.resp, d) /\ Fresh(poll.resp, d)
    BY <2>1, <2>2, <2>3 DEF FreshInv, PollInv, PollPlaced, PollFresh
  <2> QED BY <2>2, <2>3, <2>4, DiffApplyKeeps
<1>2. CASE DiffApplyParent
  <2>1. PICK p, o, d : p = poll.parentPath /\ o = poll.oldParent /\ d = poll.ev.parent
    OBVIOUS
  <2>2. poll.pc = "applyParent" /\ DiffApply("applyParent", p, o)
    BY <1>2, <2>1 DEF DiffApplyParent
  <2>3. p \in Paths /\ p # NoPath
    BY <2>1, <2>2, PollFields, NoPathAssumption DEF FreshInv
  <2>4. d \in Dirs /\ KnownAs(d, p) /\ Kids(poll.resp, d) /\ Fresh(poll.resp, d)
    BY <2>1, <2>2, <2>3 DEF FreshInv, PollInv, PollPlaced, PollFresh
  <2> QED BY <2>2, <2>3, <2>4, DiffApplyKeeps
<1> QED BY <1>1, <1>2

(* The last two attempts: only a file's path is forgotten.                  *)
LEMMA HandleEndsFresh ==
  ASSUME FreshInv, TypeOK', CheckTrash \/ FallbackChanged
  PROVE  FreshInv'
<1>1. /\ poll.pc # "idle" /\ UNCHANGED <<remoteVars, node, meta, pathLinks, call>>
      /\ \E es : HandleDone(es)
  BY DEF CheckTrash, FallbackChanged, remoteVars, mapVars
<1>2. TypeOK /\ TreeInv /\ LogInv /\ PathsInv /\ ListsInv
  BY DEF FreshInv, PlacesInv
<1>3. From' = From /\ PollInv'
  BY <1>1, <1>2, PollGoesOn
<1>4. FreshKept
  BY <1>1, <1>2, <1>3, VolumeKept
<1>5. PlacesKept /\ PathsInv'
  <2>1. PICK l : l = poll.ev.link
    OBVIOUS
  <2>2. \/ linkPaths' = linkPaths
        \/ linkPaths' = Drop(linkPaths, {l}) /\ node[l].state \in {"trashed", "gone"}
    BY <2>1 DEF CheckTrash, FallbackChanged, mapVars
  <2>3. node[l].state \in {"trashed", "gone"} => l \notin Dirs
    BY <1>2 DEF TreeInv
  <2>4. /\ \A k \in Dirs \cap DOMAIN linkPaths : k \in DOMAIN linkPaths'
        /\ \A k \in DOMAIN linkPaths' : k \in DOMAIN linkPaths /\ linkPaths'[k] = linkPaths[k]
    BY <2>2, <2>3 DEF Drop, Restrict
  <2> QED BY <1>1, <1>2, <2>4, PathsGrow
<1>6. ListsInv'
  BY <1>1, <1>2, <1>4, <1>5, ListsStay
<1> QED BY <1>1, <1>3, <1>5, <1>6, PollerKeepsFresh

(* Nothing that is cached can be stale.                                     *)
LEMMA RefreshKeepsFresh ==
  ASSUME FreshInv, TypeOK', Refresh
  PROVE  FreshInv'
<1>1. UNCHANGED <<remoteVars, linkPaths, poll>> /\ poll.pc = "idle" /\ Overtake
  BY DEF Refresh
<1>2. TypeOK /\ TreeInv /\ LogInv /\ PathsInv /\ CallsInv
  BY DEF FreshInv, PlacesInv
<1>3. PlacesKept /\ TreeInv' /\ LogInv'
  BY <1>1, <1>2, VolumeKept
<1>4. PathsInv' /\ CallsInv'
  BY <1>1, <1>2, <1>3, PathsStay, OvertakeKeepsPlaces
<1>5. LinksInv' /\ ListsInv'
  BY EmptyMapFacts DEF Refresh, LinksInv, ListsInv
<1>6. PollInv'
  BY <1>1 DEF PollInv
<1> QED BY <1>3, <1>4, <1>5, <1>6 DEF FreshInv, PlacesInv

-----------------------------------------------------------------------------
(* Induction over the natural numbers, for a set.                           *)
LEMMA SetInduction ==
  ASSUME NEW T, 0 \in T, \A n \in Nat : n \in T => n + 1 \in T
  PROVE  Nat \subseteq T
<1> DEFINE B == Nat \ T
           R == OpToRel(<, Nat)
<1> SUFFICES ASSUME B # {} PROVE FALSE
  OBVIOUS
<1>1. IsWellFoundedOn(R, Nat)
  BY NatLessThanWellFounded
<1>2. B \subseteq Nat
  OBVIOUS
<1>3. \A x, y \in Nat : x < y => <<x, y>> \in R
  BY DEF OpToRel
<1> HIDE DEF R, B
<1>4. \E x \in B : \A y \in B : <<y, x>> \notin R
  BY <1>1, <1>2, WFMin
<1>5. PICK x \in B : \A y \in B : <<y, x>> \notin R
  BY <1>4
<1>6. x \in Nat /\ x # 0
  BY DEF B
<1>7. x - 1 \in Nat /\ x - 1 < x
  BY <1>6
<1>8. x - 1 \in T
  BY <1>3, <1>5, <1>6, <1>7 DEF B
<1>9. x \in T
  BY <1>6, <1>7, <1>8
<1> QED BY <1>9 DEF B

(* The way to a folder goes on to the folders in it.                        *)
LEMMA WayGoesOn ==
  ASSUME TypeOK, NEW e \in Dirs, NEW p \in Paths, IsAt(e, p), NEW d \in Dirs \ {Root},
         node[d].state = "active", node[d].parent = e
  PROVE  IsAt(d, Child(p, node[d].name))
<1>1. PICK n \in Nat, nm \in Names : n = Len(p) /\ nm = node[d].name
  BY LenProperties DEF TypeOK, RemoteType, Paths, Links
<1>2. PICK q : q = Child(p, nm)
  OBVIOUS
<1>3. Len(q) = n + 1 /\ q[n + 1] = nm /\ \A i \in 1 .. n : q[i] = p[i]
  BY <1>1, <1>2, AppendProperties DEF Child, Paths
<1>4. PICK way \in [0 .. n -> Links] :
        /\ way[0] = Root /\ way[n] = e
        /\ \A i \in 1 .. n : way[i] \in ActiveChildren(way[i - 1]) /\ node[way[i]].name = p[i]
  BY <1>1 DEF IsAt
<1>5. PICK on : on = [i \in 0 .. n + 1 |-> IF i = n + 1 THEN d ELSE way[i]]
  OBVIOUS
<1>6. d \in ActiveChildren(e) /\ d \in Links
  BY DEF ActiveChildren, Links
<1>7. on \in [0 .. n + 1 -> Links] /\ on[n + 1] = d /\ \A i \in 0 .. n : on[i] = way[i]
  BY <1>5, <1>6
<1>8. on[0] = Root
  BY <1>4, <1>7
<1>9. ASSUME NEW i \in 1 .. n + 1
      PROVE  on[i] \in ActiveChildren(on[i - 1]) /\ node[on[i]].name = q[i]
  <2>1. CASE i = n + 1
    <3>1. on[i] = d /\ on[i - 1] = e /\ q[i] = nm
      BY <1>3, <1>4, <1>7, <2>1
    <3> QED BY <1>1, <1>6, <3>1
  <2>2. CASE i \in 1 .. n
    <3>1. on[i] = way[i] /\ on[i - 1] = way[i - 1] /\ q[i] = p[i]
      BY <1>3, <1>7, <2>2
    <3> QED BY <1>4, <2>2, <3>1
  <2> QED BY <2>1, <2>2
<1>10. IsAt(d, q)
  BY <1>3, <1>7, <1>8, <1>9 DEF IsAt
<1> QED BY <1>1, <1>2, <1>10

(* A recorded path names the folder it is recorded for.                     *)
LEMMA RecordedPathsAreRight ==
  ASSUME TypeOK, PathsInv
  PROVE  \A d \in Dirs \cap DOMAIN linkPaths : IsAt(d, linkPaths[d])
<1> DEFINE Known == Dirs \cap DOMAIN linkPaths
           T == {n \in Nat : \A d \in Known : Len(linkPaths[d]) = n => IsAt(d, linkPaths[d])}
<1>1. ASSUME NEW d \in Known PROVE linkPaths[d] \in Paths /\ Len(linkPaths[d]) \in Nat
  <2>1. linkPaths[d] \in Paths
    BY DEF TypeOK, MapType, Range
  <2> QED BY <2>1, LenProperties DEF Paths
<1>2. ASSUME NEW d \in Known, d # Root
      PROVE  \E e \in Known :
               /\ node[d].state = "active" /\ node[d].parent = e
               /\ linkPaths[d] = Child(linkPaths[e], node[d].name)
               /\ Len(linkPaths[d]) = Len(linkPaths[e]) + 1
  <2>1. PICK e \in Known : /\ node[d].state = "active" /\ node[d].parent = e
                           /\ linkPaths[d] = Child(linkPaths[e], node[d].name)
    BY <1>2 DEF PathsInv, Placed
  <2>2. node[d].name \in Names /\ linkPaths[e] \in Seq(Names)
    BY <1>1 DEF TypeOK, RemoteType, Links, Paths
  <2>3. Len(linkPaths[d]) = Len(linkPaths[e]) + 1
    BY <2>1, <2>2, AppendProperties DEF Child
  <2> QED BY <2>1, <2>3
<1>3. ASSUME Root \in Known PROVE IsAt(Root, linkPaths[Root])
  <2>1. linkPaths[Root] = << >>
    BY <1>3 DEF PathsInv, Placed, RootPath
  <2>2. PICK way : way = [i \in 0 .. 0 |-> Root]
    OBVIOUS
  <2>3. way \in [0 .. 0 -> Links] /\ way[0] = Root /\ 1 .. 0 = {}
    BY <2>2, LinksAssumption DEF Links
  <2>4. Len(<< >>) = 0
    OBVIOUS
  <2> QED BY <2>1, <2>3, <2>4 DEF IsAt
<1>4. ASSUME NEW n \in Nat, NEW d \in Known, d # Root, Len(linkPaths[d]) = n
      PROVE  /\ n # 0
             /\ \A k \in T : n = k + 1 => IsAt(d, linkPaths[d])
  <2>1. PICK e \in Known : /\ node[d].state = "active" /\ node[d].parent = e
                           /\ linkPaths[d] = Child(linkPaths[e], node[d].name)
                           /\ n = Len(linkPaths[e]) + 1
    BY <1>2, <1>4
  <2>2. Len(linkPaths[e]) \in Nat /\ linkPaths[e] \in Paths
    BY <1>1
  <2>3. ASSUME NEW k \in T, n = k + 1 PROVE IsAt(d, linkPaths[d])
    <3>1. Len(linkPaths[e]) = k
      BY <2>1, <2>2, <2>3
    <3>2. IsAt(e, linkPaths[e])
      BY <2>3, <3>1
    <3>3. PICK p \in Paths : p = linkPaths[e]
      BY <2>2
    <3>4. IsAt(d, Child(p, node[d].name))
      BY <1>4, <2>1, <3>2, <3>3, WayGoesOn
    <3> QED BY <2>1, <3>3, <3>4
  <2> QED BY <2>1, <2>2, <2>3
<1>5. 0 \in T
  BY <1>3, <1>4
<1>6. \A n \in Nat : n \in T => n + 1 \in T
  <2> SUFFICES ASSUME NEW n \in T, NEW d \in Known, Len(linkPaths[d]) = n + 1
               PROVE  IsAt(d, linkPaths[d])
    OBVIOUS
  <2> QED BY <1>3, <1>4
<1> HIDE DEF T
<1>7. Nat \subseteq T
  BY <1>5, <1>6, SetInduction
<1> QED BY <1>1, <1>7 DEF T

-----------------------------------------------------------------------------
(* Where links stay where they are, the poller keeps the cached listings    *)
(* current: whatever is created, changed or put in the trash, by whomever,  *)
(* however handlers and the poller interleave and whichever requests fail,  *)
(* once the poller has caught up every listing that was not overtaken on    *)
(* its way to the cache is its folder's current one, and under the path the *)
(* folder has.                                                              *)
THEOREM SettledListsStayCurrent ==
  Spec /\ [][Settled]_vars => []ListsCurrentUnlessOvertaken
<1>1. Init /\ TypeOK => FreshInv
  <2> SUFFICES ASSUME Init, TypeOK PROVE FreshInv
    OBVIOUS
  <2>1. TreeInv
    BY LinksAssumption DEF Init, TreeInv, Links
  <2>2. LogInv
    BY DEF Init, LogInv
  <2>3. PathsInv /\ LinksInv /\ ListsInv
    BY EmptyMapFacts DEF Init, PathsInv, LinksInv, ListsInv
  <2>4. CallsInv
    BY DEF Init, CallsInv, CallPlaced, CallFresh, IdleCall
  <2>5. PollInv
    BY DEF Init, PollInv, IdlePoll
  <2> QED BY <2>1, <2>2, <2>3, <2>4, <2>5 DEF FreshInv, PlacesInv
<1>2. FreshInv /\ TypeOK' /\ [Next]_vars /\ [Settled]_vars => FreshInv'
  <2> SUFFICES ASSUME FreshInv, TypeOK', [Next]_vars, [Settled]_vars PROVE FreshInv'
    OBVIOUS
  <2>1. CASE UNCHANGED vars
    <3>1. UNCHANGED <<remoteVars, meta, mapVars, call, pollVars, linkPaths>>
      BY <2>1 DEF vars, mapVars
    <3>2. From' = From
      BY <3>1 DEF From, pollVars
    <3>3. PlacesKept /\ FreshKept /\ TreeInv' /\ LogInv'
      BY <3>1, <3>2, VolumeKept DEF FreshInv, PlacesInv
    <3> QED BY <3>1, <3>3, ChangesKeepFresh
  <2>2. CASE Settled /\ Remote
    BY <2>2, RemoteKeepsFresh
  <2>3. ASSUME Settled, NEW h \in Handlers, Handler(h) PROVE FreshInv'
    <3>1. CASE (\E r \in Requests : Begin(h, r[1], r[2])) \/ GetStat(h) \/ GetList(h) \/ Statted(h)
      BY <3>1, MovesKeepFresh
    <3>2. CASE StatRoot(h) \/ Listed(h) \/ MakeDirDone(h)
      BY <3>2, StatsKeepFresh
    <3>3. CASE CreateFolder(h) \/ RemoveLink(h)
      BY <2>3, <3>3, WritesKeepFresh
    <3>4. CASE Walk(h) \/ Fetch(h)
      BY <3>4, ApiListChildrenKeepsFresh
    <3>5. CASE ResolveFast(h) \/ ResolveStart(h) \/ WalkStep(h) \/ FetchStore(h)
      BY <3>5, ResolveFastKeepsFresh, ResolveStartKeepsFresh, WalkStepKeepsFresh, FetchStoreKeepsFresh
    <3> QED BY <2>3, <3>1, <3>2, <3>3, <3>4, <3>5 DEF Handler, Progress
  <2>4. CASE Poller
    BY <2>4, HandleDeleteKeepsFresh, HandleCreateKeepsFresh, HandleUpdateKeepsFresh,
       CreateNameKeepsFresh, DiffFetchKeepsFresh, DiffApplyKeepsFresh, HandleEndsFresh,
       RefreshKeepsFresh DEF Poller
  <2> QED BY <2>1, <2>2, <2>3, <2>4 DEF Next
<1>3. FreshInv => ListsCurrentUnlessOvertaken
  <2> SUFFICES ASSUME FreshInv, CaughtUp, NEW p \in DOMAIN meta.lists, ~ meta.lists[p].overtaken
               PROVE  ListIsCurrent(p)
    BY DEF ListsCurrentUnlessOvertaken
  <2>1. PICK d \in Dirs : KnownAs(d, p) /\ Fresh(meta.lists[p].links, d)
    BY DEF FreshInv, ListsInv, ListOK
  <2>2. ~ Pending(d)
    <3>1. PICK n \in Nat : n = Len(log) /\ n = handled
      BY LenProperties DEF FreshInv, TypeOK, RemoteType, CaughtUp
    <3>2. From = n + 1
      BY <3>1 DEF From, CaughtUp
    <3>3. From .. Len(log) = {}
      BY <3>1, <3>2
    <3> QED BY <3>3 DEF Pending
  <2>3. IsAt(d, p)
    BY <2>1, RecordedPathsAreRight DEF FreshInv, PlacesInv, KnownAs
  <2> QED BY <2>1, <2>2, <2>3 DEF Fresh, ListIsCurrent
<1> QED BY <1>1, <1>2, <1>3, SessionTypeCorrect, PTL DEF Spec
=============================================================================
