--------------------------- MODULE GraphFileProofs ---------------------------
(***************************************************************************)
(* Proofs about the files a search reads its graph from: the graph reader  *)
(* of the page-based comparison, and the graph cache the runs of the       *)
(* DiskANN comparison share.                                               *)
(*                                                                         *)
(* The graph reader, for any graph, any page size and any beams, is a      *)
(* NodeStore: whatever the two caches hold, whatever order the pages are   *)
(* numbered in and whenever the disk fails, a read returns the lists of    *)
(* the file or an error.  What carries this from one read to the next is   *)
(* that a cached page lies under its own number, that the caches of the    *)
(* query and of the run share no page, and that what the disk has been     *)
(* asked for is still what is missing when the answer comes.               *)
(*                                                                         *)
(* The shared graph, for any set of build parameters and any naming of the *)
(* files: a run searches its own graph unless one of the same name died    *)
(* between the two writes, and a completed build is used again.  The       *)
(* properties look at one run; what carries them from one run to the next  *)
(* is what the files say of each other.  A description that is whole is    *)
(* true of its graph, except while a run is between the two writes or      *)
(* after one has died there (Described); and the files of a stem are still *)
(* those of its last completed run until the next one overwrites them      *)
(* (Kept).                                                                 *)
(***************************************************************************)
EXTENDS GraphPageCache, SharedGraph, FiniteSetTheorems, TLAPS

-----------------------------------------------------------------------------
(* The graph reader: the invariant *)

\* A cache holds pages of the file, each under its own number.
Own(cache) == DOMAIN cache \subseteq FilePages /\ cache = [p \in DOMAIN cache |-> p]

\* The two caches share no page.
CacheInv ==
  /\ Own(sharedCache) /\ Own(queryCache)
  /\ DOMAIN queryCache \cap DOMAIN sharedCache = {}

\* A read in progress has returned nothing yet, and what the disk has been
\* asked for is still what is missing.
ReadInv ==
  /\ status = "busy" => lists = <<>>
  /\ outcome = "busy" =>
       /\ status = "busy" /\ medium = "direct" /\ InRange
       /\ Missing # {} /\ request = Missing

\* The pages counted are those the query's cache has gained.
Counted ==
  /\ stats.sectors <= Cardinality(DOMAIN queryCache)
  /\ status # "error" => stats.sectors = Cardinality(DOMAIN queryCache)

PageCacheIInv == TypeOK /\ CacheInv /\ ReadInv /\ Counted

-----------------------------------------------------------------------------
(* Pages and records *)

\* The number of whole pages and the slot within one give the id back.
LEMMA DivMod ==
  ASSUME NEW k \in Nat \ {0}, NEW n \in Nat
  PROVE  /\ n \div k \in Nat /\ n % k \in Nat
         /\ (n \div k) * k + (n % k) = n
  OBVIOUS

\* Rounding up leaves room for every whole page.
LEMMA DivBelow ==
  ASSUME NEW k \in Nat \ {0}, NEW n \in Nat, NEW m \in Nat, n < m
  PROVE  n \div k < (m + k - 1) \div k
  OBVIOUS

\* The page numbers of the file.
LEMMA FilePagesAre ==
  /\ PageCount \in Nat
  /\ FilePages \subseteq Nat /\ IsFiniteSet(FilePages) /\ Cardinality(FilePages) = PageCount
<1>1. PageCount \in Nat
  BY LayoutAssumption, DivMod DEF PageCount
<1>2. IsFiniteSet(0 .. PageCount - 1) /\ Cardinality(0 .. PageCount - 1) = PageCount
  BY <1>1, FS_Interval
<1> QED  BY <1>1, <1>2 DEF FilePages

\* A node of the graph is on a page of the file, in the slot it is decoded from.
LEMMA OnItsPage ==
  ASSUME NEW id \in Nat, InGraph(id)
  PROVE  PageFor(id) \in FilePages /\ Decode(PageFor(id), id) = Graph[id]
<1>1. NodeCount \in Nat /\ NodesPerPage \in Nat \ {0} /\ id < NodeCount
  BY LayoutAssumption DEF InGraph
<1>2. PageFor(id) \in Nat /\ PageFor(id) * NodesPerPage + (id % NodesPerPage) = id
  BY <1>1, DivMod DEF PageFor
<1>3. PageFor(id) < PageCount
  BY <1>1, DivBelow DEF PageFor, PageCount
<1>4. PageFor(id) \in FilePages
  BY <1>2, <1>3, FilePagesAre DEF FilePages
<1>5. Decode(PageFor(id), id) = Graph[id]
  BY <1>1, <1>2 DEF Decode, RecordAt
<1> QED  BY <1>4, <1>5

\* The pages of the ids of a beam that are in the graph are pages of the file.
LEMMA RequestedAre ==
  ASSUME ids \in Seq(Ids), InRange
  PROVE  /\ \A i \in DOMAIN ids : ids[i] \in Nat /\ InGraph(ids[i])
         /\ Requested \subseteq FilePages
<1>1. \A i \in DOMAIN ids : ids[i] \in Nat /\ InGraph(ids[i])
  <2>1. \A i \in DOMAIN ids : ids[i] \in Ids
    OBVIOUS
  <2> QED  BY <2>1 DEF Ids, InRange
<1> QED  BY <1>1, OnItsPage DEF Requested

\* No two pages of a set have the same rank.
LEMMA RankTells ==
  ASSUME NEW S, S \subseteq Nat, IsFiniteSet(S), NEW p \in S, NEW q \in S, q < p,
         Rank(p, S) = Rank(q, S)
  PROVE  FALSE
<1> DEFINE P == {x \in S : x < p}
<1> DEFINE Q == {x \in S : x < q}
<1>1. Q \in SUBSET P
  <2>1. \A x \in S : x < q => x < p
    OBVIOUS
  <2> QED  BY <2>1
<1>2. IsFiniteSet(P)
  BY FS_Subset
<1>3. Cardinality(P) = Cardinality(Q)
  BY DEF Rank
<1>4. P = Q
  BY <1>1, <1>2, <1>3, FS_Subset
<1>5. q \in P /\ q \notin Q
  OBVIOUS
<1> QED  BY <1>4, <1>5

\* The pages of a request that is answered are cut out under their own numbers,
LEMMA CutIs ==
  ASSUME NEW S \in SUBSET FilePages, NEW p \in S
  PROVE  Cut(p, S, S) = p
<1>1. S \subseteq Nat /\ IsFiniteSet(S)
  BY FilePagesAre, FS_Subset
<1>2. \A q \in S : Rank(q, S) = Rank(p, S) => q = p
  <2> TAKE q \in S
  <2> HAVE Rank(q, S) = Rank(p, S)
  <2>1. p \in Nat /\ q \in Nat /\ (q < p \/ p < q \/ q = p)
    BY <1>1
  <2>2. CASE q < p
    BY <1>1, <2>2, RankTells
  <2>3. CASE p < q
    BY <1>1, <2>3, RankTells
  <2> QED  BY <2>1, <2>2, <2>3
<1>3. Cut(p, S, S) = CHOOSE q \in S : Rank(q, S) = Rank(p, S)
  BY DEF Cut
<1> QED  BY <1>2, <1>3

\* and so are those that a read stores.
LEMMA BytesAre ==
  ASSUME TypeOK, Disk!AnswerPages
  PROVE  \A p \in request : BytesFor(p) = p
<1>1. delivered' = request /\ request \in SUBSET FilePages
  BY DEF TypeOK, Disk!AnswerPages
<1> QED  BY <1>1, CutIs DEF BytesFor

-----------------------------------------------------------------------------
(* Answers *)

\* What a read of a beam returns.
Lists(beam) == [i \in DOMAIN beam |-> FileList(beam[i])]
AllReadable(beam) == \A i \in DOMAIN beam : Readable(beam[i])

\* The lists of readable nodes are lists.
LEMMA ListsAre ==
  ASSUME NEW beam \in Seq(Ids), AllReadable(beam)
  PROVE  Lists(beam) \in Seq(Seq(Nat))
<1>1. \A i \in DOMAIN beam : FileList(beam[i]) \in Seq(Nat)
  <2> TAKE i \in DOMAIN beam
  <2>1. beam[i] \in Ids /\ InGraph(beam[i])
    BY DEF AllReadable, Readable
  <2>2. beam[i] \in 0 .. NodeCount - 1
    BY <2>1, LayoutAssumption DEF Ids, InGraph
  <2> QED  BY <2>2, GraphAssumption DEF FileList
<1>2. Len(beam) \in Nat /\ DOMAIN beam = 1 .. Len(beam)
  OBVIOUS
<1> QED  BY <1>1, <1>2 DEF Lists

\* A read that finds every page in the caches returns the lists of the file,
\* or an error if one of them is not a list a record may hold.
LEMMA AnswerIs ==
  ASSUME ids \in Seq(Ids), InRange, Own(sharedCache),
         NEW cache, Own(cache), Requested \subseteq DOMAIN cache \cup DOMAIN sharedCache,
         NEW sectors, Answer(cache, sectors)
  PROVE  \/ /\ AllReadable(ids)
            /\ status' = "ok" /\ lists' = Lists(ids)
            /\ stats' = [stats EXCEPT !.sectors = @ + sectors]
         \/ /\ ~AllReadable(ids)
            /\ status' = "error" /\ lists' = <<>> /\ stats' = stats
<1> DEFINE Held(i) == LET p == PageFor(ids[i])
                      IN  IF p \in DOMAIN cache THEN cache[p] ELSE sharedCache[p]
<1> DEFINE found == [i \in DOMAIN ids |-> Decode(Held(i), ids[i])]
<1>1. \A i \in DOMAIN ids : Held(i) = PageFor(ids[i])
  <2> TAKE i \in DOMAIN ids
  <2>1. PageFor(ids[i]) \in DOMAIN cache \cup DOMAIN sharedCache
    BY DEF Requested
  <2> QED  BY <2>1 DEF Own
<1>2. \A i \in DOMAIN ids : Decode(Held(i), ids[i]) = FileList(ids[i])
  BY <1>1, RequestedAre, OnItsPage DEF FileList
<1>3. found = Lists(ids)
  BY <1>2 DEF Lists
<1>4. (\A i \in DOMAIN ids : WellFormed(found[i])) <=> AllReadable(ids)
  <2> HIDE DEF found
  <2>1. \A i \in DOMAIN ids : found[i] = FileList(ids[i]) /\ InGraph(ids[i])
    BY <1>3, RequestedAre DEF Lists
  <2> QED  BY <2>1 DEF AllReadable, Readable, FileList
<1>5. /\ status' = IF \A i \in DOMAIN ids : WellFormed(found[i]) THEN "ok" ELSE "error"
      /\ lists' = IF \A i \in DOMAIN ids : WellFormed(found[i]) THEN found ELSE <<>>
      /\ stats' = IF \A i \in DOMAIN ids : WellFormed(found[i])
                  THEN [stats EXCEPT !.sectors = @ + sectors] ELSE stats
  BY DEF Answer
<1> HIDE DEF found
<1>6. CASE AllReadable(ids)
  BY <1>3, <1>4, <1>5, <1>6
<1>7. CASE ~AllReadable(ids)
  BY <1>4, <1>5, <1>7
<1> QED  BY <1>6, <1>7

\* A cache whose pages have their own numbers is a cache.
LEMMA OwnIsCache == ASSUME NEW cache, Own(cache) PROVE cache \in Caches
<1>1. cache \in [DOMAIN cache -> FilePages] /\ DOMAIN cache \in SUBSET FilePages
  BY DEF Own
<1> QED  BY <1>1 DEF Caches

\* An empty cache.
LEMMA NoPagesOwn == Own(NoPages) /\ DOMAIN NoPages = {} /\ Cardinality(DOMAIN NoPages) = 0
  BY FS_EmptySet DEF Own, NoPages

\* The pages that arrive are added to those the query had, and every page of
\* the beam is then at hand.
LEMMA StoreIs ==
  ASSUME PageCacheIInv, PagesArrive
  PROVE  /\ Own(queryCache') /\ DOMAIN queryCache' = DOMAIN queryCache \cup request
         /\ DOMAIN queryCache' \cap DOMAIN sharedCache = {}
         /\ Requested \subseteq DOMAIN queryCache' \cup DOMAIN sharedCache
         /\ Cardinality(request) \in Nat /\ Cardinality(DOMAIN queryCache) \in Nat
         /\ Cardinality(DOMAIN queryCache') = Cardinality(DOMAIN queryCache) + Cardinality(request)
         /\ Cardinality(DOMAIN queryCache') <= PageCount
<1>1. request = Missing /\ InRange /\ request \subseteq FilePages
  BY DEF PageCacheIInv, ReadInv, TypeOK, PagesArrive, Disk!AnswerPages
<1>2. \A p \in request : BytesFor(p) = p
  BY BytesAre DEF PagesArrive, PageCacheIInv
<1>3. queryCache' = [p \in DOMAIN queryCache \cup request |->
                      IF p \in request THEN BytesFor(p) ELSE queryCache[p]]
  BY DEF PagesArrive, StorePages
<1>4. DOMAIN queryCache' = DOMAIN queryCache \cup request
  BY <1>3
<1>5. DOMAIN queryCache' \subseteq FilePages
  BY <1>1, <1>4 DEF PageCacheIInv, CacheInv, Own
<1>6. \A p \in DOMAIN queryCache' : queryCache'[p] = p
  BY <1>2, <1>3 DEF PageCacheIInv, CacheInv, Own
<1>7. Own(queryCache')
  <2>1. queryCache' = [p \in DOMAIN queryCache' |-> queryCache'[p]]
    BY <1>3, <1>4
  <2>2. queryCache' = [p \in DOMAIN queryCache' |-> p]
    BY <1>6, <2>1
  <2> QED  BY <1>5, <2>2 DEF Own
<1>8. DOMAIN queryCache \cap request = {} /\ request \cap DOMAIN sharedCache = {}
  BY <1>1 DEF Missing
<1>9. Requested \subseteq DOMAIN queryCache' \cup DOMAIN sharedCache
  BY <1>1, <1>4 DEF Missing
<1>10. DOMAIN queryCache' \cap DOMAIN sharedCache = {}
  BY <1>4, <1>8 DEF PageCacheIInv, CacheInv
<1>11. /\ IsFiniteSet(DOMAIN queryCache) /\ IsFiniteSet(request)
       /\ IsFiniteSet(DOMAIN queryCache') /\ Cardinality(DOMAIN queryCache') <= PageCount
  <2>1. DOMAIN queryCache \subseteq FilePages
    BY <1>4, <1>5
  <2> QED  BY <1>1, <1>5, <2>1, FilePagesAre, FS_Subset
<1>12. /\ Cardinality(request) \in Nat /\ Cardinality(DOMAIN queryCache) \in Nat
       /\ Cardinality(DOMAIN queryCache') = Cardinality(DOMAIN queryCache) + Cardinality(request)
  <2>1. Cardinality(request) \in Nat /\ Cardinality(DOMAIN queryCache) \in Nat
    BY <1>11, FS_CardinalityType
  <2>2. Cardinality(DOMAIN queryCache \cap request) = 0
    BY <1>8, FS_EmptySet
  <2>3. Cardinality(DOMAIN queryCache')
        = Cardinality(DOMAIN queryCache) + Cardinality(request) - Cardinality(DOMAIN queryCache \cap request)
    BY <1>4, <1>11, FS_Union
  <2> QED  BY <2>1, <2>2, <2>3
<1> QED  BY <1>4, <1>7, <1>9, <1>10, <1>11, <1>12

-----------------------------------------------------------------------------
(* The graph reader: its steps *)

\* A run begins with nothing read.
LEMMA PageCacheInit == Init => PageCacheIInv /\ Store!Init
<1> SUFFICES ASSUME Init PROVE PageCacheIInv /\ Store!Init
  OBVIOUS
<1>1. Own(sharedCache)
  <2>1. PICK S \in SUBSET FilePages : sharedCache = [p \in S |-> Cut(p, S, S)]
    BY DEF Init
  <2>2. \A p \in S : Cut(p, S, S) = p
    BY CutIs
  <2>3. sharedCache = [p \in S |-> p]
    BY <2>1, <2>2
  <2> QED  BY <2>3 DEF Own
<1>2. Own(queryCache) /\ DOMAIN queryCache = {} /\ Cardinality(DOMAIN queryCache) = 0
  BY NoPagesOwn DEF Init
<1>3. TypeOK
  BY <1>1, <1>2, OwnIsCache, BoundsAssumption, FilePagesAre
     DEF Init, Disk!Init, TypeOK, NoStats
<1>4. ReadInv /\ Counted
  BY <1>2 DEF Init, Disk!Init, ReadInv, Counted, NoStats
<1>5. Store!Init
  BY DEF Init, Store!Init
<1> QED  BY <1>1, <1>2, <1>3, <1>4, <1>5 DEF PageCacheIInv, CacheInv

\* A new query.
LEMMA CreateHolds == ASSUME PageCacheIInv, Create PROVE PageCacheIInv' /\ Store!Forget
<1>1. Own(queryCache') /\ DOMAIN queryCache' = {} /\ Cardinality(DOMAIN queryCache') = 0
  BY NoPagesOwn DEF Create
<1>2. Own(sharedCache') /\ sharedCache' = sharedCache
  BY DEF Create, PageCacheIInv, CacheInv
<1>3. TypeOK'
  BY <1>1, <1>2, OwnIsCache, BoundsAssumption, FilePagesAre
     DEF Create, PageCacheIInv, TypeOK, NoStats, diskVars
<1>4. ReadInv' /\ Counted'
  BY <1>1 DEF Create, PageCacheIInv, ReadInv, Counted, NoStats, diskVars
<1>5. Store!Forget
  BY DEF Create, Store!Forget
<1> QED  BY <1>1, <1>2, <1>3, <1>4, <1>5 DEF PageCacheIInv, CacheInv

\* A beam to expand.
LEMMA ExpandHolds == ASSUME PageCacheIInv, ExpandBeam PROVE PageCacheIInv' /\ Store!Ask
<1>1. ids' \in Seq(Ids) /\ Len(ids') \in Nat
  <2> PICK n \in 1 .. BeamLimit : ids' \in [1 .. n -> Ids]
    BY DEF ExpandBeam
  <2> QED  BY BoundsAssumption
<1>2. /\ stats' \in [visited : 0 .. MaxVisits, sectors : 0 .. PageCount]
      /\ stats'.sectors = stats.sectors
  <2>1. /\ stats.visited \in Nat /\ stats.visited + Len(ids') \in 0 .. MaxVisits
        /\ stats \in [visited : 0 .. MaxVisits, sectors : 0 .. PageCount]
    BY <1>1, BoundsAssumption DEF ExpandBeam, PageCacheIInv, TypeOK
  <2>2. stats' = [stats EXCEPT !.visited = @ + Len(ids')]
    BY DEF ExpandBeam
  <2> QED  BY <2>1, <2>2
<1>3. TypeOK'
  BY <1>1, <1>2 DEF ExpandBeam, PageCacheIInv, TypeOK, cacheVars, diskVars
<1>4. CacheInv' /\ ReadInv' /\ Counted'
  BY <1>2 DEF ExpandBeam, PageCacheIInv, CacheInv, ReadInv, Counted, cacheVars, diskVars
<1>5. Store!Ask
  BY <1>1 DEF ExpandBeam, Store!Ask
<1> QED  BY <1>3, <1>4, <1>5 DEF PageCacheIInv

\* A beam with a node that is not in the graph.
LEMMA PageForFailsHolds ==
  ASSUME PageCacheIInv, PageForFails PROVE PageCacheIInv' /\ Store!AnswerError
<1>1. TypeOK' /\ CacheInv' /\ ReadInv' /\ Counted'
  BY DEF PageForFails, PageCacheIInv, TypeOK, CacheInv, ReadInv, Counted, cacheVars, diskVars
<1>2. Store!AnswerError
  BY DEF PageForFails, Store!AnswerError, Readable
<1> QED  BY <1>1, <1>2 DEF PageCacheIInv

\* What a read answers, a store answers.
LEMMA AnswerIsStores ==
  ASSUME status = "busy", lists = <<>>, UNCHANGED <<medium, ids>>,
         \/ /\ AllReadable(ids) /\ status' = "ok" /\ lists' = Lists(ids)
         \/ /\ medium = "direct" \/ ~AllReadable(ids)
            /\ status' = "error" /\ lists' = <<>>
  PROVE  Store!AnswerLists \/ Store!AnswerError
<1>1. CASE AllReadable(ids) /\ status' = "ok" /\ lists' = Lists(ids)
  BY <1>1 DEF Store!AnswerLists, AllReadable, Lists
<1>2. CASE (medium = "direct" \/ ~AllReadable(ids)) /\ status' = "error" /\ lists' = <<>>
  BY <1>2 DEF Store!AnswerError, AllReadable
<1> QED  BY <1>1, <1>2

\* What a read leaves behind has its type.
LEMMA AnswerTypes ==
  ASSUME TypeOK,
         \/ AllReadable(ids) /\ status' = "ok" /\ lists' = Lists(ids)
         \/ status' = "error" /\ lists' = <<>>
  PROVE  status' \in {"ok", "error"} /\ lists' \in Seq(Seq(Nat))
<1>1. CASE AllReadable(ids) /\ status' = "ok" /\ lists' = Lists(ids)
  BY <1>1, ListsAre DEF TypeOK
<1>2. CASE status' = "error" /\ lists' = <<>>
  BY <1>2
<1> QED  BY <1>1, <1>2

\* A beam the caches hold.
LEMMA ReadCachedHolds ==
  ASSUME PageCacheIInv, ReadCached
  PROVE  PageCacheIInv' /\ (Store!AnswerLists \/ Store!AnswerError)
<1>1. Requested \subseteq DOMAIN queryCache \cup DOMAIN sharedCache
  BY DEF ReadCached, Missing
<1>2. \/ /\ AllReadable(ids) /\ status' = "ok" /\ lists' = Lists(ids)
         /\ stats' = [stats EXCEPT !.sectors = @ + 0]
      \/ /\ ~AllReadable(ids) /\ status' = "error" /\ lists' = <<>> /\ stats' = stats
  BY <1>1, AnswerIs DEF ReadCached, PageCacheIInv, CacheInv, TypeOK
<1>3. stats' = stats /\ status' \in {"ok", "error"} /\ lists' \in Seq(Seq(Nat))
  <2>1. stats' = stats
    BY <1>2 DEF PageCacheIInv, TypeOK
  <2> QED  BY <1>2, <2>1, AnswerTypes DEF PageCacheIInv
<1>4. TypeOK' /\ CacheInv' /\ Counted'
  BY <1>3 DEF ReadCached, PageCacheIInv, TypeOK, CacheInv, Counted, cacheVars, diskVars
<1>5. ReadInv'
  BY <1>3 DEF ReadCached, PageCacheIInv, ReadInv, cacheVars, diskVars
<1>6. Store!AnswerLists \/ Store!AnswerError
  BY <1>2, AnswerIsStores DEF ReadCached, PageCacheIInv, ReadInv
<1> QED  BY <1>4, <1>5, <1>6 DEF PageCacheIInv

\* The disk is asked for the pages in neither cache.
LEMMA ReadMissingHolds ==
  ASSUME PageCacheIInv, ReadMissing PROVE PageCacheIInv' /\ UNCHANGED storeVars
<1>1. TypeOK'
  BY DEF ReadMissing, Disk!Ask, PageCacheIInv, TypeOK, storeVars, cacheVars
<1>2. CacheInv' /\ Counted'
  BY DEF ReadMissing, PageCacheIInv, CacheInv, Counted, storeVars, cacheVars
<1>3. Missing' = Missing /\ (InRange' <=> InRange)
  BY DEF ReadMissing, Missing, Requested, InRange, storeVars, cacheVars
<1>4. ReadInv'
  BY <1>3 DEF ReadMissing, PageCacheIInv, ReadInv, storeVars, cacheVars
<1> QED  BY <1>1, <1>2, <1>4 DEF ReadMissing, PageCacheIInv

\* The pages arrive.
LEMMA PagesArriveHolds ==
  ASSUME PageCacheIInv, PagesArrive
  PROVE  PageCacheIInv' /\ (Store!AnswerLists \/ Store!AnswerError)
<1>1. /\ status = "busy" /\ InRange /\ medium = "direct" /\ lists = <<>>
      /\ UNCHANGED <<medium, ids, sharedCache>>
      /\ stats.sectors = Cardinality(DOMAIN queryCache)
  BY DEF PagesArrive, Disk!AnswerPages, PageCacheIInv, ReadInv, Counted
<1>2. Answer(queryCache', Cardinality(request))
  BY DEF PagesArrive
<1>3. \/ /\ AllReadable(ids) /\ status' = "ok" /\ lists' = Lists(ids)
         /\ stats' = [stats EXCEPT !.sectors = @ + Cardinality(request)]
      \/ /\ ~AllReadable(ids) /\ status' = "error" /\ lists' = <<>> /\ stats' = stats
  BY <1>1, <1>2, StoreIs, AnswerIs DEF PageCacheIInv, CacheInv, TypeOK
<1>4. status' \in {"ok", "error"} /\ lists' \in Seq(Seq(Nat))
  BY <1>3, AnswerTypes DEF PageCacheIInv
<1>5. CacheInv'
  BY <1>1, StoreIs DEF PageCacheIInv, CacheInv
<1>6. stats' \in [visited : 0 .. MaxVisits, sectors : 0 .. PageCount] /\ Counted'
  BY <1>1, <1>3, StoreIs, FilePagesAre DEF PageCacheIInv, TypeOK, Counted
<1>7. request' \in SUBSET FilePages /\ delivered' \in SUBSET FilePages /\ outcome' = "ok"
  BY DEF PagesArrive, Disk!AnswerPages, PageCacheIInv, TypeOK
<1>8. TypeOK'
  BY <1>1, <1>4, <1>5, <1>6, <1>7, OwnIsCache DEF PageCacheIInv, TypeOK, CacheInv
<1>9. ReadInv'
  BY <1>4, <1>7 DEF ReadInv
<1>10. Store!AnswerLists \/ Store!AnswerError
  BY <1>1, <1>3, AnswerIsStores
<1> QED  BY <1>5, <1>6, <1>8, <1>9, <1>10 DEF PageCacheIInv

\* The disk fails.
LEMMA ReadFailsHolds ==
  ASSUME PageCacheIInv, ReadFails PROVE PageCacheIInv' /\ Store!AnswerError
<1>1. TypeOK' /\ CacheInv' /\ ReadInv' /\ Counted'
  BY DEF ReadFails, Disk!AnswerError, PageCacheIInv, TypeOK, CacheInv, ReadInv, Counted, cacheVars
<1>2. Store!AnswerError
  BY DEF ReadFails, Disk!AnswerError, PageCacheIInv, ReadInv, Store!AnswerError
<1> QED  BY <1>1, <1>2 DEF PageCacheIInv

\* A beam the memory holds.
LEMMA ReadMemoryHolds ==
  ASSUME PageCacheIInv, ReadMemory
  PROVE  PageCacheIInv' /\ (Store!AnswerLists \/ Store!AnswerError)
<1> DEFINE found == [i \in DOMAIN ids |-> Decode(PageFor(ids[i]), ids[i])]
<1>1. status = "busy" /\ InRange /\ UNCHANGED <<medium, ids, stats, cacheVars, diskVars>>
  BY DEF ReadMemory
<1>2. \A i \in DOMAIN ids : InGraph(ids[i]) /\ Decode(PageFor(ids[i]), ids[i]) = FileList(ids[i])
  BY <1>1, RequestedAre, OnItsPage DEF FileList, PageCacheIInv, TypeOK
<1>3. found = Lists(ids)
  BY <1>2 DEF Lists
<1>4. (\A i \in DOMAIN ids : WellFormed(found[i])) <=> AllReadable(ids)
  BY <1>2 DEF AllReadable, Readable, FileList
<1>5. /\ status' = IF \A i \in DOMAIN ids : WellFormed(found[i]) THEN "ok" ELSE "error"
      /\ lists' = IF \A i \in DOMAIN ids : WellFormed(found[i]) THEN found ELSE <<>>
  BY DEF ReadMemory
<1> HIDE DEF found
<1>6. \/ AllReadable(ids) /\ status' = "ok" /\ lists' = Lists(ids)
      \/ ~AllReadable(ids) /\ status' = "error" /\ lists' = <<>>
  BY <1>3, <1>4, <1>5
<1>7. status' \in {"ok", "error"} /\ lists' \in Seq(Seq(Nat))
  BY <1>6, AnswerTypes DEF PageCacheIInv
<1>8. TypeOK' /\ CacheInv' /\ Counted'
  BY <1>1, <1>7 DEF PageCacheIInv, TypeOK, CacheInv, Counted, cacheVars, diskVars
<1>9. ReadInv'
  BY <1>1, <1>7 DEF ReadMemory, PageCacheIInv, ReadInv, diskVars
<1>10. Store!AnswerLists \/ Store!AnswerError
  BY <1>1, <1>6, AnswerIsStores DEF PageCacheIInv, ReadInv
<1> QED  BY <1>8, <1>9, <1>10 DEF PageCacheIInv

\* Every step keeps the invariant, and is a step of a store or none.
LEMMA PageCacheStep ==
  PageCacheIInv /\ [Next]_graphVars => PageCacheIInv' /\ [Store!Next]_storeVars
<1> SUFFICES ASSUME PageCacheIInv, [Next]_graphVars
             PROVE  PageCacheIInv' /\ (Store!Next \/ UNCHANGED storeVars)
  OBVIOUS
<1>1. CASE Create
  BY <1>1, CreateHolds DEF Store!Next
<1>2. CASE ExpandBeam
  BY <1>2, ExpandHolds DEF Store!Next
<1>3. CASE PageForFails
  BY <1>3, PageForFailsHolds DEF Store!Next
<1>4. CASE ReadCached
  BY <1>4, ReadCachedHolds DEF Store!Next
<1>5. CASE ReadMissing
  BY <1>5, ReadMissingHolds
<1>6. CASE PagesArrive
  BY <1>6, PagesArriveHolds DEF Store!Next
<1>7. CASE ReadFails
  BY <1>7, ReadFailsHolds DEF Store!Next
<1>8. CASE ReadMemory
  BY <1>8, ReadMemoryHolds DEF Store!Next
<1>9. CASE UNCHANGED graphVars
  BY <1>9 DEF graphVars, storeVars, cacheVars, diskVars, PageCacheIInv, TypeOK, CacheInv,
       ReadInv, Counted, Missing, Requested, InRange
<1> QED
  BY <1>1, <1>2, <1>3, <1>4, <1>5, <1>6, <1>7, <1>8, <1>9 DEF Next

-----------------------------------------------------------------------------
(* The graph reader: theorems *)

\* The invariant of the graph reader.
THEOREM PageCacheInvariance == Spec => []PageCacheIInv
<1> QED
  BY PageCacheInit, PageCacheStep, PTL DEF Spec

\* Every variable of the graph reader has its type: no page is stored that the
\* file does not have, and no more sectors are counted than it has pages.
THEOREM PageCacheTypes == Spec => []TypeOK
<1>1. PageCacheIInv => TypeOK
  BY DEF PageCacheIInv
<1> QED
  BY <1>1, PageCacheInvariance, PTL

\* A query reads no page twice and none that the shared cache holds, and the
\* sectors it reports are the pages its cache has gained.
THEOREM PagesAreReadOnce == Spec => []EachPageReadOnce
<1>1. PageCacheIInv => EachPageReadOnce
  BY DEF PageCacheIInv, CacheInv, Counted, EachPageReadOnce
<1> QED
  BY <1>1, PageCacheInvariance, PTL

\* Whatever the caches hold and whatever the disk does, the reader is a store:
\* a beam is answered with the lists of the file or with an error.
THEOREM ReaderIsStore == Spec => StoreSpec
<1>1. Init => Store!Init
  BY PageCacheInit
<1>2. PageCacheIInv /\ [Next]_graphVars => [Store!Next]_(Store!nodeStoreVars)
  BY PageCacheStep DEF storeVars, Store!nodeStoreVars
<1> QED
  BY <1>1, <1>2, PageCacheInvariance, PTL DEF Spec, StoreSpec, Store!Spec

-----------------------------------------------------------------------------
(* The shared graph *)

Between == phase \in {"saving", "describe"}

\* A whole description names the graph it is beside.
Described ==
  \A s \in Stems :
    s \notin torn /\ ~(s = Here /\ Between) /\ metaFile[s] \in Configs =>
      graphFile[s] = metaFile[s]

\* What the run in progress knows of its files.
RunInv ==
  /\ phase \in {"save", "saving", "describe", "describing"} => used = config
  /\ phase \in {"describe", "describing"} => graphFile[Here] = config
  /\ phase \in {"load", "search"} => graphFile[Here] # NoFile /\ metaFile[Here] = config
  /\ phase = "search" /\ Here \notin torn => used = config

\* The files of a stem since its last completed run.
Kept ==
  \A s \in Stems :
    lastRun[s] \in Configs =>
      \/ metaFile[s] = lastRun[s] /\ graphFile[s] # NoFile
      \/ s = Here /\ phase \in {"saving", "describe", "describing", "search"}

SharedIInv == SharedTypeOK /\ Described /\ RunInv /\ Kept /\ CompletedBuildIsReused

\* A stem of some parameters is a stem.
LEMMA StemOf == ASSUME NEW c \in Configs PROVE Stem(c) \in Stems
  BY DEF Stems

\* Nothing is described before the first run.
LEMMA SharedInitHolds == SharedInit => SharedIInv
  BY StemOf, FileAssumption
     DEF SharedInit, SharedIInv, SharedTypeOK, Described, RunInv, Kept, CompletedBuildIsReused, Files, Phases, Between

\* Every step of a run, and its death, keep the invariant.
LEMMA SharedStepHolds == SharedIInv /\ [SharedNext]_sharedVars => SharedIInv'
<1> SUFFICES ASSUME SharedIInv, [SharedNext]_sharedVars PROVE SharedIInv'
  OBVIOUS
<1> USE FileAssumption DEF SharedIInv, SharedTypeOK, Files, Phases
<1>1. Here \in Stems
  BY StemOf DEF Here
<1>2. ASSUME NEW c \in Configs, Start(c) PROVE SharedIInv'
  BY <1>2, StemOf DEF Start, IsValid, Here, Described, RunInv, Kept, CompletedBuildIsReused, Between
<1>3. CASE LoadGraph
  BY <1>1, <1>3 DEF LoadGraph, Here, Described, RunInv, Kept, CompletedBuildIsReused, Between
<1>4. CASE BuildGraph
  BY <1>1, <1>4 DEF BuildGraph, Here, Described, RunInv, Kept, CompletedBuildIsReused, Between
<1>5. CASE SaveGraph
  BY <1>1, <1>5 DEF SaveGraph, Here, Described, RunInv, Kept, CompletedBuildIsReused, Between
<1>6. CASE GraphSaved
  BY <1>1, <1>6 DEF GraphSaved, Here, Described, RunInv, Kept, CompletedBuildIsReused, Between
<1>7. CASE WriteMeta
  BY <1>1, <1>7 DEF WriteMeta, Here, Described, RunInv, Kept, CompletedBuildIsReused, Between
<1>8. CASE MetaWritten
  BY <1>1, <1>8 DEF MetaWritten, Here, Described, RunInv, Kept, CompletedBuildIsReused, Between
<1>9. CASE Finish
  BY <1>1, <1>9 DEF Finish, Here, Described, RunInv, Kept, CompletedBuildIsReused, Between
<1>10. CASE Crash
  BY <1>1, <1>10 DEF Crash, Here, Described, RunInv, Kept, CompletedBuildIsReused, Between
<1>11. CASE UNCHANGED sharedVars
  BY <1>11 DEF sharedVars, Here, Described, RunInv, Kept, CompletedBuildIsReused, Between
<1> QED
  BY <1>2, <1>3, <1>4, <1>5, <1>6, <1>7, <1>8, <1>9, <1>10, <1>11 DEF SharedNext

\* The invariant of the cache, of which the properties are consequences.
THEOREM SharedInvariance == SharedSpec => []SharedIInv
<1> QED
  BY SharedInitHolds, SharedStepHolds, PTL DEF SharedSpec

\* Every variable has its type: in particular a run has a graph only once it
\* has loaded or built one.
THEOREM SharedTypeCorrect == SharedSpec => []SharedTypeOK
<1>1. SharedIInv => SharedTypeOK
  BY DEF SharedIInv
<1> QED
  BY <1>1, SharedInvariance, PTL

\* A run searches the graph of its own parameters, unless a run of the same
\* file name died between writing its graph and describing it.
THEOREM OwnGraphUnlessTorn == SharedSpec => []UsesOwnGraphUnlessTorn
<1>1. SharedIInv => UsesOwnGraphUnlessTorn
  BY DEF SharedIInv, RunInv, UsesOwnGraphUnlessTorn, UsesOwnGraph
<1> QED
  BY <1>1, SharedInvariance, PTL

\* The parameters of the last completed run of a name are never built again.
THEOREM NoNeedlessBuild == SharedSpec => []CompletedBuildIsReused
<1>1. SharedIInv => CompletedBuildIsReused
  BY DEF SharedIInv
<1> QED
  BY <1>1, SharedInvariance, PTL
=============================================================================
