-------------------------- MODULE AioReaderProofs --------------------------
(***************************************************************************)
(* Proofs about AioReader, for every file size, window size, coalescing    *)
(* limit and number of calls.  The argument: while a call is planning, the *)
(* blocks partition the part of the request already planned and lie below  *)
(* the rest (PlanInv); while a window is being read, every request in the  *)
(* kernel, every completion in the ring and every reaped event carries its *)
(* own token of the window (TokenInv), and a good completion means that    *)
(* the buffer of its block is filled (FillInv).  When the number of reaped *)
(* events equals the size of the window, counting shows that every token   *)
(* has come back, so nothing of the window is left in the kernel.          *)
(***************************************************************************)
EXTENDS AioReader, FiniteSetTheorems, WellFoundedInduction, TLAPS

Tokens(S) == {x.token : x \in S}

\* Blocks in file order, and at most MaxCoalesce long (by TypeOK).
BlocksOrdered ==
  \A i, j \in DOMAIN blocks :
    i < j => blocks[i].first_page + blocks[i].page_count <= blocks[j].first_page

PlanInv ==
  /\ unplanned \subseteq request
  /\ BlocksOrdered
  /\ \A p \in Nat :
       (p \in request \ unplanned) <=> (\E i \in DOMAIN blocks : p \in BlockPages(blocks[i]))
  /\ \A i \in DOMAIN blocks, p \in unplanned :
       blocks[i].first_page + blocks[i].page_count <= p
  /\ \A p \in request \ unplanned : p < PageCount

WindowInv ==
  /\ begin < Len(blocks)
  /\ submitted <= WindowCount
  /\ unplanned = {}
  /\ 1 .. begin \subseteq filled

TokenInv ==
  /\ \A r \in inflight : /\ r.read = reads /\ r.token \in 1 .. submitted
                         /\ r.block = begin + r.token
  /\ \A e \in ring \cup events : e.read = reads /\ e.token \in 1 .. submitted
  /\ \A e, f \in ring \cup events : e.token = f.token => e = f
  /\ \A r \in inflight, e \in ring \cup events : r.token # e.token
  /\ ring \cap events = {}

FillInv == \A e \in ring \cup events : e.good => begin + e.token \in filled

BusyInv ==
  /\ outcome = "busy" <=> pc \in BusyPcs
  /\ pc \in BusyPcs \ {"catch"} => PlanInv
  /\ pc \in {"submit", "reap", "check"} => WindowInv
  /\ pc \in BusyPcs => delivered = {}

KernelInv ==
  /\ pc \notin {"submit", "reap", "catch"} => inflight = {} /\ ring = {}
  /\ pc \in {"submit", "reap", "check", "catch"} => TokenInv /\ FillInv
  /\ pc = "plan" => events = {} /\ filled = {} /\ begin = 0 /\ submitted = 0
  /\ pc = "submit" => events = {} /\ submitted < WindowCount
  /\ pc \in {"reap", "check"} => submitted = WindowCount
  /\ pc = "reap" => Cardinality(events) < WindowCount
  /\ pc = "check" => Tokens(events) = 1 .. WindowCount
  /\ ~context => inflight = {} /\ ring = {}

IndInv == TypeOK /\ BusyInv /\ KernelInv /\ SuccessDeliversEveryPage

USE PageCountAssumption, PageLimitAssumption, MaxInflightAssumption,
    MaxCoalesceAssumption, MaxReadsAssumption

-----------------------------------------------------------------------------
(* Lemmas *)

\* Things with pairwise different tokens out of 1 .. n are at most n, and n
\* of them carry every token.
LEMMA TokenCounting ==
  ASSUME NEW S, NEW n \in Nat,
         \A x \in S : x.token \in 1 .. n,
         \A x, y \in S : x.token = y.token => x = y
  PROVE  /\ IsFiniteSet(S)
         /\ Cardinality(S) \in Nat
         /\ Cardinality(S) <= n
         /\ Cardinality(S) = n => Tokens(S) = 1 .. n
<1> DEFINE f == [x \in S |-> x.token]
<1>1. f \in Injection(S, 1 .. n)
  BY DEF Injection, IsInjective
<1>2. IsFiniteSet(1 .. n) /\ Cardinality(1 .. n) = n
  BY FS_Interval
<1>3. /\ IsFiniteSet(S)
      /\ Cardinality(S) <= Cardinality(1 .. n)
      /\ Cardinality(S) = Cardinality(1 .. n) <=> f \in Surjection(S, 1 .. n)
  <2> HIDE DEF f
  <2> QED  BY <1>1, <1>2, FS_Injection
<1>4. ASSUME f \in Surjection(S, 1 .. n)
      PROVE  Tokens(S) = 1 .. n
  <2>1. \A t \in 1 .. n : \E x \in S : f[x] = t
    BY <1>4 DEF Surjection
  <2>2. \A t \in 1 .. n : \E x \in S : x.token = t
    BY <2>1
  <2> QED  BY <2>2 DEF Tokens
<1> QED
  BY <1>2, <1>3, <1>4, FS_CardinalityType

\* The size of a window, and the last window.
LEMMA WindowCountFacts ==
  ASSUME TypeOK, begin < Len(blocks)
  PROVE  /\ WindowCount \in 1 .. MaxInflight
         /\ begin + WindowCount <= Len(blocks)
         /\ begin + MaxInflight >= Len(blocks) => begin + WindowCount = Len(blocks)
         /\ begin + MaxInflight < Len(blocks) => WindowCount = MaxInflight
  BY DEF WindowCount, TypeOK

\* A block has a position in the file and at least one page.
LEMMA BlockFacts ==
  ASSUME TypeOK, NEW i \in DOMAIN blocks
  PROVE  /\ i \in 1 .. Len(blocks)
         /\ blocks[i] \in Block
         /\ blocks[i].first_page \in Nat
         /\ blocks[i].page_count \in 1 .. MaxCoalesce
         /\ blocks[i].page_count \in Nat
<1>1. blocks \in Seq(Block)  BY DEF TypeOK
<1>2. i \in 1 .. Len(blocks) /\ blocks[i] \in Block  BY <1>1
<1> QED  BY <1>2 DEF Block

\* PageReadBatch::page finds a page that is in some block, and finds it there.
LEMMA PageLookup ==
  ASSUME TypeOK, BlocksOrdered, NEW p \in Nat,
         NEW i \in DOMAIN blocks, p \in BlockPages(blocks[i]), i \in filled
  PROVE  PageReadable(blocks, filled, p)
<1>1. blocks[i].first_page <= p /\ p < blocks[i].first_page + blocks[i].page_count
  BY BlockFacts DEF BlockPages
<1>2. ASSUME NEW j \in DOMAIN blocks, blocks[j].first_page <= p, ~(j <= i)
      PROVE  FALSE
  <2>1. i < j
    BY <1>2, BlockFacts
  <2>2. blocks[i].first_page + blocks[i].page_count <= blocks[j].first_page
    BY <2>1 DEF BlocksOrdered
  <2> QED  BY <1>1, <1>2, <2>2, BlockFacts
<1>3. \A k \in DOMAIN blocks :
        (/\ blocks[k].first_page <= p
         /\ \A j \in DOMAIN blocks : blocks[j].first_page <= p => j <= k)
        => k = i
  <2> SUFFICES ASSUME NEW k \in DOMAIN blocks, blocks[k].first_page <= p,
                      \A j \in DOMAIN blocks : blocks[j].first_page <= p => j <= k
               PROVE  k = i
    OBVIOUS
  <2>1. k <= i /\ i <= k
    BY <1>1, <1>2
  <2> QED  BY <2>1, BlockFacts
<1>4. LastBlockNotAfter(blocks, p) = i
  BY <1>1, <1>2, <1>3 DEF LastBlockNotAfter
<1> QED
  BY <1>1, <1>4 DEF PageReadable

-----------------------------------------------------------------------------
(* Planning: the loop over the sorted page ids *)

\* A set of page ids that is not empty has a least one.
LEMMA LeastNatural ==
  ASSUME NEW S \in SUBSET Nat, S # {}
  PROVE  \E p \in S : \A q \in S : p <= q
<1> DEFINE R == {ss \in Nat \X Nat : ss[1] < ss[2]}
<1>1. OpToRel(<, Nat) = R
  BY DEF OpToRel
<1>2. IsWellFoundedOn(R, Nat)
  BY <1>1, NatLessThanWellFounded
<1>3. \A p, q \in Nat : q < p => <<q, p>> \in R
  <2> TAKE p, q \in Nat
  <2> HAVE q < p
  <2>1. <<q, p>> \in Nat \X Nat /\ <<q, p>>[1] < <<q, p>>[2]
    OBVIOUS
  <2> QED  BY <2>1
<1> HIDE DEF R
<1>4. PICK p \in S : \A q \in S : ~(<<q, p>> \in R)
  BY <1>2, WFMin
<1>5. \A q \in S : ~(q < p)
  BY <1>3, <1>4
<1>6. \A q \in S : p <= q
  BY <1>5
<1> QED  BY <1>6

\* NextPage is the head of the sorted list.
LEMMA NextPageIsLeast ==
  ASSUME TypeOK, unplanned # {}
  PROVE  NextPage \in unplanned /\ \A q \in unplanned : NextPage <= q
<1>1. \E p \in unplanned : \A q \in unplanned : p <= q
  BY LeastNatural DEF TypeOK
<1> QED  BY <1>1 DEF NextPage

\* One more page keeps the blocks typed, ordered and exact.
LEMMA CoalesceKeepsPlan ==
  ASSUME TypeOK, PlanInv, NEW page \in unplanned, page < PageCount,
         \A q \in unplanned : page <= q,
         blocks' = Coalesce(page), unplanned' = unplanned \ {page},
         UNCHANGED request
  PROVE  blocks' \in Seq(Block) /\ PlanInv'
<1>n. PICK n \in Nat : n = Len(blocks) /\ DOMAIN blocks = 1 .. n
  BY DEF TypeOK
<1> DEFINE first(i) == blocks[i].first_page
           count(i) == blocks[i].page_count
           joins == /\ blocks # <<>>
                    /\ page = first(n) + count(n)
                    /\ count(n) < MaxCoalesce
<1>0. /\ page \in Nat /\ blocks \in Seq(Block) /\ DOMAIN blocks = 1 .. n
      /\ unplanned \subseteq Nat /\ request \subseteq Nat
      /\ page \in request
  BY <1>n DEF TypeOK, PlanInv
<1>1. \A i \in 1 .. n : /\ blocks[i] \in Block
                        /\ first(i) \in Nat /\ count(i) \in Nat /\ count(i) >= 1
  BY <1>0, BlockFacts
<1>2. \A i, j \in 1 .. n : i < j => first(i) + count(i) <= first(j)
  BY <1>0 DEF PlanInv, BlocksOrdered
<1>3. \A i \in 1 .. n, p \in unplanned : first(i) + count(i) <= p
  BY <1>0 DEF PlanInv
<1>4. CASE joins
  <2>1. n \in 1 .. n /\ n \in DOMAIN blocks
    BY <1>0, <1>4, <1>n
  <2>a. /\ page = first(n) + count(n) /\ count(n) < MaxCoalesce
        /\ first(n) \in Nat /\ count(n) \in Nat
    BY <1>1, <1>4, <2>1
  <2> DEFINE grown == [blocks[n] EXCEPT !.page_count = @ + 1]
  <2>2. grown \in Block /\ grown.first_page = first(n) /\ grown.page_count = count(n) + 1
    BY <1>1, <2>1, <2>a DEF Block
  <2>3. blocks' = [blocks EXCEPT ![n] = grown]
    BY <1>4, <1>n DEF Coalesce
  <2> HIDE DEF grown
  <2>4. /\ blocks' \in Seq(Block) /\ DOMAIN blocks' = 1 .. n
        /\ \A i \in 1 .. n : i # n => blocks'[i] = blocks[i]
        /\ blocks'[n] = grown
    <3>1. blocks \in [1 .. n -> Block]
      BY <1>0, <1>n
    <3>2. blocks' \in [1 .. n -> Block]
      BY <2>2, <2>3, <3>1
    <3> QED  BY <2>1, <2>3, <3>1, <3>2
  <2>5. \A i \in 1 .. n : /\ blocks'[i].first_page = first(i)
                          /\ i # n => blocks'[i].page_count = count(i)
                          /\ i = n => blocks'[i].page_count = count(i) + 1
    BY <2>2, <2>4
  <2>6. BlocksOrdered'
    <3> SUFFICES ASSUME NEW i \in 1 .. n, NEW j \in 1 .. n, i < j
                 PROVE  blocks'[i].first_page + blocks'[i].page_count <= blocks'[j].first_page
      BY <2>4 DEF BlocksOrdered
    <3>1. i # n  BY <1>0
    <3> QED  BY <1>2, <2>5, <3>1
  <2>7. \A p \in Nat : (\E i \in DOMAIN blocks' : p \in BlockPages(blocks'[i]))
           <=> p = page \/ \E i \in DOMAIN blocks : p \in BlockPages(blocks[i])
    <3> TAKE p \in Nat
    <3>1. \A i \in 1 .. n : i # n => BlockPages(blocks'[i]) = BlockPages(blocks[i])
      BY <2>4
    <3>2. p \in BlockPages(blocks'[n]) <=> p = page \/ p \in BlockPages(blocks[n])
      <4>1. blocks'[n].first_page = first(n) /\ blocks'[n].page_count = count(n) + 1
        BY <2>1, <2>5
      <4>2. \A f, c \in Nat : p \in f .. (f + (c + 1) - 1) <=> p = f + c \/ p \in f .. (f + c - 1)
        OBVIOUS
      <4>3. BlockPages(blocks'[n]) = first(n) .. (first(n) + (count(n) + 1) - 1)
        BY <4>1 DEF BlockPages
      <4>4. BlockPages(blocks[n]) = first(n) .. (first(n) + count(n) - 1)
        BY DEF BlockPages
      <4> HIDE DEF first, count
      <4> QED  BY <2>a, <4>2, <4>3, <4>4
    <3> QED  BY <1>0, <2>1, <2>4, <3>1, <3>2
  <2>8. \A i \in DOMAIN blocks', p \in unplanned' :
          blocks'[i].first_page + blocks'[i].page_count <= p
    <3> SUFFICES ASSUME NEW i \in 1 .. n, NEW p \in unplanned, p # page
                 PROVE  blocks'[i].first_page + blocks'[i].page_count <= p
      BY <2>4
    <3>1. p > page /\ p \in Nat  BY <1>0
    <3>2. CASE i = n  BY <1>0, <2>a, <2>5, <3>1, <3>2
    <3>3. CASE i # n  BY <1>1, <1>3, <2>5, <3>1, <3>3
    <3> QED  BY <3>2, <3>3
  <2> QED  BY <1>0, <2>4, <2>6, <2>7, <2>8 DEF PlanInv
<1>5. CASE ~joins
  <2> DEFINE fresh == NewBlock(page)
  <2>1. fresh \in Block /\ fresh.first_page = page /\ fresh.page_count = 1
    BY <1>0 DEF NewBlock, Block
  <2>2. blocks' = Append(blocks, fresh)
    BY <1>5, <1>n DEF Coalesce
  <2> HIDE DEF fresh
  <2>3. /\ blocks' \in Seq(Block) /\ DOMAIN blocks' = 1 .. n + 1
        /\ \A i \in 1 .. n : blocks'[i] = blocks[i]
        /\ blocks'[n + 1] = fresh
    BY <1>0, <1>n, <2>1, <2>2
  <2>4. BlocksOrdered'
    <3> SUFFICES ASSUME NEW i \in 1 .. n + 1, NEW j \in 1 .. n + 1, i < j
                 PROVE  blocks'[i].first_page + blocks'[i].page_count <= blocks'[j].first_page
      BY <2>3 DEF BlocksOrdered
    <3>1. i \in 1 .. n  BY <1>0
    <3>2. CASE j = n + 1  BY <1>3, <2>1, <2>3, <3>1, <3>2
    <3>3. CASE j # n + 1
      <4>1. j \in 1 .. n  BY <1>0, <3>3
      <4> QED  BY <1>2, <2>3, <3>1, <4>1
    <3> QED  BY <3>2, <3>3
  <2>5. \A p \in Nat : (\E i \in DOMAIN blocks' : p \in BlockPages(blocks'[i]))
           <=> p = page \/ \E i \in DOMAIN blocks : p \in BlockPages(blocks[i])
    <3> TAKE p \in Nat
    <3>1. \A i \in 1 .. n : BlockPages(blocks'[i]) = BlockPages(blocks[i])
      BY <2>3
    <3>2. p \in BlockPages(blocks'[n + 1]) <=> p = page
      BY <1>0, <2>1, <2>3 DEF BlockPages
    <3>3. n + 1 \in 1 .. n + 1 /\ \A i \in 1 .. n + 1 : i \in 1 .. n \/ i = n + 1
      BY <1>0
    <3>4. \A i \in 1 .. n : i \in 1 .. n + 1
      BY <1>0
    <3> QED  BY <1>0, <2>3, <3>1, <3>2, <3>3, <3>4
  <2>6. \A i \in DOMAIN blocks', p \in unplanned' :
          blocks'[i].first_page + blocks'[i].page_count <= p
    <3> SUFFICES ASSUME NEW i \in 1 .. n + 1, NEW p \in unplanned, p # page
                 PROVE  blocks'[i].first_page + blocks'[i].page_count <= p
      BY <2>3
    <3>1. p > page /\ p \in Nat  BY <1>0
    <3>2. CASE i = n + 1  BY <1>0, <2>1, <2>3, <3>1, <3>2
    <3>3. CASE i # n + 1
      <4>1. i \in 1 .. n  BY <1>0, <3>3
      <4> QED  BY <1>3, <2>3, <4>1
    <3> QED  BY <3>2, <3>3
  <2> QED  BY <1>0, <2>3, <2>4, <2>5, <2>6 DEF PlanInv
<1> QED  BY <1>4, <1>5

-----------------------------------------------------------------------------
(* The inductive invariant *)

\* A reader that was never opened satisfies the invariant.
LEMMA InitIndInv == Init => IndInv
<1> SUFFICES ASSUME Init PROVE IndInv
  OBVIOUS
<1>1. TypeOK
  <2>1. <<>> \in Seq(Block) /\ 0 \in 0 .. MaxInflight  OBVIOUS
  <2>2. fd \in BOOLEAN /\ context \in BOOLEAN  BY DEF Init
  <2> QED  BY <2>1, <2>2 DEF Init, TypeOK, PcValues
<1>2. BusyInv
  BY DEF Init, BusyInv, BusyPcs
<1>3. KernelInv
  BY DEF Init, KernelInv
<1> QED  BY <1>1, <1>2, <1>3 DEF Init, IndInv, SuccessDeliversEveryPage

\* What Deliver returns when every block is planned and filled.
LEMMA DeliverComplete ==
  ASSUME TypeOK, PlanInv, unplanned = {}, DOMAIN blocks \subseteq filled, Deliver
  PROVE  delivered' = request /\ request \subseteq FilePages
<1>1. \A p \in request : PageReadable(blocks, filled, p)
  <2> TAKE p \in request
  <2>1. p \in Nat  BY DEF TypeOK
  <2>2. PICK i \in DOMAIN blocks : p \in BlockPages(blocks[i])
    BY <2>1 DEF PlanInv
  <2> QED  BY <2>1, <2>2, PageLookup DEF PlanInv
<1>2. request \subseteq FilePages
  BY DEF PlanInv, TypeOK, FilePages
<1> QED  BY <1>1, <1>2 DEF Deliver

\* When as many events as the window has blocks have been reaped, every token
\* is back and nothing of the window is left in the kernel.
LEMMA WindowReaped ==
  ASSUME TypeOK', TokenInv', submitted' = WindowCount', WindowCount' \in Nat,
         Cardinality(events') = WindowCount'
  PROVE  Tokens(events') = 1 .. WindowCount' /\ inflight' = {} /\ ring' = {}
<1>1. Tokens(events') = 1 .. WindowCount'
  BY TokenCounting DEF TokenInv
<1>2. \A t \in 1 .. WindowCount' : \E e \in events' : e.token = t
  BY <1>1 DEF Tokens
<1> QED  BY <1>1, <1>2 DEF TokenInv

\* Every step of the reader, its caller and the kernel keeps the invariant.
LEMMA NextIndInv == IndInv /\ [Next]_vars => IndInv'
<1> SUFFICES ASSUME IndInv, [Next]_vars PROVE IndInv'
  OBVIOUS
<1> USE DEF IndInv
<1>t. TypeOK /\ BusyInv /\ KernelInv /\ SuccessDeliversEveryPage
  OBVIOUS
<1>1. CASE Open
  BY <1>1, <1>t DEF Open, TypeOK, PcValues, BusyPcs, BusyInv, KernelInv, SuccessDeliversEveryPage,
     readVars, kernelVars
<1>2. CASE Close
  <2>1. inflight' = {} /\ ring' = {}
    BY <1>2, <1>t DEF Close, KernelInv, IoDestroy, kernelVars
  <2>2. TypeOK'
    <3>1. <<>> \in Seq(Block) /\ 0 \in 0 .. MaxInflight  OBVIOUS
    <3>2. fd' \in BOOLEAN /\ context' \in BOOLEAN  BY <1>2 DEF Close
    <3> QED  BY <1>2, <2>1, <3>1, <3>2 DEF Close, TypeOK, PcValues
  <2>3. BusyInv' /\ KernelInv' /\ SuccessDeliversEveryPage'
    BY <1>2, <2>1 DEF Close, BusyPcs, BusyInv, KernelInv, SuccessDeliversEveryPage
  <2> QED  BY <2>2, <2>3
<1>3. ASSUME NEW ids \in SUBSET Pages, ReadPages(ids) PROVE IndInv'
  BY <1>3, <1>t DEF ReadPages, TypeOK, PcValues, BusyPcs, BusyInv, KernelInv, PlanInv, BlocksOrdered,
     SuccessDeliversEveryPage, Pages, kernelVars
<1>4. CASE PlanPage
  <2>1. NextPage \in unplanned /\ \A q \in unplanned : NextPage <= q
    BY <1>4, NextPageIsLeast DEF PlanPage
  <2>2. blocks' \in Seq(Block) /\ PlanInv'
    BY <1>4, <1>t, <2>1, CoalesceKeepsPlan DEF PlanPage, BusyInv, BusyPcs, PcValues
  <2> QED
    BY <1>4, <1>t, <2>2 DEF PlanPage, TypeOK, PcValues, BusyPcs, BusyInv, KernelInv,
       SuccessDeliversEveryPage, kernelVars
<1>5. CASE PlanOutOfRange
  BY <1>5, <1>t DEF PlanOutOfRange, TypeOK, PcValues, BusyPcs, BusyInv, KernelInv,
     SuccessDeliversEveryPage, kernelVars
<1>6. CASE PlanDone
  <2>1. PlanInv /\ unplanned = {} /\ filled = {} /\ begin = 0
    BY <1>6, <1>t DEF PlanDone, BusyInv, BusyPcs, PcValues, KernelInv
  <2>2. CASE blocks = <<>>
    <3>1. delivered' = request /\ request \subseteq FilePages
      BY <1>6, <1>t, <2>1, <2>2, DeliverComplete DEF PlanDone
    <3> QED
      BY <1>6, <1>t, <2>2, <3>1 DEF PlanDone, Deliver, TypeOK, PcValues, BusyPcs, BusyInv,
         KernelInv, SuccessDeliversEveryPage, readVars, kernelVars
  <2>3. CASE blocks # <<>>
    <3>1. pc' = "submit" /\ UNCHANGED <<outcome, delivered, fd, context, reads, readVars, kernelVars>>
      BY <1>6, <2>3 DEF PlanDone
    <3>2. begin < Len(blocks) /\ WindowCount \in 1 .. MaxInflight /\ WindowCount' = WindowCount
      BY <1>t, <2>1, <2>3, <3>1, WindowCountFacts DEF TypeOK, WindowCount, readVars
    <3>3. TypeOK'
      BY <1>t, <3>1 DEF TypeOK, PcValues, readVars, kernelVars
    <3>4. BusyInv'
      BY <1>6, <1>t, <2>1, <3>1, <3>2 DEF PlanDone, BusyInv, BusyPcs, PcValues, PlanInv, BlocksOrdered,
         WindowInv, KernelInv, readVars
    <3>5. KernelInv'
      BY <1>6, <1>t, <2>1, <3>1, <3>2 DEF PlanDone, KernelInv, TokenInv, FillInv, readVars, kernelVars
    <3> QED  BY <1>6, <1>t, <3>1, <3>3, <3>4, <3>5
         DEF PlanDone, SuccessDeliversEveryPage, BusyInv, BusyPcs, PcValues
  <2> QED  BY <2>2, <2>3
<1>7. ASSUME NEW n \in 1 .. MaxInflight, IoSubmit(n) PROVE IndInv'
  <2> USE <1>7
  <2>1. PlanInv /\ WindowInv /\ TokenInv /\ FillInv /\ events = {}
    BY <1>t DEF IoSubmit, BusyInv, BusyPcs, PcValues, KernelInv
  <2>2. /\ WindowCount \in 1 .. MaxInflight /\ WindowCount' = WindowCount
        /\ submitted' <= WindowCount /\ submitted' = submitted + n
    BY <1>t, <2>1, WindowCountFacts DEF IoSubmit, WindowInv, WindowCount, TypeOK
  <2>3. \A r \in inflight' : r \in inflight
           \/ \E t \in (submitted + 1) .. (submitted + n) :
                r = [read |-> reads, token |-> t, block |-> begin + t]
    BY DEF IoSubmit
  <2>4. TypeOK'
    BY <1>t, <2>2, <2>3 DEF IoSubmit, TypeOK, PcValues, Request
  <2>5. TokenInv' /\ FillInv'
    BY <1>t, <2>1, <2>2, <2>3 DEF IoSubmit, TokenInv, FillInv, TypeOK, KernelInv
  <2>6. BusyInv'
    BY <1>t, <2>1, <2>2 DEF IoSubmit, BusyInv, BusyPcs, PcValues, PlanInv, BlocksOrdered, WindowInv
  <2>7. KernelInv'
    <3>1. /\ pc' = "reap" => submitted' = WindowCount'
          /\ pc' = "submit" => submitted' < WindowCount'
          /\ pc' \in {"submit", "reap"} /\ context' /\ events' = {}
      BY <1>t, <2>1, <2>2 DEF IoSubmit, TypeOK
    <3>2. Cardinality(events') < WindowCount'
      BY <2>2, <3>1, FS_EmptySet
    <3> QED  BY <2>5, <3>1, <3>2 DEF KernelInv
  <2> QED  BY <1>t, <2>4, <2>6, <2>7 DEF IoSubmit, SuccessDeliversEveryPage
<1>8. CASE IoSubmitFails
  BY <1>8, <1>t DEF IoSubmitFails, TypeOK, PcValues, BusyPcs, BusyInv, KernelInv, TokenInv, FillInv,
     SuccessDeliversEveryPage, readVars, kernelVars
<1>9. ASSUME NEW got \in SUBSET ring, IoGetevents(got) PROVE IndInv'
  <2> USE <1>9
  <2>1. PlanInv /\ WindowInv /\ TokenInv /\ FillInv /\ submitted = WindowCount
    BY <1>t DEF IoGetevents, BusyInv, BusyPcs, PcValues, KernelInv
  <2>2. /\ WindowCount \in 1 .. MaxInflight /\ WindowCount' = WindowCount
        /\ submitted' = submitted /\ begin' = begin
    BY <1>t, <2>1, WindowCountFacts DEF IoGetevents, WindowInv, WindowCount
  <2>3. TypeOK'
    BY <1>t, <2>2 DEF IoGetevents, TypeOK, PcValues
  <2>4. TokenInv' /\ FillInv'
    BY <1>t, <2>1, <2>2 DEF IoGetevents, TokenInv, FillInv
  <2>5. Cardinality(events') \in Nat /\ Cardinality(events') <= WindowCount
    <3>1. \A x \in events' : x.token \in 1 .. WindowCount
      BY <2>1, <2>2, <2>4 DEF TokenInv
    <3>2. \A x, y \in events' : x.token = y.token => x = y
      BY <2>4 DEF TokenInv
    <3> QED  BY <2>2, <3>1, <3>2, TokenCounting
  <2>6. BusyInv'
    BY <1>t, <2>1, <2>2 DEF IoGetevents, BusyInv, BusyPcs, PcValues, PlanInv, BlocksOrdered, WindowInv
  <2>7. CASE Cardinality(events') = WindowCount
    <3>1. (Tokens(events) = 1 .. WindowCount /\ inflight = {} /\ ring = {})'
      BY <2>1, <2>2, <2>3, <2>4, <2>7, WindowReaped
    <3>2. KernelInv'
      BY <1>t, <2>1, <2>2, <2>4, <2>7, <3>1 DEF IoGetevents, KernelInv
    <3> QED  BY <1>t, <2>3, <2>6, <3>2 DEF IoGetevents, SuccessDeliversEveryPage
  <2>8. CASE Cardinality(events') # WindowCount
    <3>1. KernelInv'
      BY <1>t, <2>1, <2>2, <2>4, <2>5, <2>8 DEF IoGetevents, KernelInv
    <3> QED  BY <1>t, <2>3, <2>6, <3>1 DEF IoGetevents, SuccessDeliversEveryPage
  <2> QED  BY <2>7, <2>8
<1>10. CASE IoGeteventsFails
  BY <1>10, <1>t DEF IoGeteventsFails, TypeOK, PcValues, BusyPcs, BusyInv, KernelInv, TokenInv, FillInv,
     SuccessDeliversEveryPage, readVars, kernelVars
<1>11. CASE CheckWindow
  <2>1. /\ PlanInv /\ WindowInv /\ TokenInv /\ FillInv /\ submitted = WindowCount
        /\ inflight = {} /\ ring = {} /\ Tokens(events) = 1 .. WindowCount
    BY <1>11, <1>t DEF CheckWindow, BusyInv, BusyPcs, PcValues, KernelInv
  <2>2. /\ WindowCount \in 1 .. MaxInflight /\ begin + WindowCount <= Len(blocks)
        /\ begin + MaxInflight >= Len(blocks) => begin + WindowCount = Len(blocks)
        /\ begin + MaxInflight < Len(blocks) => WindowCount = MaxInflight
    BY <1>t, <2>1, WindowCountFacts DEF WindowInv
  <2>3. \A t \in 1 .. WindowCount : begin + t \in filled
    <3> TAKE t \in 1 .. WindowCount
    <3>1. PICK e \in events : e.token = t
      BY <2>1 DEF Tokens
    <3> QED  BY <1>11, <2>1, <3>1 DEF CheckWindow, EventAccepted, FillInv
  <2>4. 1 .. (begin + WindowCount) \subseteq filled
    <3> SUFFICES ASSUME NEW i \in 1 .. (begin + WindowCount) PROVE i \in filled
      OBVIOUS
    <3>1. begin \in Nat  BY <1>t DEF TypeOK
    <3>2. CASE i <= begin  BY <2>1, <3>1, <3>2 DEF WindowInv
    <3>3. CASE i > begin
      <4>1. i - begin \in 1 .. WindowCount  BY <2>2, <3>1, <3>3
      <4>2. begin + (i - begin) = i  BY <2>2, <3>1
      <4> QED  BY <2>3, <4>1, <4>2
    <3> QED  BY <2>2, <3>1, <3>2, <3>3
  <2>5. CASE begin + MaxInflight < Len(blocks)
    <3>1. /\ begin' = begin + MaxInflight /\ submitted' = 0 /\ events' = {} /\ pc' = "submit"
          /\ UNCHANGED <<outcome, delivered, fd, context, reads, request, unplanned, blocks, filled,
                         inflight, ring>>
      BY <1>11, <2>5 DEF CheckWindow, kernelVars
    <3>2. TypeOK'
      BY <1>t, <3>1 DEF TypeOK, PcValues
    <3>3. WindowCount' \in 1 .. MaxInflight
      BY <3>1, <2>5, <3>2 DEF WindowCount, TypeOK
    <3>4. BusyInv'
      BY <1>11, <1>t, <2>1, <2>2, <2>4, <2>5, <3>1, <3>3 DEF CheckWindow, BusyInv, BusyPcs, PcValues,
         PlanInv, BlocksOrdered, WindowInv
    <3>5. KernelInv'
      BY <2>1, <3>1, <3>3 DEF KernelInv, TokenInv, FillInv
    <3> QED  BY <1>t, <3>1, <3>2, <3>4, <3>5 DEF SuccessDeliversEveryPage
  <2>6. CASE ~(begin + MaxInflight < Len(blocks))
    <3>1. Deliver /\ UNCHANGED <<begin, submitted, events, fd, context, reads, request, unplanned,
                                 blocks, filled, inflight, ring>>
      BY <1>11, <2>6 DEF CheckWindow, kernelVars
    <3>2. DOMAIN blocks \subseteq filled
      BY <1>t, <2>2, <2>4, <2>6 DEF TypeOK
    <3>3. delivered' = request /\ request \subseteq FilePages
      BY <1>t, <2>1, <3>1, <3>2, DeliverComplete DEF WindowInv
    <3>4. TypeOK'
      BY <1>t, <3>1, <3>3 DEF TypeOK, PcValues, Deliver
    <3> QED  BY <2>1, <3>1, <3>3, <3>4 DEF Deliver, BusyInv, BusyPcs, KernelInv, SuccessDeliversEveryPage
  <2> QED  BY <2>5, <2>6
<1>12. CASE CheckWindowFails
  BY <1>12, <1>t DEF CheckWindowFails, TypeOK, PcValues, BusyPcs, BusyInv, KernelInv, TokenInv, FillInv,
     SuccessDeliversEveryPage, readVars, kernelVars
<1>13. ASSUME NEW ok \in BOOLEAN, ResetContext(ok) PROVE IndInv'
  BY <1>13, <1>t DEF ResetContext, IoDestroy, TypeOK, PcValues, BusyPcs, BusyInv, KernelInv,
     SuccessDeliversEveryPage, kernelVars
<1>14. ASSUME NEW r \in inflight, NEW good \in BOOLEAN, KernelComplete(r, good) PROVE IndInv'
  <2> USE <1>14
  <2> DEFINE e == [read |-> r.read, token |-> r.token, good |-> good]
  <2>1. pc \in {"submit", "reap", "catch"} /\ TokenInv /\ FillInv /\ context
    BY <1>t DEF KernelInv, TypeOK
  <2>2. r \in Request /\ r.read = reads /\ r.token \in 1 .. submitted /\ r.block = begin + r.token
    BY <1>t, <2>1 DEF TypeOK, TokenInv
  <2>3. e \in Event /\ e.read = reads /\ e.token = r.token /\ e.good = good
    BY <2>2 DEF Request, Event
  <2>4. /\ inflight' = inflight \ {r} /\ ring' = ring \cup {e} /\ filled \subseteq filled'
        /\ good => begin + r.token \in filled'
        /\ filled' \subseteq filled \cup {begin + r.token}
        /\ UNCHANGED <<pc, fd, context, reads, request, unplanned, blocks, begin,
                       submitted, events, outcome, delivered>>
    BY <2>2 DEF KernelComplete
  <2> HIDE DEF e
  <2>5. TypeOK'
    BY <1>t, <2>2, <2>3, <2>4 DEF TypeOK
  <2>6. TokenInv' /\ FillInv'
    <3>1. \A x \in inflight : x \in Request  BY <1>t DEF TypeOK
    <3>2. \A x \in inflight : x.token = r.token => x = r
      BY <2>1, <2>2, <3>1 DEF TokenInv, Request
    <3>3. \A x \in ring \cup events : x.token # e.token
      BY <2>1, <2>3 DEF TokenInv
    <3> QED  BY <2>1, <2>2, <2>3, <2>4, <3>2, <3>3 DEF TokenInv, FillInv
  <2>7. WindowCount' = WindowCount
    BY <2>4 DEF WindowCount
  <2>8. BusyInv'
    BY <1>t, <2>4, <2>7 DEF BusyInv, PlanInv, BlocksOrdered, WindowInv
  <2>9. KernelInv'
    BY <1>t, <2>1, <2>4, <2>6, <2>7 DEF KernelInv
  <2> QED  BY <1>t, <2>4, <2>5, <2>8, <2>9 DEF SuccessDeliversEveryPage
<1>15. CASE UNCHANGED vars
  BY <1>15, <1>t DEF vars, readVars, kernelVars, TypeOK, BusyInv, KernelInv, PlanInv, WindowInv, TokenInv, FillInv,
     BlocksOrdered, WindowCount, Tokens, SuccessDeliversEveryPage
<1> QED
  BY <1>1, <1>2, <1>3, <1>4, <1>5, <1>6, <1>7, <1>8, <1>9, <1>10, <1>11, <1>12,
     <1>13, <1>14, <1>15 DEF Next, Caller, ReaderProgress, CallFails, Kernel

THEOREM Invariance == Spec => []IndInv
<1> QED  BY InitIndInv, NextIndInv, PTL DEF Spec

-----------------------------------------------------------------------------
(* What the invariant gives *)

\* Every value keeps its type; in particular no window is larger than
\* max_inflight_ and no block longer than max_coalesce_pages_.
THEOREM TypeCorrect == Spec => []TypeOK
<1>1. IndInv => TypeOK  BY DEF IndInv
<1> QED  BY <1>1, Invariance, PTL

\* No request and no completion outlives the call of read_pages that made it.
THEOREM ReadsAreIsolated == Spec => []NothingOutlivesItsRead
<1>1. IndInv => NothingOutlivesItsRead
  <2> SUFFICES ASSUME IndInv, NEW r \in inflight \cup ring
               PROVE  r.read = reads /\ pc \in {"submit", "reap", "catch"}
    BY DEF NothingOutlivesItsRead
  <2>1. pc \in {"submit", "reap", "catch"}
    BY DEF IndInv, KernelInv
  <2> QED  BY <2>1 DEF IndInv, KernelInv, TokenInv
<1> QED  BY <1>1, Invariance, PTL

\* The AIO context never has to hold more than its capacity.
THEOREM CapacitySuffices == Spec => []ContextCapacityRespected
<1>1. IndInv => ContextCapacityRespected
  <2> SUFFICES ASSUME IndInv PROVE ContextCapacityRespected
    OBVIOUS
  <2>1. CASE pc \notin {"submit", "reap", "catch"}
    <3>1. inflight = {} /\ ring = {}
      BY <2>1 DEF IndInv, KernelInv
    <3>2. Cardinality(inflight) = 0 /\ Cardinality(ring) = 0
      BY <3>1, FS_EmptySet
    <3> QED  BY <3>2 DEF ContextCapacityRespected
  <2>2. CASE pc \in {"submit", "reap", "catch"}
    <3>1. TokenInv /\ TypeOK /\ submitted \in Nat /\ submitted <= MaxInflight
      BY <2>2 DEF IndInv, KernelInv, TypeOK
    <3>2. \A x, y \in inflight : x.token = y.token => x = y
      BY <3>1 DEF TokenInv, TypeOK, Request
    <3>3. \A x, y \in inflight \cup ring : x.token = y.token => x = y
      BY <3>1, <3>2 DEF TokenInv
    <3>4. \A x \in inflight \cup ring : x.token \in 1 .. submitted
      BY <3>1 DEF TokenInv
    <3>5. IsFiniteSet(inflight \cup ring) /\ Cardinality(inflight \cup ring) <= submitted
      BY <3>1, <3>3, <3>4, TokenCounting
    <3>6. IsFiniteSet(inflight) /\ IsFiniteSet(ring)
      BY <3>5, FS_Subset
    <3>7. inflight \cap ring = {}
      BY <3>1 DEF TokenInv
    <3>8. Cardinality(inflight \cup ring) = Cardinality(inflight) + Cardinality(ring) - 0
      BY <3>6, <3>7, FS_Union, FS_EmptySet
    <3> QED  BY <3>1, <3>5, <3>6, <3>8, FS_CardinalityType DEF ContextCapacityRespected
  <2> QED  BY <2>1, <2>2
<1> QED  BY <1>1, Invariance, PTL

\* A read that returns without an error holds every requested page.
THEOREM ReadsAreComplete == Spec => []SuccessDeliversEveryPage
<1>1. IndInv => SuccessDeliversEveryPage  BY DEF IndInv
<1> QED  BY <1>1, Invariance, PTL

\* While a planned read is in progress its blocks partition the request.
THEOREM BlocksAreExact == Spec => []BlocksPartitionRequest
<1>1. IndInv => BlocksPartitionRequest
  <2> SUFFICES ASSUME IndInv, pc \in {"submit", "reap", "check"}
               PROVE  BlocksPartitionRequest
    BY DEF BlocksPartitionRequest
  <2>1. TypeOK /\ PlanInv /\ unplanned = {}
    BY DEF IndInv, BusyInv, BusyPcs, PcValues, WindowInv
  <2>2. \A i \in DOMAIN blocks : blocks[i].page_count \in 1 .. MaxCoalesce
    BY <2>1, BlockFacts
  <2> QED  BY <2>1, <2>2 DEF BlocksPartitionRequest, PlanInv, BlocksOrdered
<1> QED  BY <1>1, Invariance, PTL

\* AioReader implements PageStore: each call is answered once, with all of its
\* pages or with an error and none, and only pages of the file are answered.
THEOREM ImplementsPageStore == Spec => StoreSpec
<1>1. Init => Store!Init
  BY DEF Init, Store!Init
<1>2. IndInv /\ IndInv' /\ [Next]_vars => [Store!Next]_(Store!pageStoreVars)
  <2> SUFFICES ASSUME IndInv, IndInv', [Next]_vars
               PROVE  [Store!Next]_(Store!pageStoreVars)
    OBVIOUS
  <2> USE DEF Store!Next, Store!pageStoreVars
  <2>b. /\ outcome = "busy" <=> pc \in BusyPcs
        /\ pc \in BusyPcs => delivered = {}
        /\ outcome' = "ok" => delivered' = request' /\ request' \subseteq FilePages
    BY DEF IndInv, BusyInv, SuccessDeliversEveryPage
  <2>1. CASE UNCHANGED <<request, outcome, delivered>>
    BY <2>1
  <2>2. CASE Close
    BY <2>2, <2>b DEF Close, Store!Reopen, BusyPcs
  <2>3. ASSUME NEW ids \in SUBSET Pages, ReadPages(ids)
        PROVE  Store!Ask
    BY <2>3, <2>b DEF ReadPages, Store!Ask, BusyPcs
  <2>4. CASE PlanOutOfRange
    BY <2>4, <2>b DEF PlanOutOfRange, Store!AnswerError, BusyPcs, PcValues
  <2>5. ASSUME Deliver, pc \in BusyPcs, UNCHANGED request
        PROVE  Store!AnswerPages
    <3>1. outcome = "busy" /\ outcome' = "ok" /\ request' = request
      BY <2>5, <2>b DEF Deliver
    <3>2. delivered' = request /\ request \subseteq FilePages
      BY <2>b, <3>1
    <3> QED  BY <3>1, <3>2 DEF Store!AnswerPages
  <2>6. CASE PlanDone
    <3>1. Deliver \/ UNCHANGED <<outcome, delivered>>
      BY <2>6 DEF PlanDone
    <3> QED  BY <2>1, <2>5, <2>6, <3>1 DEF PlanDone, readVars, BusyPcs, PcValues
  <2>7. CASE CheckWindow
    <3>1. Deliver \/ UNCHANGED <<outcome, delivered>>
      BY <2>7 DEF CheckWindow
    <3> QED  BY <2>1, <2>5, <2>7, <3>1 DEF CheckWindow, BusyPcs, PcValues
  <2>8. ASSUME NEW ok \in BOOLEAN, ResetContext(ok)
        PROVE  Store!AnswerError
    BY <2>8, <2>b DEF ResetContext, Store!AnswerError, BusyPcs, PcValues
  <2>9. CASE Open \/ PlanPage \/ CheckWindowFails \/ CallFails \/ Kernel
             \/ (\E n \in 1 .. MaxInflight : IoSubmit(n))
             \/ (\E got \in SUBSET ring : IoGetevents(got))
    BY <2>1, <2>9 DEF Open, PlanPage, CheckWindowFails, CallFails, IoSubmitFails, IoGeteventsFails,
       Kernel, KernelComplete, IoSubmit, IoGetevents, readVars
  <2>10. CASE UNCHANGED vars
    BY <2>1, <2>10 DEF vars, readVars
  <2> QED
    BY <2>2, <2>3, <2>4, <2>6, <2>7, <2>8, <2>9, <2>10
       DEF Next, Caller, ReaderProgress, CallFails
<1> QED  BY <1>1, <1>2, Invariance, PTL DEF Spec, StoreSpec, Store!Spec

=============================================================================
