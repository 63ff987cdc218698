-------------------------------- MODULE Kmem --------------------------------
(***************************************************************************)
(* The kernel memory allocator, sys/mem/kmem.c, on top of the page         *)
(* allocator: a page is cut into blocks, which are never joined again; the *)
(* page goes back when none of its blocks is in use.                       *)
(*                                                                         *)
(* Sizes and offsets are in units of ALIGN_SIZE bytes, block headers       *)
(* included.  There is one list of free blocks for each size.              *)
(***************************************************************************)
EXTENDS Page, PrexQueue

CONSTANTS
  PageUnits,  \* MAX_BLOCK_SIZE, the size of the first block of a page
  MinBlock,   \* MIN_BLOCK_SIZE, a header and one unit
  KmemSizes   \* the sizes asked for

ASSUME KmemAssumption ==
  PageUnits \in Nat /\ MinBlock \in 1..PageUnits /\ KmemSizes \subseteq MinBlock..PageUnits

VARIABLES
  kblocks,  \* the blocks of each kernel page, in the order of pg_next: pages
            \* in use by kmem are its domain, a block is [page, at, size]
  nallocs,  \* pg->nallocs
  kfree,    \* free_blocks[]: the sequence of free blocks of each size
  kowned    \* history: the blocks that kmem_alloc() returned

kmemVars == <<pageVars, kblocks, nallocs, kfree, kowned>>

KPage(p) == [at |-> p, size |-> 1]

KmemInit ==
  /\ PageInit
  /\ kblocks = <<>> /\ nallocs = <<>> /\ kowned = {}
  /\ kfree = [s \in 1..PageUnits |-> <<>>]

\* f with the value v at p.
With(f, p, v) == [q \in DOMAIN f \cup {p} |-> IF q = p THEN v ELSE f[q]]
Dropped(f, p) == [q \in DOMAIN f \ {p} |-> f[q]]
-----------------------------------------------------------------------------
\* list_insert() into the list for its size, list_remove() from there.
Listed(l, b) == [l EXCEPT ![b.size] = AtHead(b, @)]
Unlisted(l, b) == [l EXCEPT ![b.size] = Without(@, b)]

\* block_find(s): the sizes there is a free block of, s or more.
Sizes(s) == {i \in s..PageUnits : kfree[i] # <<>>}
Smallest(S) == CHOOSE i \in S : \A j \in S : i <= j

SplitUnlinked(chain, b, s) ==                                       \* mutant
  [i \in DOMAIN chain |-> IF chain[i] = b THEN [b EXCEPT !.size = s] ELSE chain[i]]

\* The chain of the page when s units are cut off the block b.
Split(chain, b, s) ==
  LET i == CHOOSE j \in DOMAIN chain : chain[j] = b
      rest == [b EXCEPT !.at = @ + s, !.size = @ - s]
  IN  InsertAt(ReplaceAt(chain, i, [b EXCEPT !.size = s]), i + 1, rest)

\* kmem_alloc() goes on with the block b of a page whose chain is given,
\* when the free lists without b are l.
TakeBlock(l, chain, b, s) ==
  LET splits == b.size - s >= MinBlock
      rest == [b EXCEPT !.at = @ + s, !.size = @ - s]
      n == IF b.page \in DOMAIN nallocs THEN nallocs[b.page] ELSE 0
  IN  /\ kblocks' = With(kblocks, b.page, IF splits THEN Split(chain, b, s) ELSE chain)
      /\ kfree' = IF splits THEN Listed(l, rest) ELSE l
      /\ nallocs' = With(nallocs, b.page, n + 1)
      /\ kowned' = kowned \cup {IF splits THEN [b EXCEPT !.size = s] ELSE b}

\* kmem_alloc() of s units from a page in use.
KmemAlloc(s) ==
  /\ Sizes(s) # {}
  /\ LET b == Head(kfree[Smallest(Sizes(s))])
     IN  TakeBlock(Unlisted(kfree, b), kblocks[b.page], b, s)
  /\ UNCHANGED pageVars

\* kmem_alloc() of s units from a new page; NULL when there is none.
KmemAllocPage(s) ==
  /\ Sizes(s) = {}
  /\ PageAlloc(1)
  /\ LET b == [page |-> TakenBlock(1).at, at |-> 0, size |-> PageUnits]
     IN  TakeBlock(kfree, <<b>>, b, s)

\* All blocks of the page leave the free lists.
UnlistAll(l, chain) ==
  LET left[i \in 0..Len(chain)] == IF i = 0 THEN l ELSE Unlisted(left[i - 1], chain[i])
  IN  left[Len(chain)]

\* kmem_free(): the page goes with its last block.
KmemFree(b) ==
  /\ b \in kowned
  /\ kowned' = kowned \ {b}
  /\ LET l == Listed(kfree, b)
     IN  IF nallocs[b.page] > 1
         THEN /\ kfree' = l
              /\ nallocs' = [nallocs EXCEPT ![b.page] = @ - 1]
              /\ UNCHANGED <<kblocks, pageVars>>
         ELSE /\ kfree' = UnlistAll(l, kblocks[b.page])
              /\ nallocs' = Dropped(nallocs, b.page)
              /\ kblocks' = Dropped(kblocks, b.page)
              /\ PageFree(KPage(b.page))

\* Pages are given to others than kmem, too.
PagesElsewhere ==
  /\ \/ \E n \in 1..MaxPages : PageAlloc(n)
     \/ \E b \in powned : b.at \notin DOMAIN kblocks /\ PageFree(b)
  /\ UNCHANGED <<kblocks, nallocs, kfree, kowned>>

KmemNext ==
  \/ \E s \in KmemSizes : KmemAlloc(s) \/ KmemAllocPage(s)
  \/ \E b \in kowned : KmemFree(b)
  \/ PagesElsewhere

KmemSpec == KmemInit /\ [][KmemNext]_kmemVars
-----------------------------------------------------------------------------
\* A kernel page is given to kmem; its blocks fill it without a gap; those
\* that callers own and those in the free list of their size are all, once;
\* and nallocs counts the first, of which there is one.
KmemBlocksExact ==
  LET blocks(p) == ToSet(kblocks[p])
      free == UNION {ToSet(kfree[s]) : s \in DOMAIN kfree}
  IN  /\ \A p \in DOMAIN kblocks :
           /\ KPage(p) \in powned
           /\ \A i \in DOMAIN kblocks[p] :
                kblocks[p][i].at + kblocks[p][i].size
                  = IF i = Len(kblocks[p]) THEN PageUnits ELSE kblocks[p][i + 1].at
           /\ nallocs[p] = Cardinality(blocks(p) \cap kowned) /\ nallocs[p] > 0
      /\ kowned \cap free = {}
      /\ kowned \cup free = UNION {blocks(p) : p \in DOMAIN kblocks}
      /\ \A s \in DOMAIN kfree : IsInjective(kfree[s])
=============================================================================
