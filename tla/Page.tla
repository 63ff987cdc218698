-------------------------------- MODULE Page --------------------------------
(***************************************************************************)
(* The page allocator, sys/mem/page.c: a list of free blocks in the order  *)
(* of their addresses.  A block is [at, size], in pages.  Neighbouring     *)
(* blocks are joined when one of them is freed.  The allocator does not    *)
(* know what it gave away: the caller brings the size back.                *)
(***************************************************************************)
EXTENDS Integers, FiniteSets, SequencesExt

CONSTANTS
  Usable,    \* the blocks of usable memory, a sequence, as the boot loader
             \* lists them
  Reserved,  \* the blocks of it that are not to be given away, a sequence
  MaxPages   \* bound on the size of a request

VARIABLES
  plist,     \* the free blocks, in list order
  used_size, \* pages in use
  powned     \* history: the blocks that were given away

pageVars == <<plist, used_size, powned>>

PagesOf(b) == b.at..(b.at + b.size - 1)
EndOf(b) == b.at + b.size
UsablePages == UNION {PagesOf(b) : b \in ToSet(Usable)}
ReservedPages == UNION {PagesOf(b) : b \in ToSet(Reserved)}

Block == [at : Nat \ {0}, size : Nat \ {0}]
BlocksApart(q) == \A i, j \in DOMAIN q : i # j => PagesOf(q[i]) \cap PagesOf(q[j]) = {}

\* Otherwise page_init() panics, or is told of the same memory twice.
ASSUME PageAssumption ==
  /\ Usable \in Seq(Block) /\ Reserved \in Seq(Block)
  /\ BlocksApart(Usable) /\ BlocksApart(Reserved)
  /\ ReservedPages \subseteq UsablePages /\ MaxPages \in Nat
-----------------------------------------------------------------------------
\* The block at i of the list l absorbs the next one, if that adjoins.
Joined(l, i) ==
  IF i \in 1..(Len(l) - 1) /\ EndOf(l[i]) = l[i + 1].at
  THEN ReplaceAt(RemoveAt(l, i + 1), i, [l[i] EXCEPT !.size = @ + l[i + 1].size])
  ELSE l

\* The place of a block that starts at the page at: the loop of page_free().
Place(l, at) ==
  CHOOSE i \in 1..(Len(l) + 1) :
    /\ \A j \in 1..(i - 1) : l[j].at < at
    /\ i \in DOMAIN l => l[i].at >= at

\* page_free(): into its place; then with the next block, then with the one
\* in front.
PageFreed(l, b) ==
  LET i == Place(l, b.at)
  IN  Joined(Joined(InsertAt(l, i, b), i), i - 1)

\* The block of the list that includes b, if any.
Includes(c, b) == c.at <= b.at /\ EndOf(b) <= EndOf(c)
Including(l, b) == {i \in DOMAIN l : Includes(l[i], b)}

\* page_reserve(b): it is cut into what is left.
PageReserved(l, b) ==
  LET i == CHOOSE j \in Including(l, b) : TRUE
      before == [at |-> l[i].at, size |-> b.at - l[i].at]
      after == [at |-> EndOf(b), size |-> EndOf(l[i]) - EndOf(b)]
  IN  IF before.size = 0 /\ after.size = 0 THEN RemoveAt(l, i)
      ELSE IF before.size = 0 THEN ReplaceAt(l, i, after)
      ELSE IF after.size = 0 THEN ReplaceAt(l, i, before)
      ELSE InsertAt(ReplaceAt(l, i, before), i + 1, after)

\* What page_init() does with the n-th block, and the list it has then.
BootStep(l, n) ==
  IF n <= Len(Usable) THEN PageFreed(l, Usable[n])
  ELSE PageReserved(l, Reserved[n - Len(Usable)])
BootList[n \in 0..(Len(Usable) + Len(Reserved))] ==
  IF n = 0 THEN <<>> ELSE BootStep(BootList[n - 1], n)

\* page_init().
PageInit ==
  /\ plist = BootList[Len(Usable) + Len(Reserved)]
  /\ used_size = 0
  /\ powned = {}

\* The blocks of the list that page_alloc(n) could take, and what it takes:
\* the first half of the first.
Fitting(n) == {i \in DOMAIN plist : plist[i].size >= n}
FirstFitting(n) == CHOOSE i \in Fitting(n) : \A j \in Fitting(n) : i <= j
TakenBlock(n) == [at |-> plist[FirstFitting(n)].at, size |-> n]

KeepsRest(n) ==                                                     \* mutant
  RemoveAt(plist, FirstFitting(n))

\* The list after that.
WithoutTaken(n) ==
  LET i == FirstFitting(n)
  IN  IF plist[i].size = n THEN RemoveAt(plist, i)
      ELSE ReplaceAt(plist, i, [at |-> plist[i].at + n, size |-> plist[i].size - n])

\* page_alloc(n), which fails when nothing fits.
PageAlloc(n) ==
  /\ Fitting(n) # {}
  /\ powned' = powned \cup {TakenBlock(n)}
  /\ plist' = WithoutTaken(n)
  /\ used_size' = used_size + n

\* page_free() of a block that was given away.
PageFree(b) ==
  /\ b \in powned
  /\ powned' = powned \ {b}
  /\ plist' = PageFreed(plist, b)
  /\ used_size' = used_size - b.size

\* page_reserve(b) after page_init(): fails unless all of b is in one free block.
PageReserve(b) ==
  /\ Including(plist, b) # {}
  /\ powned' = powned \cup {b}
  /\ plist' = PageReserved(plist, b)
  /\ used_size' = used_size + b.size

PageNext ==
  \/ \E n \in Nat \ {0} : PageAlloc(n)
  \/ \E b \in powned : PageFree(b)
  \/ \E b \in Block : PageReserve(b)

PageSpec == PageInit /\ [][PageNext]_pageVars
-----------------------------------------------------------------------------
\* The free pages and the blocks given away share out the usable memory, and
\* no page is in two blocks.  The list is in the order of the addresses, and no
\* two free blocks adjoin: after whatever sequence of calls, page_alloc() finds
\* what is free in blocks as large as they can be.
PagesSharedOut ==
  LET blocks == ToSet(plist) \cup powned
  IN  /\ UNION {PagesOf(b) : b \in blocks} = UsablePages \ ReservedPages
      /\ \A b, c \in blocks : b # c => PagesOf(b) \cap PagesOf(c) = {}
      /\ used_size = Cardinality(UNION {PagesOf(b) : b \in powned})
      /\ \A i \in 1..(Len(plist) - 1) : EndOf(plist[i]) < plist[i + 1].at
=============================================================================
