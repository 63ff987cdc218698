--------------------------------- MODULE Vm ---------------------------------
(***************************************************************************)
(* Address spaces of a system without MMU, sys/mem/vm_nommu.c: all tasks   *)
(* and the kernel share one space, a map is a list of segments, and a      *)
(* segment either owns its pages or maps some of another segment's.        *)
(*                                                                         *)
(* Every call holds the scheduler lock, so it is one step.  Addresses and  *)
(* sizes are in pages.  Left out: the image of a boot task (vm_load()),    *)
(* attributes, and the limit on the memory of a task (map->total).         *)
(***************************************************************************)
EXTENDS Page

CONSTANTS
  MapId,   \* addresses of struct vm_map
  MaxRef,  \* bound on the tasks that share a map
  MaxSegs  \* bound on the segments of a map

ASSUME VmAssumption == MaxRef \in Nat /\ MaxSegs \in Nat

VARIABLES
  vmref,  \* map->refcnt, 0 when there is no such map
  vmsegs, \* the segments of a map in list order, the newest first
  vmowned \* history: the blocks that were taken for segments

vmVars == <<vmref, vmsegs, vmowned>>

VmInit ==
  /\ PageInit
  /\ vmref = [m \in MapId |-> 0]
  /\ vmsegs = [m \in MapId |-> <<>>]
  /\ vmowned = {}

BlockOf(seg) == [at |-> seg.at, size |-> seg.size]
Segment(b, mapped) == [at |-> b.at, size |-> b.size, mapped |-> mapped]

\* seg_create(): at the head of the list of m.
SegCreate(m, seg) ==
  /\ Len(vmsegs[m]) < MaxSegs
  /\ vmsegs' = [vmsegs EXCEPT ![m] = <<seg>> \o @]

\* seg_lookup(): the position of the first segment that includes the block b,
\* 0 when there is none.
SegLookup(m, b) ==
  LET including == {i \in DOMAIN vmsegs[m] : PagesOf(b) \subseteq PagesOf(vmsegs[m][i])}
  IN  IF including = {} THEN 0 ELSE CHOOSE i \in including : \A j \in including : i <= j

FreesMapped(seg) == TRUE                                            \* mutant

\* "Relinquish use of the page if it is not shared and mapped."
FreesPages(seg) == ~seg.mapped

\* A segment goes, in the loop of vm_terminate() or in vm_free(): free is the
\* list of the page allocator, used its count.
SegmentGoes(pages, seg) ==
  IF FreesPages(seg)
  THEN [free |-> PageFreed(pages.free, BlockOf(seg)), used |-> pages.used - seg.size]
  ELSE pages

\* The segments of the sequence q go, and their pages with them.
SegmentsGo(q) ==
  LET after[n \in 0..Len(q)] ==
        IF n = 0 THEN [free |-> plist, used |-> used_size] ELSE SegmentGoes(after[n - 1], q[n])
      gone == {BlockOf(q[i]) : i \in {j \in DOMAIN q : FreesPages(q[j])}}
  IN  /\ plist' = after[Len(q)].free
      /\ used_size' = after[Len(q)].used
      /\ powned' = powned \ gone
      /\ vmowned' = vmowned \ gone
-----------------------------------------------------------------------------
\* vm_create(), for task_create() with VM_NEW.
VmCreate(m) ==
  /\ vmref[m] = 0
  /\ vmref' = [vmref EXCEPT ![m] = 1]
  /\ UNCHANGED <<pageVars, vmsegs, vmowned>>

\* vm_reference(), for task_create() with VM_SHARE.
VmReference(m) ==
  /\ vmref[m] \in 1..(MaxRef - 1)
  /\ vmref' = [vmref EXCEPT ![m] = @ + 1]
  /\ UNCHANGED <<pageVars, vmsegs, vmowned>>

\* vm_terminate(), when a task ends: the last one frees everything.
VmTerminate(m) ==
  /\ vmref[m] > 0
  /\ vmref' = [vmref EXCEPT ![m] = @ - 1]
  /\ IF vmref[m] > 1 THEN UNCHANGED <<pageVars, vmsegs, vmowned>>
     ELSE SegmentsGo(vmsegs[m]) /\ vmsegs' = [vmsegs EXCEPT ![m] = <<>>]

\* vm_allocate() anywhere.
VmAllocate(m, n) ==
  /\ vmref[m] > 0
  /\ PageAlloc(n)
  /\ SegCreate(m, Segment(TakenBlock(n), FALSE))
  /\ vmowned' = vmowned \cup {TakenBlock(n)}
  /\ UNCHANGED vmref

\* vm_allocate() at an address, which fails unless all of it is free.
VmAllocateAt(m, b) ==
  /\ vmref[m] > 0
  /\ PageReserve(b)
  /\ SegCreate(m, Segment(b, FALSE))
  /\ vmowned' = vmowned \cup {b}
  /\ UNCHANGED vmref

\* vm_free() of the page at, where the segment it is found in must start.
VmFree(m, at) ==
  LET i == SegLookup(m, [at |-> at, size |-> 1])
  IN  /\ i # 0 /\ vmsegs[m][i].at = at
      /\ SegmentsGo(<<vmsegs[m][i]>>)
      /\ vmsegs' = [vmsegs EXCEPT ![m] = RemoveAt(@, i)]
      /\ UNCHANGED vmref

\* vm_map() of the block b by a task with the map m; the target, another task,
\* has the map k.
VmMap(m, k, b) ==
  /\ vmref[m] > 0 /\ vmref[k] > IF k = m THEN 1 ELSE 0
  /\ SegLookup(k, b) # 0
  /\ SegCreate(m, Segment(b, TRUE))
  /\ UNCHANGED <<pageVars, vmref, vmowned>>

\* The others who take pages: kmem.c, one at a time.
VmElsewhere ==
  /\ \/ PageAlloc(1)
     \/ \E b \in powned \ vmowned : PageFree(b)
  /\ UNCHANGED vmVars

VmBlocks == {b \in [at : UsablePages, size : 1..MaxPages] : PagesOf(b) \subseteq UsablePages}

VmNext ==
  \/ \E m \in MapId :
       \/ VmCreate(m) \/ VmReference(m) \/ VmTerminate(m)
       \/ \E n \in 1..MaxPages : VmAllocate(m, n)
       \/ \E b \in VmBlocks : VmAllocateAt(m, b) \/ \E k \in MapId : VmMap(m, k, b)
       \/ \E at \in UsablePages : VmFree(m, at)
  \/ VmElsewhere

VmSpec == VmInit /\ [][VmNext]_<<pageVars, vmVars>>
-----------------------------------------------------------------------------
\* The segments of q that own their pages, and the blocks of those.
Owners(q) == {i \in DOMAIN q : ~q[i].mapped}
OwnBlocks(q) == {BlockOf(q[i]) : i \in Owners(q)}

\* Every block taken for a segment belongs to one segment that is not mapped, of
\* one map that some task has, and every such segment has its block: whatever is
\* allocated, mapped from others, freed and shared by tasks that end, pages are
\* freed once, as they were allocated, and none is left behind.  (A mapping may
\* outlive the pages it shows.)
SegmentsOwnPages ==
  /\ vmowned \subseteq powned
  /\ vmowned = UNION {OwnBlocks(vmsegs[m]) : m \in MapId}
  /\ \A m \in MapId : \A i, j \in Owners(vmsegs[m]) :
       i # j => BlockOf(vmsegs[m][i]) # BlockOf(vmsegs[m][j])
  /\ \A m, k \in MapId : m # k => OwnBlocks(vmsegs[m]) \cap OwnBlocks(vmsegs[k]) = {}
  /\ \A m \in MapId : vmref[m] = 0 => vmsegs[m] = <<>>
=============================================================================
