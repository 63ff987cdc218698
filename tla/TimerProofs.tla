----------------------------- MODULE TimerProofs -----------------------------
(***************************************************************************)
(* Theorems about the timers of Timer: as long as timer_periodic() is not  *)
(* called for an active timer, the lists are sorted, timers expire on time *)
(* and the functions of the expired ones are called.                       *)
(***************************************************************************)
EXTENDS Timer, PrexQueueProofs

\* The ticks from now until e.
ToGo(e, now) == (e - now) % Wrap

LEMMA WrapFacts ==
  /\ Wrap \in Nat \ {0} /\ MaxDelay \in Nat \ {0} /\ Wrap \div 2 \in Nat
  /\ MaxDelay < Wrap \div 2 /\ Wrap - MaxDelay > Wrap \div 2 /\ MaxDelay + 1 < Wrap
<1>1. /\ Wrap \in Nat /\ MaxDelay \in Nat \ {0} /\ Wrap % 2 = 0 /\ 2 * MaxDelay < Wrap
  BY TimerAssumption
<1>2. Wrap \div 2 \in Int /\ Wrap = 2 * (Wrap \div 2)
  BY <1>1
<1>. QED
  BY <1>1, <1>2

LEMMA SmallRemainder ==
  ASSUME NEW N \in Nat \ {0}, NEW a \in 0..(N - 1)
  PROVE  a % N = a
<1>1. a \div N \in Int /\ (a % N) \in 0..(N - 1) /\ a = (a \div N) * N + (a % N)
  BY RemainderIs
<1>2. (a \div N) * N + (a % N) = 0 * N + a
  BY <1>1
<1>. QED
  BY <1>1, <1>2, RemainderUnique

LEMMA WrappedRemainder ==
  ASSUME NEW N \in Nat \ {0}, NEW a \in N..(2 * N - 1)
  PROVE  a % N = a - N
<1>1. a \div N \in Int /\ (a % N) \in 0..(N - 1) /\ a = (a \div N) * N + (a % N)
  BY RemainderIs
<1>2. (a \div N) * N + (a % N) = 1 * N + (a - N)
  BY <1>1
<1>3. a - N \in 0..(N - 1)
  OBVIOUS
<1>. QED
  BY <1>1, <1>2, <1>3, RemainderUnique

LEMMA TurnedRemainder ==
  ASSUME NEW N \in Nat \ {0}, NEW a \in Int
  PROVE  (a + N) % N = a % N
<1>. DEFINE r == a % N
<1>1. r \in 0..(N - 1)
  BY RemainderIs
<1>2. ((a % N) + N) % N = (a + N) % N
  <2>1. N \in Int
    OBVIOUS
  <2>. QED
    BY <2>1, RemainderPlus
<1>3. (r + N) % N = r
  <2>. HIDE DEF r
  <2>1. r + N \in N..(2 * N - 1) /\ (r + N) - N = r
    BY <1>1
  <2>2. (r + N) % N = (r + N) - N
    BY <2>1, WrappedRemainder
  <2>. QED
    BY <2>1, <2>2
<1>. QED
  BY <1>2, <1>3

\* time_before() compares the ticks to go, for times less than half of the wrap
\* away from each other.
LEMMA BeforeMeansSooner ==
  ASSUME NEW x \in Int, NEW y \in Int, NEW now \in Int,
         ToGo(x, now) \in 0..MaxDelay, ToGo(y, now) \in 0..MaxDelay
  PROVE  TimeBefore(x, y) <=> ToGo(x, now) < ToGo(y, now)
<1>. DEFINE z == (x - y) % Wrap
            d == ToGo(x, now)
            r == ToGo(y, now)
<1>1. z \in 0..(Wrap - 1)
  BY WrapFacts, RemainderIs
<1>2. (z + (y - now)) % Wrap = d
  <2>1. (((x - y) % Wrap) + (y - now)) % Wrap = ((x - y) + (y - now)) % Wrap
    <3>1. Wrap \in Nat \ {0} /\ x - y \in Int /\ y - now \in Int
      BY WrapFacts
    <3>. QED
      BY <3>1, RemainderPlus
  <2>2. (x - y) + (y - now) = x - now
    OBVIOUS
  <2>. QED
    BY <2>1, <2>2 DEF ToGo
<1>3. (r + z) % Wrap = (z + (y - now)) % Wrap
  <2>1. (((y - now) % Wrap) + z) % Wrap = ((y - now) + z) % Wrap
    <3>1. Wrap \in Nat \ {0} /\ y - now \in Int /\ z \in Int
      BY <1>1, WrapFacts
    <3>. HIDE DEF z
    <3>. QED
      BY <3>1, RemainderPlus
  <2>2. (y - now) + z = z + (y - now)
    BY <1>1
  <2>. QED
    BY <2>1, <2>2 DEF ToGo
<1>4. (r + z) % Wrap = d
  BY <1>2, <1>3
<1>5. TimeBefore(x, y) <=> z >= Wrap \div 2
  BY DEF TimeBefore
<1>. HIDE DEF z, d, r
<1>6. d \in 0..MaxDelay /\ r \in 0..MaxDelay
  BY DEF d, r
<1>7. CASE r + z < Wrap
  <2>1. r + z \in 0..(Wrap - 1)
    BY <1>1, <1>6, <1>7, WrapFacts
  <2>2. d = r + z
    <3>1. Wrap \in Nat \ {0}
      BY WrapFacts
    <3>2. (r + z) % Wrap = r + z
      BY <2>1, <3>1, SmallRemainder
    <3>. QED
      BY <1>4, <3>2
  <2>3. z < Wrap \div 2
    BY <1>1, <1>6, <2>2, WrapFacts
  <2>4. ~(d < r)
    BY <1>1, <1>6, <2>2
  <2>. QED
    BY <1>1, <1>5, <2>3, <2>4, WrapFacts DEF d, r
<1>8. CASE r + z >= Wrap
  <2>1. r + z \in Wrap..(2 * Wrap - 1)
    BY <1>1, <1>6, <1>8, WrapFacts
  <2>2. d = r + z - Wrap
    <3>1. Wrap \in Nat \ {0}
      BY WrapFacts
    <3>2. (r + z) % Wrap = (r + z) - Wrap
      BY <2>1, <3>1, WrappedRemainder
    <3>3. d = (r + z) - Wrap
      BY <1>4, <3>2
    <3>. QED
      BY <1>1, <1>6, <3>1, <3>3
  <2>3. z >= Wrap \div 2
    BY <1>1, <1>6, <2>2, WrapFacts
  <2>4. d < r
    BY <1>1, <1>6, <2>2, WrapFacts
  <2>. QED
    BY <1>5, <2>3, <2>4 DEF d, r
<1>. QED
  BY <1>1, <1>6, <1>7, <1>8, WrapFacts

\* What expires in d ticks.
LEMMA ExpiresIn ==
  ASSUME NEW now \in 0..(Wrap - 1), NEW d \in 0..MaxDelay
  PROVE  (now + d) % Wrap \in 0..(Wrap - 1) /\ ToGo((now + d) % Wrap, now) = d
<1>1. now + d \in Int /\ now + d \in 0..(2 * Wrap - 1)
  BY WrapFacts
<1>2. (now + d) % Wrap \in 0..(Wrap - 1)
  BY <1>1, WrapFacts, RemainderIs
<1>3. (((now + d) % Wrap) + (0 - now)) % Wrap = ((now + d) + (0 - now)) % Wrap
  <2>1. Wrap \in Nat \ {0} /\ 0 - now \in Int
    BY WrapFacts
  <2>. QED
    BY <1>1, <2>1, RemainderPlus
<1>4. (now + d) + (0 - now) = d /\ ((now + d) % Wrap) + (0 - now) = ((now + d) % Wrap) - now
  BY <1>1, <1>2, WrapFacts
<1>5. d % Wrap = d
  <2>1. d \in 0..(Wrap - 1)
    BY WrapFacts
  <2>. QED
    BY <2>1, WrapFacts, SmallRemainder
<1>. QED
  BY <1>2, <1>3, <1>4, <1>5 DEF ToGo

\* The next tick.
LEMMA TickBrings ==
  ASSUME NEW now \in 0..(Wrap - 1), NEW e \in 0..(Wrap - 1), ToGo(e, now) \in 1..MaxDelay
  PROVE  /\ (now + 1) % Wrap \in 0..(Wrap - 1)
         /\ ToGo(e, (now + 1) % Wrap) = ToGo(e, now) - 1
<1>. DEFINE n == (now + 1) % Wrap
            l == ToGo(e, now)
<1>1. n \in 0..(Wrap - 1) /\ (n = now + 1 \/ n = now + 1 - Wrap)
  <2>1. now + 1 \in 0..(Wrap - 1) \/ now + 1 \in Wrap..(2 * Wrap - 1)
    BY WrapFacts
  <2>2. n = now + 1 \/ n = (now + 1) - Wrap
    <3>1. Wrap \in Nat \ {0}
      BY WrapFacts
    <3>. QED
      BY <2>1, <3>1, SmallRemainder, WrappedRemainder
  <2>. QED
    BY <2>2, WrapFacts, RemainderIs, SMTT(30)
<1>2. (e - n) % Wrap = ((e - now) - 1) % Wrap
  <2>1. CASE n = now + 1
    <3>1. e - n = (e - now) - 1
      BY <2>1
    <3>. QED
      BY <3>1
  <2>2. CASE n = now + 1 - Wrap
    <3>1. e - n = ((e - now) - 1) + Wrap
      BY <2>2, WrapFacts
    <3>2. (e - now) - 1 \in Int /\ Wrap \in Nat \ {0}
      BY WrapFacts
    <3>3. (((e - now) - 1) + Wrap) % Wrap = ((e - now) - 1) % Wrap
      BY <3>2, TurnedRemainder
    <3>. QED
      BY <3>1, <3>3
  <2>. QED
    BY <1>1, <2>1, <2>2
<1>3. (((e - now) % Wrap) + (0 - 1)) % Wrap = ((e - now) + (0 - 1)) % Wrap
  <2>1. Wrap \in Nat \ {0} /\ e - now \in Int /\ 0 - 1 \in Int
    BY WrapFacts
  <2>. QED
    BY <2>1, RemainderPlus
<1>4. (e - now) + (0 - 1) = (e - now) - 1 /\ ((e - now) % Wrap) + (0 - 1) = l - 1
  BY DEF ToGo
<1>5. (l - 1) % Wrap = l - 1
  <2>1. l - 1 \in 0..(Wrap - 1)
    BY WrapFacts
  <2>2. Wrap \in Nat \ {0}
    BY WrapFacts
  <2>. HIDE DEF l
  <2>. QED
    BY <2>1, <2>2, SmallRemainder
<1>. HIDE DEF n, l
<1>6. (e - n) % Wrap = l - 1
  BY <1>2, <1>3, <1>4, <1>5
<1>. QED
  BY <1>1, <1>6 DEF ToGo, n, l
-----------------------------------------------------------------------------
Nodes == Tmr \cup {TimerList, ExpireList, "NULL"}

LEMMA NodeNames ==
  /\ IsFiniteSet(Nodes) /\ Tmr \subseteq Nodes
  /\ TimerList \in Nodes /\ ExpireList \in Nodes /\ "NULL" \in Nodes
  /\ TimerList \notin Tmr /\ ExpireList \notin Tmr /\ "NULL" \notin Tmr
  /\ TimerList # ExpireList /\ TimerList # "NULL" /\ ExpireList # "NULL"
  /\ "sleep" \notin Tmr /\ "drain" \notin Tmr
<1>1. IsFiniteSet(Nodes)
  <2>1. IsFiniteSet(((Tmr \cup {TimerList}) \cup {ExpireList}) \cup {"NULL"})
    BY FS_AddElement, TimerFinite
  <2>2. ((Tmr \cup {TimerList}) \cup {ExpireList}) \cup {"NULL"} = Nodes
    BY DEF Nodes
  <2>. QED
    BY <2>1, <2>2
<1>. QED
  BY <1>1, TimerFinite DEF Nodes, TimerList, ExpireList

\* The timers of q wait and those of e have expired, in the memory L.
TwoLists(L, q, e) ==
  /\ IsMemory(Nodes, L)
  /\ q \in Seq(Tmr) /\ e \in Seq(Tmr)
  /\ Ring(L, TimerList, q) /\ Ring(L, ExpireList, e)
  /\ Items(q) \cap Items(e) = {}

\* What the loops over the two lists find.
LEMMA TwoWalks ==
  ASSUME NEW L, NEW q, NEW e, TwoLists(L, q, e)
  PROVE  /\ Walk(L, TimerList) = q /\ IsRing(L, TimerList, Tmr)
         /\ IsEmptyQueue(L, TimerList) <=> q = <<>>
         /\ Walk(L, ExpireList) = e /\ IsRing(L, ExpireList, Tmr)
         /\ IsEmptyQueue(L, ExpireList) <=> e = <<>>
         /\ Items(q) \subseteq Tmr /\ Items(e) \subseteq Tmr
<1>1. /\ IsMemory(Nodes, L) /\ q \in Seq(Tmr) /\ e \in Seq(Tmr)
      /\ Ring(L, TimerList, q) /\ Ring(L, ExpireList, e)
  BY DEF TwoLists
<1>2. /\ Walk(L, TimerList) = q /\ IsRing(L, TimerList, Tmr)
      /\ IsEmptyQueue(L, TimerList) <=> q = <<>>
  BY <1>1, NodeNames, RingWalk
<1>3. /\ Walk(L, ExpireList) = e /\ IsRing(L, ExpireList, Tmr)
      /\ IsEmptyQueue(L, ExpireList) <=> e = <<>>
  BY <1>1, NodeNames, RingWalk
<1>4. Items(q) \subseteq Tmr /\ Items(e) \subseteq Tmr
  BY <1>1, NoItems
<1>. QED
  BY <1>2, <1>3, <1>4

\* list_insert() behind the k-th node of a list.
LEMMA ListInsertedRing ==
  ASSUME NEW S, NEW D, S \subseteq D, NEW h \in D, NEW q \in Seq(S),
         NEW L, IsMemory(D, L), Ring(L, h, q),
         NEW x \in S, x \notin {h} \cup Items(q), NEW k \in 0..Len(q)
  PROVE  /\ Ring(ListInserted(L, Node(h, q, k), x), h, Inserted(q, k, x))
         /\ Agree(ListInserted(L, Node(h, q, k), x), L, D \ ({h, x} \cup Items(q)))
         /\ IsMemory(D, ListInserted(L, Node(h, q, k), x))
<1>. DEFINE p == Node(h, q, k)
            n == Node(h, q, k + 1)
            M == ListInserted(L, p, x)
<1>1. /\ Len(q) \in Nat /\ p \in {h} \cup Items(q) /\ n \in {h} \cup Items(q)
      /\ Items(q) \subseteq S /\ \A i : Node(h, q, i) \in {h} \cup Items(q)
  BY NodeFacts, NoItems
<1>2. L.next[p] = n /\ L.prev[n] = p
  BY DEF Ring
<1>3. p \in D /\ n \in D /\ x \in D /\ p # x /\ n # x
  BY <1>1
<1>4. L.next \in [D -> D] /\ L.prev \in [D -> D]
  BY DEF IsMemory
<1>. HIDE DEF p, n
<1>5. /\ M.next[p] = x /\ M.next[x] = n /\ M.prev[x] = p /\ M.prev[n] = x
      /\ \A y \in D : y # p /\ y # x => M.next[y] = L.next[y]
      /\ \A y \in D : y # n /\ y # x => M.prev[y] = L.prev[y]
      /\ M.next \in [D -> D] /\ M.prev \in [D -> D]
  BY <1>2, <1>3, <1>4 DEF ListInserted
<1>. HIDE DEF M
<1>6. Ring(M, h, Inserted(q, k, x))
  <2>1. /\ \A y \in {h} \cup Items(q) : y # p => M.next[y] = L.next[y]
        /\ \A y \in {h} \cup Items(q) : y # n => M.prev[y] = L.prev[y]
    BY <1>1, <1>5
  <2>. QED
    BY <1>5, <2>1, RingInserted DEF p, n
<1>7. Agree(M, L, D \ ({h, x} \cup Items(q)))
  BY <1>1, <1>5 DEF Agree
<1>8. IsMemory(D, M)
  BY <1>5 DEF IsMemory
<1>. QED
  BY <1>6, <1>7, <1>8 DEF M, p

\* timer_add() links x in the list of timers.
LEMMA TimerLinked ==
  ASSUME NEW L, NEW q, NEW e, TwoLists(L, q, e), NEW x \in Tmr, x \notin Items(q) \cup Items(e),
         NEW k \in 0..Len(q)
  PROVE  TwoLists(ListInserted(L, Node(TimerList, q, k), x), Inserted(q, k, x), e)
<1>. DEFINE M == ListInserted(L, Node(TimerList, q, k), x)
<1>1. /\ IsMemory(Nodes, L) /\ q \in Seq(Tmr) /\ e \in Seq(Tmr)
      /\ Ring(L, TimerList, q) /\ Ring(L, ExpireList, e)
      /\ Items(q) \cap Items(e) = {}
  BY DEF TwoLists
<1>2. Items(q) \subseteq Tmr /\ Items(e) \subseteq Tmr
  BY <1>1, NoItems
<1>3. /\ Ring(M, TimerList, Inserted(q, k, x))
      /\ Agree(M, L, Nodes \ ({TimerList, x} \cup Items(q)))
      /\ IsMemory(Nodes, M)
  <2>1. x \notin {TimerList} \cup Items(q)
    BY NodeNames
  <2>. QED
    BY <1>1, <2>1, NodeNames, ListInsertedRing
<1>. HIDE DEF M
<1>4. Ring(M, ExpireList, e)
  <2>1. {ExpireList} \cup Items(e) \subseteq Nodes \ ({TimerList, x} \cup Items(q))
    BY <1>1, <1>2, NodeNames
  <2>2. Agree(M, L, {ExpireList} \cup Items(e))
    BY <1>3, <2>1 DEF Agree
  <2>. QED
    BY <1>1, <2>2, RingFrame
<1>5. Inserted(q, k, x) \in Seq(Tmr) /\ Items(Inserted(q, k, x)) = Items(q) \cup {x}
  BY <1>1, InsertedFacts
<1>6. Items(Inserted(q, k, x)) \cap Items(e) = {}
  BY <1>1, <1>5
<1>. QED
  BY <1>1, <1>3, <1>4, <1>5, <1>6 DEF TwoLists, M

\* timer_handler() links x at the head of the list of expired timers.
LEMMA ExpiredLinked ==
  ASSUME NEW L, NEW q, NEW e, TwoLists(L, q, e), NEW x \in Tmr, x \notin Items(q) \cup Items(e)
  PROVE  TwoLists(ListInserted(L, ExpireList, x), q, Inserted(e, 0, x))
<1>. DEFINE M == ListInserted(L, ExpireList, x)
<1>1. /\ IsMemory(Nodes, L) /\ q \in Seq(Tmr) /\ e \in Seq(Tmr)
      /\ Ring(L, TimerList, q) /\ Ring(L, ExpireList, e)
      /\ Items(q) \cap Items(e) = {}
  BY DEF TwoLists
<1>2. Items(q) \subseteq Tmr /\ Items(e) \subseteq Tmr
  BY <1>1, NoItems
<1>0. 0 \in 0..Len(e)
  BY <1>1
<1>3. /\ Ring(M, ExpireList, Inserted(e, 0, x))
      /\ Agree(M, L, Nodes \ ({ExpireList, x} \cup Items(e)))
      /\ IsMemory(Nodes, M)
  <2>1. x \notin {ExpireList} \cup Items(e)
    BY NodeNames
  <2>2. Node(ExpireList, e, 0) = ExpireList
    BY DEF Node
  <2>. QED
    BY <1>0, <1>1, <2>1, <2>2, NodeNames, ListInsertedRing
<1>. HIDE DEF M
<1>4. Ring(M, TimerList, q)
  <2>1. {TimerList} \cup Items(q) \subseteq Nodes \ ({ExpireList, x} \cup Items(e))
    BY <1>1, <1>2, NodeNames
  <2>2. Agree(M, L, {TimerList} \cup Items(q))
    BY <1>3, <2>1 DEF Agree
  <2>. QED
    BY <1>1, <2>2, RingFrame
<1>5. Inserted(e, 0, x) \in Seq(Tmr) /\ Items(Inserted(e, 0, x)) = Items(e) \cup {x}
  BY <1>0, <1>1, InsertedFacts
<1>6. Items(q) \cap Items(Inserted(e, 0, x)) = {}
  BY <1>1, <1>5
<1>. QED
  BY <1>1, <1>3, <1>4, <1>5, <1>6 DEF TwoLists, M

\* x leaves the list it is in.
LEMMA TimerUnlinked ==
  ASSUME NEW L, NEW q, NEW e, TwoLists(L, q, e), NEW x
  PROVE  /\ x \in Items(q) => TwoLists(Removed(L, x), Without(q, x), e)
         /\ x \in Items(e) => TwoLists(Removed(L, x), q, Without(e, x))
         /\ Items(Without(q, x)) = Items(q) \ {x} /\ Items(Without(e, x)) = Items(e) \ {x}
<1>. DEFINE M == Removed(L, x)
<1>1. /\ IsMemory(Nodes, L) /\ q \in Seq(Tmr) /\ e \in Seq(Tmr)
      /\ Ring(L, TimerList, q) /\ Ring(L, ExpireList, e)
      /\ Items(q) \cap Items(e) = {}
  BY DEF TwoLists
<1>2. Items(q) \subseteq Tmr /\ Items(e) \subseteq Tmr
  BY <1>1, NoItems
<1>3. /\ Without(q, x) \in Seq(Tmr) /\ Items(Without(q, x)) = Items(q) \ {x}
      /\ Without(e, x) \in Seq(Tmr) /\ Items(Without(e, x)) = Items(e) \ {x}
  BY <1>1, WithoutItems DEF Ring
<1>4. ASSUME x \in Items(q) PROVE TwoLists(M, Without(q, x), e)
  <2>1. /\ Ring(M, TimerList, Without(q, x))
        /\ Agree(M, L, Nodes \ ({TimerList} \cup Items(q)))
    BY <1>1, <1>4, NodeNames, RingRemoved
  <2>2. IsMemory(Nodes, M)
    <3>1. x \in Nodes
      BY <1>2, <1>4, NodeNames
    <3>. QED
      BY <1>1, <3>1, MemoryKept
  <2>. HIDE DEF M
  <2>3. {ExpireList} \cup Items(e) \subseteq Nodes \ ({TimerList} \cup Items(q))
    BY <1>1, <1>2, NodeNames
  <2>4. Agree(M, L, {ExpireList} \cup Items(e))
    BY <2>1, <2>3 DEF Agree
  <2>5. Ring(M, ExpireList, e)
    BY <1>1, <2>4, RingFrame
  <2>6. Items(Without(q, x)) \cap Items(e) = {}
    BY <1>1, <1>3
  <2>. QED
    BY <1>1, <1>3, <2>1, <2>2, <2>5, <2>6 DEF TwoLists
<1>5. ASSUME x \in Items(e) PROVE TwoLists(M, q, Without(e, x))
  <2>1. /\ Ring(M, ExpireList, Without(e, x))
        /\ Agree(M, L, Nodes \ ({ExpireList} \cup Items(e)))
    BY <1>1, <1>5, NodeNames, RingRemoved
  <2>2. IsMemory(Nodes, M)
    <3>1. x \in Nodes
      BY <1>2, <1>5, NodeNames
    <3>. QED
      BY <1>1, <3>1, MemoryKept
  <2>. HIDE DEF M
  <2>3. {TimerList} \cup Items(q) \subseteq Nodes \ ({ExpireList} \cup Items(e))
    BY <1>1, <1>2, NodeNames
  <2>4. Agree(M, L, {TimerList} \cup Items(q))
    BY <2>1, <2>3 DEF Agree
  <2>5. Ring(M, TimerList, q)
    BY <1>1, <2>4, RingFrame
  <2>6. Items(q) \cap Items(Without(e, x)) = {}
    BY <1>1, <1>3
  <2>. QED
    BY <1>1, <1>3, <2>1, <2>2, <2>5, <2>6 DEF TwoLists
<1>. QED
  BY <1>3, <1>4, <1>5

\* list_remove() forgets the neighbours of x.
LEMMA TimerForgotten ==
  ASSUME NEW L, NEW q, NEW e, NEW x \in Tmr, x \notin Items(q) \cup Items(e), TwoLists(Removed(L, x), q, e)
  PROVE  TwoLists(ListRemoved(L, x), q, e)
<1>. DEFINE R == Removed(L, x)
            M == ListRemoved(L, x)
<1>1. /\ IsMemory(Nodes, R) /\ q \in Seq(Tmr) /\ e \in Seq(Tmr)
      /\ Ring(R, TimerList, q) /\ Ring(R, ExpireList, e)
      /\ Items(q) \cap Items(e) = {}
  BY DEF TwoLists
<1>2. M.next = [R.next EXCEPT ![x] = "NULL"] /\ M.prev = [R.prev EXCEPT ![x] = "NULL"]
  BY DEF ListRemoved
<1>. HIDE DEF R, M
<1>3. R.next \in [Nodes -> Nodes] /\ R.prev \in [Nodes -> Nodes]
  BY <1>1 DEF IsMemory
<1>4. IsMemory(Nodes, M)
  BY <1>2, <1>3, NodeNames DEF IsMemory
<1>5. Agree(M, R, Nodes \ {x})
  BY <1>2, <1>3 DEF Agree
<1>6. /\ {TimerList} \cup Items(q) \subseteq Nodes \ {x}
      /\ {ExpireList} \cup Items(e) \subseteq Nodes \ {x}
  BY <1>1, NoItems, NodeNames
<1>7. Agree(M, R, {TimerList} \cup Items(q)) /\ Agree(M, R, {ExpireList} \cup Items(e))
  BY <1>5, <1>6 DEF Agree
<1>8. Ring(M, TimerList, q) /\ Ring(M, ExpireList, e)
  BY <1>1, <1>7, RingFrame
<1>. QED
  BY <1>1, <1>4, <1>8 DEF TwoLists, M
-----------------------------------------------------------------------------
\* The timers of q are in the order of the times they expire at, none of them
\* further than MaxDelay away.
InOrder(q, expire, now) ==
  /\ \A i \in 1..Len(q) : expire[q[i]] \in 0..(Wrap - 1) /\ ToGo(expire[q[i]], now) \in 0..MaxDelay
  /\ \A i, j \in 1..Len(q) : i < j => ToGo(expire[q[i]], now) <= ToGo(expire[q[j]], now)

\* timer_add() finds the place: behind the timers that expire earlier or at the
\* same time, before those that expire later.
LEMMA PlaceFound ==
  ASSUME NEW L, NEW q, NEW e, TwoLists(L, q, e), NEW expire, NEW now \in Int, InOrder(q, expire, now),
         NEW at \in Int, ToGo(at, now) \in 0..MaxDelay
  PROVE  \E k \in 0..Len(q) :
           /\ L.prev[InsertBefore(L, expire, at)] = Node(TimerList, q, k)
           /\ \A i \in 1..k : ToGo(expire[q[i]], now) <= ToGo(at, now)
           /\ \A i \in (k + 1)..Len(q) : ToGo(at, now) <= ToGo(expire[q[i]], now)
<1>. DEFINE later == {i \in 1..Len(q) : TimeBefore(at, expire[q[i]])}
            go == [i \in 1..Len(q) |-> ToGo(expire[q[i]], now)]
            d == ToGo(at, now)
<1>1. /\ q \in Seq(Tmr) /\ Len(q) \in Nat /\ DOMAIN q = 1..Len(q) /\ Walk(L, TimerList) = q
      /\ Ring(L, TimerList, q)
  BY TwoWalks DEF TwoLists
<1>2. \A i \in 1..Len(q) : go[i] \in 0..MaxDelay /\ (i \in later <=> d < go[i])
  BY BeforeMeansSooner DEF InOrder
<1>3. \A i, j \in 1..Len(q) : i < j => go[i] <= go[j]
  BY DEF InOrder
<1>4. InsertBefore(L, expire, at)
        = IF later = {} THEN TimerList ELSE q[CHOOSE i \in later : \A j \in later : i <= j]
  BY <1>1 DEF InsertBefore
<1>5. \A k \in 0..Len(q) : L.prev[Node(TimerList, q, k + 1)] = Node(TimerList, q, k)
  BY <1>1 DEF Ring
<1>6. later \subseteq 1..Len(q)
  OBVIOUS
<1>7. d \in 0..MaxDelay
  OBVIOUS
<1>8. SUFFICES \E k \in 0..Len(q) :
                 /\ L.prev[InsertBefore(L, expire, at)] = Node(TimerList, q, k)
                 /\ \A i \in 1..k : go[i] <= d
                 /\ \A i \in (k + 1)..Len(q) : d <= go[i]
  <2>1. \A k \in 0..Len(q) : \A i : (i \in 1..k \/ i \in (k + 1)..Len(q)) => i \in 1..Len(q)
    BY <1>1
  <2>2. \A i \in 1..Len(q) : go[i] = ToGo(expire[q[i]], now)
    OBVIOUS
  <2>. HIDE DEF go
  <2>. QED
    BY <2>1, <2>2
<1>. HIDE DEF later, go, d
<1>9. CASE later = {}
  <2>1. InsertBefore(L, expire, at) = Node(TimerList, q, Len(q) + 1)
    BY <1>1, <1>4, <1>9 DEF Node
  <2>2. \A i \in 1..Len(q) : go[i] <= d
    BY <1>2, <1>7, <1>9, WrapFacts
  <2>3. Len(q) \in 0..Len(q) /\ (Len(q) + 1)..Len(q) = {}
    BY <1>1
  <2>. QED
    BY <1>5, <2>1, <2>2, <2>3
<1>10. CASE later # {}
  <2>1. later \subseteq Nat
    BY <1>1, <1>6
  <2>2. \E i \in later : \A j \in later : i <= j
    BY <1>10, <2>1, NatMinimum
  <2>. DEFINE m == CHOOSE i \in later : \A j \in later : i <= j
  <2>3. m \in later /\ \A j \in later : m <= j
    BY <2>2
  <2>4. InsertBefore(L, expire, at) = q[m]
    BY <1>4, <1>10
  <2>. HIDE DEF m
  <2>5. m \in 1..Len(q) /\ m - 1 \in 0..Len(q) /\ (m - 1) + 1 = m
    BY <1>1, <1>6, <2>3
  <2>6. InsertBefore(L, expire, at) = Node(TimerList, q, m)
    BY <2>4, <2>5 DEF Node
  <2>7. \A i \in 1..(m - 1) : go[i] <= d
    <3>1. ASSUME NEW i \in 1..(m - 1) PROVE go[i] <= d
      <4>1. i \in 1..Len(q) /\ i \notin later
        BY <1>1, <2>3, <2>5
      <4>. QED
        BY <1>2, <1>7, <4>1, WrapFacts
    <3>. QED
      BY <3>1
  <2>8. \A i \in ((m - 1) + 1)..Len(q) : d <= go[i]
    <3>1. ASSUME NEW i \in m..Len(q) PROVE d <= go[i]
      <4>1. i \in 1..Len(q) /\ (i = m \/ m < i)
        BY <1>1, <2>5
      <4>2. d < go[m] /\ go[m] <= go[i] /\ go[m] \in Int /\ go[i] \in Int
        BY <1>2, <1>3, <2>3, <2>5, <4>1, WrapFacts
      <4>. QED
        BY <1>7, <4>2, WrapFacts
    <3>. QED
      BY <2>5, <3>1
  <2>9. L.prev[InsertBefore(L, expire, at)] = Node(TimerList, q, m - 1)
    BY <1>5, <2>5, <2>6
  <2>. QED
    BY <2>5, <2>7, <2>8, <2>9
<1>. QED
  BY <1>9, <1>10

LEMMA OrderInserted ==
  ASSUME NEW q \in Seq(Tmr), NEW expire, NEW now \in Int, InOrder(q, expire, now),
         NEW x \in Tmr, NEW k \in 0..Len(q),
         expire[x] \in 0..(Wrap - 1), ToGo(expire[x], now) \in 0..MaxDelay,
         \A i \in 1..k : ToGo(expire[q[i]], now) <= ToGo(expire[x], now),
         \A i \in (k + 1)..Len(q) : ToGo(expire[x], now) <= ToGo(expire[q[i]], now)
  PROVE  InOrder(Inserted(q, k, x), expire, now)
<1>. DEFINE w == Inserted(q, k, x)
            g == [y \in Tmr |-> ToGo(expire[y], now)]
<1>1. Len(q) \in Nat /\ Len(w) = Len(q) + 1 /\ \A i \in 1..Len(q) : q[i] \in Tmr
  BY InsertedFacts, ElementOfSeq
<1>2. \A i \in 1..(Len(q) + 1) :
        /\ i <= k => w[i] = q[i] /\ i \in 1..Len(q)
        /\ i = k + 1 => w[i] = x
        /\ i > k + 1 => w[i] = q[i - 1] /\ i - 1 \in (k + 1)..Len(q)
  BY <1>1 DEF Inserted
<1>. HIDE DEF w
<1>3. ASSUME NEW i \in 1..Len(w) PROVE w[i] = x \/ \E l \in 1..Len(q) : w[i] = q[l]
  <2>1. i <= k \/ i = k + 1 \/ i > k + 1
    BY <1>1
  <2>2. (k + 1)..Len(q) \subseteq 1..Len(q)
    BY <1>1
  <2>. QED
    BY <1>1, <1>2, <2>1, <2>2
<1>4. \A i \in 1..Len(w) : expire[w[i]] \in 0..(Wrap - 1) /\ ToGo(expire[w[i]], now) \in 0..MaxDelay
  BY <1>3 DEF InOrder
<1>5. ASSUME NEW i \in 1..Len(w), NEW j \in 1..Len(w), i < j
      PROVE  ToGo(expire[w[i]], now) <= ToGo(expire[w[j]], now)
  <2>1. /\ \A l \in 1..Len(q) : g[q[l]] = ToGo(expire[q[l]], now)
        /\ g[x] = ToGo(expire[x], now) /\ g[w[i]] = ToGo(expire[w[i]], now)
        /\ g[w[j]] = ToGo(expire[w[j]], now)
    <3>1. w[i] \in Tmr /\ w[j] \in Tmr
      BY <1>1, <1>3
    <3>. QED
      BY <1>1, <3>1
  <2>2. /\ \A l, o \in 1..Len(q) : l < o => g[q[l]] <= g[q[o]]
        /\ \A l \in 1..k : g[q[l]] <= g[x]
        /\ \A l \in (k + 1)..Len(q) : g[x] <= g[q[l]]
    BY <1>1, <2>1 DEF InOrder
  <2>. HIDE DEF g
  <2>3. g[w[i]] <= g[w[j]]
    <3>1. CASE j <= k
      BY <1>1, <1>2, <1>5, <2>2, <3>1
    <3>2. CASE j = k + 1
      BY <1>1, <1>2, <1>5, <2>2, <3>2
    <3>3. CASE j > k + 1 /\ i = k + 1
      BY <1>1, <1>2, <1>5, <2>2, <3>3
    <3>4. CASE j > k + 1 /\ i <= k
      <4>1. i \in 1..Len(q) /\ j - 1 \in 1..Len(q) /\ i < j - 1 /\ w[i] = q[i] /\ w[j] = q[j - 1]
        BY <1>1, <1>2, <1>5, <3>4
      <4>. QED
        BY <2>2, <4>1
    <3>5. CASE j > k + 1 /\ i > k + 1
      <4>1. i - 1 \in 1..Len(q) /\ j - 1 \in 1..Len(q) /\ i - 1 < j - 1 /\ w[i] = q[i - 1] /\ w[j] = q[j - 1]
        BY <1>1, <1>2, <1>5, <3>5
      <4>. QED
        BY <2>2, <4>1
    <3>. QED
      BY <1>1, <1>5, <3>1, <3>2, <3>3, <3>4, <3>5
  <2>. QED
    BY <2>1, <2>3
<1>. QED
  BY <1>4, <1>5 DEF InOrder, w

LEMMA OrderWithout ==
  ASSUME NEW q \in Seq(Tmr), Distinct(q), NEW expire, NEW now \in Int, InOrder(q, expire, now), NEW x
  PROVE  InOrder(Without(q, x), expire, now)
<1>1. Len(q) \in Nat
  OBVIOUS
<1>2. CASE x \in Items(q)
  <2>1. PICK k \in 1..Len(q) : q[k] = x
    BY <1>2 DEF Items
  <2>. DEFINE w == Without(q, x)
  <2>2. w = [j \in 1..(Len(q) - 1) |-> IF j < k THEN q[j] ELSE q[j + 1]]
    BY <2>1, WithoutAt
  <2>3. Len(w) = Len(q) - 1
    BY <1>2, WithoutLen
  <2>. HIDE DEF w
  <2>4. \A j \in 1..Len(w) :
          /\ j < k => w[j] = q[j] /\ j \in 1..Len(q)
          /\ j >= k => w[j] = q[j + 1] /\ j + 1 \in 1..Len(q)
    <3>. SUFFICES ASSUME NEW j \in 1..Len(w)
                  PROVE  /\ j < k => w[j] = q[j] /\ j \in 1..Len(q)
                         /\ j >= k => w[j] = q[j + 1] /\ j + 1 \in 1..Len(q)
      OBVIOUS
    <3>1. w[j] = IF j < k THEN q[j] ELSE q[j + 1]
      BY <2>2, <2>3
    <3>2. j \in 1..Len(q) /\ j + 1 \in 1..Len(q)
      BY <1>1, <2>1, <2>3
    <3>. QED
      BY <3>1, <3>2
  <2>0. \A j \in 1..Len(w) : \E l \in 1..Len(q) : w[j] = q[l]
    <3>. SUFFICES ASSUME NEW j \in 1..Len(w)
                  PROVE  \E l \in 1..Len(q) : w[j] = q[l]
      OBVIOUS
    <3>1. CASE j < k
      BY <2>4, <3>1
    <3>2. CASE j >= k
      BY <2>4, <3>2
    <3>3. j < k \/ j >= k
      BY <1>1, <2>1, <2>3
    <3>. QED
      BY <3>1, <3>2, <3>3
  <2>5. \A i \in 1..Len(w) : expire[w[i]] \in 0..(Wrap - 1) /\ ToGo(expire[w[i]], now) \in 0..MaxDelay
    <3>1. \A l \in 1..Len(q) : expire[q[l]] \in 0..(Wrap - 1) /\ ToGo(expire[q[l]], now) \in 0..MaxDelay
      BY DEF InOrder
    <3>. QED
      BY <2>0, <3>1
  <2>6. ASSUME NEW i \in 1..Len(w), NEW j \in 1..Len(w), i < j
        PROVE  ToGo(expire[w[i]], now) <= ToGo(expire[w[j]], now)
    <3>1. \E l, o \in 1..Len(q) : l < o /\ w[i] = q[l] /\ w[j] = q[o]
      <4>1. CASE j < k
        BY <1>1, <2>1, <2>3, <2>4, <2>6, <4>1, SMTT(30)
      <4>2. CASE j >= k /\ i < k
        BY <1>1, <2>1, <2>3, <2>4, <2>6, <4>2
      <4>3. CASE j >= k /\ i >= k
        BY <1>1, <2>1, <2>3, <2>4, <2>6, <4>3, SMTT(30)
      <4>. QED
        BY <1>1, <2>1, <2>3, <4>1, <4>2, <4>3
    <3>. QED
      BY <3>1 DEF InOrder
  <2>. QED
    BY <2>5, <2>6 DEF InOrder, w
<1>3. CASE x \notin Items(q)
  <2>1. Without(q, x) = q
    BY <1>3, InQueueItems DEF Without
  <2>. QED
    BY <2>1
<1>. QED
  BY <1>2, <1>3

\* Another expiry time, for a timer that is not in the list.
LEMMA OrderElsewhere ==
  ASSUME NEW q \in Seq(Tmr), NEW expire, NEW other, NEW now \in Int, InOrder(q, expire, now),
         \A y \in Items(q) : other[y] = expire[y]
  PROVE  InOrder(q, other, now)
<1>1. \A i \in 1..Len(q) : q[i] \in Items(q)
  BY DEF Items
<1>. QED
  BY <1>1 DEF InOrder
-----------------------------------------------------------------------------
\* The timers of W wait and those of E have expired, in order, at the time now.
Lined(s, now, W, E) ==
  /\ s = [links |-> s.links, expire |-> s.expire]
  /\ s.expire \in [Tmr -> 0..(Wrap - 1)]
  /\ \E q, e \in Seq(Tmr) : /\ TwoLists(s.links, q, e) /\ InOrder(q, s.expire, now)
                           /\ Items(q) = W /\ Items(e) = E

LEMMA LinedFacts ==
  ASSUME NEW s, NEW now, NEW W, NEW E, Lined(s, now, W, E)
  PROVE  /\ W \subseteq Tmr /\ E \subseteq Tmr /\ W \cap E = {}
         /\ \A x \in W : ToGo(s.expire[x], now) \in 0..MaxDelay
<1>1. PICK q, e \in Seq(Tmr) : /\ TwoLists(s.links, q, e) /\ InOrder(q, s.expire, now)
                              /\ Items(q) = W /\ Items(e) = E
  BY DEF Lined
<1>2. \A x \in Items(q) : \E i \in 1..Len(q) : x = q[i]
  BY DEF Items
<1>. QED
  BY <1>1, <1>2, NoItems DEF TwoLists, InOrder

\* a differs from s in the expiry time of x, which is d ticks from now.
ExpiryMoved(a, s, now, x, d) ==
  /\ \A y \in Tmr : y # x => a.expire[y] = s.expire[y]
  /\ ToGo(a.expire[x], now) = d

\* timer_add() of a timer in no list.
LEMMA LinedAdded ==
  ASSUME NEW s, NEW now \in 0..(Wrap - 1), NEW W, NEW E, Lined(s, now, W, E),
         NEW x \in Tmr, x \notin W \cup E, NEW ticks \in 0..MaxDelay
  PROVE  /\ Lined(Added(s, now, x, ticks), now, W \cup {x}, E)
         /\ ExpiryMoved(Added(s, now, x, ticks), s, now, x, IF ticks = 0 THEN 1 ELSE ticks)
<1>. DEFINE d == IF ticks = 0 THEN 1 ELSE ticks
            at == (now + d) % Wrap
            expire == [s.expire EXCEPT ![x] = at]
            p == s.links.prev[InsertBefore(s.links, expire, at)]
<1>1. PICK q, e \in Seq(Tmr) : /\ TwoLists(s.links, q, e) /\ InOrder(q, s.expire, now)
                              /\ Items(q) = W /\ Items(e) = E
  BY DEF Lined
<1>2. s.expire \in [Tmr -> 0..(Wrap - 1)]
  BY DEF Lined
<1>3. d \in 0..MaxDelay
  BY WrapFacts
<1>4. at \in 0..(Wrap - 1) /\ ToGo(at, now) = d
  <2>. HIDE DEF d
  <2>. QED
    BY <1>3, ExpiresIn
<1>5. Added(s, now, x, ticks) = [links |-> ListInserted(s.links, p, x), expire |-> expire]
  BY DEF Added
<1>. HIDE DEF d, at
<1>6. /\ expire \in [Tmr -> 0..(Wrap - 1)] /\ expire[x] = at
      /\ \A y \in Tmr : y # x => expire[y] = s.expire[y]
  BY <1>2, <1>4
<1>. HIDE DEF expire
<1>7. InOrder(q, expire, now)
  <2>1. \A y \in Items(q) : expire[y] = s.expire[y]
    BY <1>1, <1>6, NoItems
  <2>2. now \in Int
    OBVIOUS
  <2>. QED
    BY <1>1, <2>1, <2>2, OrderElsewhere
<1>8. PICK k \in 0..Len(q) :
        /\ p = Node(TimerList, q, k)
        /\ \A i \in 1..k : ToGo(expire[q[i]], now) <= ToGo(at, now)
        /\ \A i \in (k + 1)..Len(q) : ToGo(at, now) <= ToGo(expire[q[i]], now)
  <2>1. now \in Int /\ at \in Int /\ ToGo(at, now) \in 0..MaxDelay
    BY <1>3, <1>4, WrapFacts
  <2>2. \E k \in 0..Len(q) :
          /\ s.links.prev[InsertBefore(s.links, expire, at)] = Node(TimerList, q, k)
          /\ \A i \in 1..k : ToGo(expire[q[i]], now) <= ToGo(at, now)
          /\ \A i \in (k + 1)..Len(q) : ToGo(at, now) <= ToGo(expire[q[i]], now)
    BY <1>1, <1>7, <2>1, PlaceFound
  <2>. QED
    BY <2>2
<1>. HIDE DEF p
<1>9. TwoLists(ListInserted(s.links, p, x), Inserted(q, k, x), e)
  BY <1>1, <1>8, TimerLinked
<1>10. InOrder(Inserted(q, k, x), expire, now)
  <2>1. now \in Int /\ expire[x] \in 0..(Wrap - 1) /\ ToGo(expire[x], now) \in 0..MaxDelay
    BY <1>3, <1>4, <1>6
  <2>2. /\ \A i \in 1..k : ToGo(expire[q[i]], now) <= ToGo(expire[x], now)
        /\ \A i \in (k + 1)..Len(q) : ToGo(expire[x], now) <= ToGo(expire[q[i]], now)
    BY <1>6, <1>8
  <2>. QED
    BY <1>7, <2>1, <2>2, OrderInserted
<1>11. Inserted(q, k, x) \in Seq(Tmr) /\ Items(Inserted(q, k, x)) = W \cup {x}
  BY <1>1, InsertedFacts
<1>. DEFINE a == Added(s, now, x, ticks)
<1>12. a = [links |-> a.links, expire |-> a.expire] /\ a.links = ListInserted(s.links, p, x) /\ a.expire = expire
  BY <1>5 DEF p
<1>. HIDE DEF a
<1>13. Lined(a, now, W \cup {x}, E)
  BY <1>1, <1>6, <1>9, <1>10, <1>11, <1>12 DEF Lined
<1>. QED
  BY <1>4, <1>6, <1>12, <1>13 DEF a, d, ExpiryMoved

\* A timer leaves the list it is in.
LEMMA LinedRemoved ==
  ASSUME NEW s, NEW now \in Int, NEW W, NEW E, Lined(s, now, W, E), NEW x, NEW links
  PROVE  /\ x \in W /\ links \in {Removed(s.links, x), ListRemoved(s.links, x)}
              => Lined([s EXCEPT !.links = links], now, W \ {x}, E)
         /\ x \in E /\ links \in {Removed(s.links, x), ListRemoved(s.links, x)}
              => Lined([s EXCEPT !.links = links], now, W, E \ {x})
<1>. DEFINE r == [s EXCEPT !.links = links]
<1>1. PICK q, e \in Seq(Tmr) : /\ TwoLists(s.links, q, e) /\ InOrder(q, s.expire, now)
                              /\ Items(q) = W /\ Items(e) = E
  BY DEF Lined
<1>2. s = [links |-> s.links, expire |-> s.expire] /\ s.expire \in [Tmr -> 0..(Wrap - 1)]
  BY DEF Lined
<1>3. r = [links |-> links, expire |-> s.expire]
  BY <1>2
<1>4. r = [links |-> r.links, expire |-> r.expire] /\ r.links = links /\ r.expire = s.expire
  BY <1>3
<1>. HIDE DEF r
<1>5. ASSUME x \in W, links \in {Removed(s.links, x), ListRemoved(s.links, x)}
      PROVE  Lined(r, now, W \ {x}, E)
  <2>1. TwoLists(Removed(s.links, x), Without(q, x), e) /\ Items(Without(q, x)) = W \ {x}
    BY <1>1, <1>5, TimerUnlinked
  <2>2. x \in Tmr /\ x \notin Items(Without(q, x)) \cup Items(e)
    BY <1>1, <1>5, <2>1, NoItems DEF TwoLists
  <2>3. TwoLists(links, Without(q, x), e)
    BY <1>5, <2>1, <2>2, TimerForgotten
  <2>4. InOrder(Without(q, x), s.expire, now)
    BY <1>1, OrderWithout DEF TwoLists, Ring
  <2>5. Without(q, x) \in Seq(Tmr)
    BY <2>3 DEF TwoLists
  <2>. QED
    BY <1>1, <1>2, <1>4, <2>1, <2>3, <2>4, <2>5 DEF Lined
<1>6. ASSUME x \in E, links \in {Removed(s.links, x), ListRemoved(s.links, x)}
      PROVE  Lined(r, now, W, E \ {x})
  <2>1. TwoLists(Removed(s.links, x), q, Without(e, x)) /\ Items(Without(e, x)) = E \ {x}
    BY <1>1, <1>6, TimerUnlinked
  <2>2. x \in Tmr /\ x \notin Items(q) \cup Items(Without(e, x))
    BY <1>1, <1>6, <2>1, NoItems DEF TwoLists
  <2>3. TwoLists(links, q, Without(e, x))
    BY <1>6, <2>1, <2>2, TimerForgotten
  <2>5. Without(e, x) \in Seq(Tmr)
    BY <2>3 DEF TwoLists
  <2>. QED
    BY <1>1, <1>2, <1>4, <2>1, <2>3, <2>5 DEF Lined
<1>. QED
  BY <1>5, <1>6 DEF r

\* timer_handler() for a timer that is due now.
LEMMA LinedTick ==
  ASSUME NEW s, NEW now \in 0..(Wrap - 1), NEW W, NEW E, Lined(s, now, W, E),
         NEW x \in W, ToGo(s.expire[x], now) = 0, tinterval[x] \in 0..MaxDelay
  PROVE  /\ tinterval[x] # 0 => Lined(TickFor(s, now, x), now, W, E)
         /\ tinterval[x] = 0 => Lined(TickFor(s, now, x), now, W \ {x}, E \cup {x})
         /\ ExpiryMoved(TickFor(s, now, x), s, now, x, IF tinterval[x] = 0 THEN ToGo(0, now) ELSE tinterval[x])
<1>. DEFINE r == [s EXCEPT !.links = Removed(s.links, x)]
<1>1. W \subseteq Tmr /\ E \subseteq Tmr /\ W \cap E = {} /\ x \in Tmr
  BY LinedFacts
<1>2. s = [links |-> s.links, expire |-> s.expire] /\ s.expire \in [Tmr -> 0..(Wrap - 1)]
  BY DEF Lined
<1>3. r.expire = s.expire /\ r = [links |-> r.links, expire |-> r.expire]
  BY <1>2
<1>4. Lined(r, now, W \ {x}, E)
  <2>1. now \in Int
    OBVIOUS
  <2>. QED
    BY <2>1, LinedRemoved
<1>5. TickFor(s, now, x) =
        IF tinterval[x] # 0
        THEN Added(r, now, x, TimeRemain(now, (s.expire[x] + tinterval[x]) % Wrap))
        ELSE [links |-> ListInserted(r.links, ExpireList, x), expire |-> Cleared(s.expire, x)]
  BY DEF TickFor
<1>. HIDE DEF r
<1>6. CASE tinterval[x] # 0
  <2>. DEFINE at == (now + tinterval[x]) % Wrap
  <2>0. Wrap \in Nat \ {0} /\ now \in Int /\ s.expire[x] \in 0..(Wrap - 1) /\ 0 \in 0..(Wrap - 1)
    BY <1>1, <1>2, WrapFacts
  <2>1. 0 % Wrap = 0
    BY <2>0, SmallRemainder
  <2>2. s.expire[x] = now
    <3>1. (s.expire[x] - now) % Wrap = 0 % Wrap
      BY <2>1 DEF ToGo
    <3>2. s.expire[x] - now \in Int /\ (s.expire[x] - now) - 0 < Wrap /\ 0 - (s.expire[x] - now) < Wrap
      BY <2>0
    <3>3. s.expire[x] - now = 0
      BY <2>0, <3>1, <3>2, SameRemainder
    <3>. QED
      BY <2>0, <3>3
  <2>3. at \in 0..(Wrap - 1) /\ ToGo(at, now) = tinterval[x]
    BY ExpiresIn
  <2>4. ToGo(now, now) = 0
    <3>1. now - now = 0
      OBVIOUS
    <3>. QED
      BY <2>1, <3>1 DEF ToGo
  <2>. HIDE DEF at
  <2>5. TimeBefore(now, at)
    <3>1. at \in Int /\ ToGo(now, now) \in 0..MaxDelay /\ ToGo(at, now) \in 0..MaxDelay
      BY <2>0, <2>3, <2>4, WrapFacts
    <3>2. TimeBefore(now, at) <=> ToGo(now, now) < ToGo(at, now)
      BY <2>0, <3>1, BeforeMeansSooner
    <3>. QED
      BY <1>6, <2>3, <2>4, <3>1, <3>2
  <2>6. TimeRemain(now, at) = tinterval[x]
    BY <2>3, <2>5 DEF TimeRemain, ToGo
  <2>7. TickFor(s, now, x) = Added(r, now, x, tinterval[x])
    BY <1>5, <1>6, <2>2, <2>6 DEF at
  <2>8. x \notin (W \ {x}) \cup E
    BY <1>1
  <2>. DEFINE V == W \ {x}
              t == tinterval[x]
  <2>9. Lined(Added(r, now, x, t), now, V \cup {x}, E) /\ ExpiryMoved(Added(r, now, x, t), r, now, x, t)
    <3>1. Lined(r, now, V, E) /\ x \in Tmr /\ x \notin V \cup E /\ t \in 0..MaxDelay
      BY <1>1, <1>4, <2>8
    <3>2. t = IF t = 0 THEN 1 ELSE t
      BY <1>6
    <3>. HIDE DEF V, t
    <3>3. /\ Lined(Added(r, now, x, t), now, V \cup {x}, E)
          /\ ExpiryMoved(Added(r, now, x, t), r, now, x, IF t = 0 THEN 1 ELSE t)
      BY <3>1, LinedAdded
    <3>. QED
      BY <3>2, <3>3
  <2>10. V \cup {x} = W
    OBVIOUS
  <2>. HIDE DEF V
  <2>11. ExpiryMoved(Added(r, now, x, t), s, now, x, t)
    BY <1>3, <2>9 DEF ExpiryMoved
  <2>. QED
    BY <1>6, <2>7, <2>9, <2>10, <2>11
<1>7. CASE tinterval[x] = 0
  <2>. DEFINE a == [links |-> ListInserted(r.links, ExpireList, x), expire |-> Cleared(s.expire, x)]
  <2>1. TickFor(s, now, x) = a
    BY <1>5, <1>7
  <2>2. a = [links |-> a.links, expire |-> a.expire] /\ a.links = ListInserted(r.links, ExpireList, x)
    OBVIOUS
  <2>3. /\ a.expire \in [Tmr -> 0..(Wrap - 1)] /\ a.expire[x] = 0
        /\ \A y \in Tmr : y # x => a.expire[y] = s.expire[y]
    BY <1>1, <1>2, WrapFacts DEF Cleared
  <2>. HIDE DEF a
  <2>4. PICK q, e \in Seq(Tmr) : /\ TwoLists(r.links, q, e) /\ InOrder(q, r.expire, now)
                                /\ Items(q) = W \ {x} /\ Items(e) = E
    BY <1>4 DEF Lined
  <2>5. TwoLists(a.links, q, Inserted(e, 0, x))
    <3>1. x \notin Items(q) \cup Items(e)
      BY <1>1, <2>4
    <3>. QED
      BY <1>1, <2>2, <2>4, <3>1, ExpiredLinked
  <2>6. InOrder(q, a.expire, now)
    <3>1. \A y \in Items(q) : a.expire[y] = r.expire[y]
      BY <1>1, <1>3, <2>3, <2>4
    <3>2. now \in Int
      OBVIOUS
    <3>. QED
      BY <2>4, <3>1, <3>2, OrderElsewhere
  <2>7. Inserted(e, 0, x) \in Seq(Tmr) /\ Items(Inserted(e, 0, x)) = E \cup {x}
    <3>1. 0 \in 0..Len(e)
      OBVIOUS
    <3>. QED
      BY <1>1, <2>4, <3>1, InsertedFacts
  <2>8. Lined(a, now, W \ {x}, E \cup {x})
    BY <2>2, <2>3, <2>4, <2>5, <2>6, <2>7 DEF Lined
  <2>. QED
    BY <1>7, <2>1, <2>3, <2>8 DEF ExpiryMoved
<1>. QED
  BY <1>6, <1>7

\* Time passes, and no timer of W is due yet.
LEMMA LinedLater ==
  ASSUME NEW s, NEW now \in 0..(Wrap - 1), NEW W, NEW E, Lined(s, now, W, E),
         \A x \in W : ToGo(s.expire[x], now) \in 1..MaxDelay
  PROVE  /\ Lined(s, (now + 1) % Wrap, W, E)
         /\ \A x \in W : ToGo(s.expire[x], (now + 1) % Wrap) = ToGo(s.expire[x], now) - 1
<1>. DEFINE n == (now + 1) % Wrap
<1>1. PICK q, e \in Seq(Tmr) : /\ TwoLists(s.links, q, e) /\ InOrder(q, s.expire, now)
                              /\ Items(q) = W /\ Items(e) = E
  BY DEF Lined
<1>2. s = [links |-> s.links, expire |-> s.expire] /\ s.expire \in [Tmr -> 0..(Wrap - 1)]
  BY DEF Lined
<1>3. W \subseteq Tmr
  BY LinedFacts
<1>4. \A x \in W : ToGo(s.expire[x], n) = ToGo(s.expire[x], now) - 1
  <2>1. ASSUME NEW x \in W PROVE ToGo(s.expire[x], n) = ToGo(s.expire[x], now) - 1
    <3>1. s.expire[x] \in 0..(Wrap - 1) /\ ToGo(s.expire[x], now) \in 1..MaxDelay
      BY <1>2, <1>3
    <3>. QED
      BY <3>1, TickBrings
  <2>. QED
    BY <2>1
<1>. HIDE DEF n
<1>5. \A i \in 1..Len(q) : q[i] \in W
  BY <1>1 DEF Items
<1>6. \A i \in 1..Len(q) : s.expire[q[i]] \in 0..(Wrap - 1) /\ ToGo(s.expire[q[i]], n) \in 0..MaxDelay
  <2>1. ASSUME NEW i \in 1..Len(q)
        PROVE  s.expire[q[i]] \in 0..(Wrap - 1) /\ ToGo(s.expire[q[i]], n) \in 0..MaxDelay
    <3>1. q[i] \in W /\ ToGo(s.expire[q[i]], now) \in 1..MaxDelay
      BY <1>5
    <3>. QED
      BY <1>2, <1>3, <1>4, <3>1, WrapFacts, SMTT(30)
  <2>. QED
    BY <2>1
<1>7. ASSUME NEW i \in 1..Len(q), NEW j \in 1..Len(q), i < j
      PROVE  ToGo(s.expire[q[i]], n) <= ToGo(s.expire[q[j]], n)
  <2>1. q[i] \in W /\ q[j] \in W /\ ToGo(s.expire[q[i]], now) <= ToGo(s.expire[q[j]], now)
    BY <1>1, <1>5, <1>7 DEF InOrder
  <2>2. ToGo(s.expire[q[i]], now) \in 1..MaxDelay /\ ToGo(s.expire[q[j]], now) \in 1..MaxDelay
    BY <2>1
  <2>3. /\ ToGo(s.expire[q[i]], n) = ToGo(s.expire[q[i]], now) - 1
        /\ ToGo(s.expire[q[j]], n) = ToGo(s.expire[q[j]], now) - 1
    BY <1>4, <2>1
  <2>. QED
    BY <2>1, <2>2, <2>3, WrapFacts
<1>8. InOrder(q, s.expire, n)
  BY <1>6, <1>7 DEF InOrder
<1>9. Lined(s, n, W, E)
  BY <1>1, <1>2, <1>8 DEF Lined
<1>. QED
  BY <1>4, <1>9 DEF n

\* The timers that timer_handler() takes off the list are those that are due.
LEMMA ExpiredAre ==
  ASSUME NEW now \in 0..(Wrap - 1), NEW W, NEW E, Lined(Lists, now, W, E)
  PROVE  /\ Expired(now) \in Seq(Tmr) /\ Distinct(Expired(now))
         /\ Items(Expired(now)) = {x \in W : ToGo(texpire[x], now) = 0}
<1>0. Lists.links = tlinks /\ Lists.expire = texpire
  BY DEF Lists
<1>1. PICK q, e \in Seq(Tmr) : /\ TwoLists(tlinks, q, e) /\ InOrder(q, texpire, now)
                              /\ Items(q) = W /\ Items(e) = E
  BY <1>0 DEF Lined
<1>2. Walk(tlinks, TimerList) = q /\ Distinct(q) /\ Len(q) \in Nat
  BY <1>1, TwoWalks DEF TwoLists, Ring
<1>. DEFINE late(i) == TimeBefore(now, texpire[q[i]])
            P(n) == (\A i \in 1..n : ~late(i)) /\ (n < Len(q) => late(n + 1))
            k == CHOOSE n \in 0..Len(q) : P(n)
<1>3. Expired(now) = SubSeq(q, 1, k)
  BY <1>2 DEF Expired
<1>4. \A i \in 1..Len(q) : late(i) <=> 0 < ToGo(texpire[q[i]], now)
  <2>1. ToGo(now, now) = 0
    <3>1. 0 \in 0..(Wrap - 1) /\ Wrap \in Nat \ {0} /\ now - now = 0
      BY WrapFacts
    <3>2. 0 % Wrap = 0
      BY <3>1, SmallRemainder
    <3>. QED
      BY <3>1, <3>2 DEF ToGo
  <2>2. ASSUME NEW i \in 1..Len(q) PROVE late(i) <=> 0 < ToGo(texpire[q[i]], now)
    <3>1. texpire[q[i]] \in Int /\ ToGo(texpire[q[i]], now) \in 0..MaxDelay
      BY <1>1, WrapFacts DEF InOrder
    <3>2. now \in Int /\ ToGo(now, now) \in 0..MaxDelay
      BY <2>1, WrapFacts
    <3>. QED
      BY <2>1, <3>1, <3>2, BeforeMeansSooner
  <2>. QED
    BY <2>2
<1>5. /\ \A i \in 1..Len(q) : ToGo(texpire[q[i]], now) \in 0..MaxDelay
      /\ \A i, j \in 1..Len(q) : i < j => ToGo(texpire[q[i]], now) <= ToGo(texpire[q[j]], now)
  BY <1>1 DEF InOrder
<1>. HIDE DEF late
<1>6. \E n \in 0..Len(q) : P(n)
  <2>. DEFINE T == {n \in 0..Len(q) : n < Len(q) => late(n + 1)}
  <2>1. Len(q) \in T /\ T \subseteq Nat
    BY <1>2
  <2>2. \E n \in T : \A m \in T : n <= m
    <3>. HIDE DEF T
    <3>. QED
      BY <2>1, NatMinimum
  <2>3. PICK n \in T : \A m \in T : n <= m
    BY <2>2
  <2>4. ASSUME NEW i \in 1..n, late(i) PROVE FALSE
    <3>1. i - 1 \in 0..Len(q) /\ i - 1 < Len(q) /\ (i - 1) + 1 = i
      BY <1>2, <2>3
    <3>2. i - 1 \in T
      BY <2>4, <3>1
    <3>. QED
      BY <1>2, <2>3, <3>1, <3>2
  <2>. QED
    BY <2>3, <2>4
<1>7. k \in 0..Len(q) /\ P(k)
  <2>. HIDE DEF P
  <2>. QED
    BY <1>6
<1>. HIDE DEF k
<1>8. /\ SubSeq(q, 1, k) \in Seq(Tmr) /\ Len(SubSeq(q, 1, k)) = k
      /\ \A i \in 1..k : SubSeq(q, 1, k)[i] = q[i] /\ i \in 1..Len(q)
  BY <1>2, <1>7
<1>9. \A i \in 1..k : ToGo(texpire[q[i]], now) = 0
  BY <1>2, <1>4, <1>5, <1>7, WrapFacts
<1>10. ASSUME NEW i \in 1..Len(q), i > k PROVE ToGo(texpire[q[i]], now) # 0
  <2>1. k + 1 \in 1..Len(q) /\ k < Len(q) /\ (i = k + 1 \/ k + 1 < i)
    BY <1>2, <1>7, <1>10
  <2>2. 0 < ToGo(texpire[q[k + 1]], now) /\ ToGo(texpire[q[k + 1]], now) <= ToGo(texpire[q[i]], now)
    BY <1>2, <1>4, <1>5, <1>7, <2>1, WrapFacts
  <2>. QED
    BY <1>5, <2>1, <2>2, WrapFacts
<1>11. Distinct(SubSeq(q, 1, k))
  BY <1>2, <1>8 DEF Distinct
<1>12. Items(SubSeq(q, 1, k)) = {x \in W : ToGo(texpire[x], now) = 0}
  <2>1. Items(SubSeq(q, 1, k)) = {q[i] : i \in 1..k}
    BY <1>8 DEF Items
  <2>2. W = {q[i] : i \in 1..Len(q)}
    BY <1>1 DEF Items
  <2>3. \A i \in 1..Len(q) : i \in 1..k \/ i > k
    BY <1>7
  <2>. QED
    BY <1>8, <1>9, <1>10, <2>1, <2>2, <2>3
<1>. QED
  BY <1>3, <1>8, <1>11, <1>12
-----------------------------------------------------------------------------
\* f[i] is what the lists are after i timers of q.
TickRun(f, now, q, n) ==
  f = [i \in 0..n |-> IF i = 0 THEN Lists ELSE TickFor(f[i - 1], now, q[i])]

LEMMA TickRuns ==
  ASSUME NEW now, NEW q, NEW n \in Nat
  PROVE  \E f : TickRun(f, now, q, n)
<1>. DEFINE T == {k \in 0..n : \E f : TickRun(f, now, q, k)}
<1>1. 0 \in T
  <2>. DEFINE f == [i \in 0..0 |-> Lists]
  <2>1. \A i \in 0..0 : i = 0
    OBVIOUS
  <2>2. [i \in 0..0 |-> IF i = 0 THEN Lists ELSE TickFor(f[i - 1], now, q[i])] = [i \in 0..0 |-> Lists]
    BY <2>1
  <2>3. TickRun(f, now, q, 0)
    BY <2>2 DEF TickRun
  <2>. QED
    BY <2>3
<1>2. ASSUME NEW k \in 0..(n - 1), k \in T PROVE k + 1 \in T
  <2>1. PICK f : TickRun(f, now, q, k)
    BY <1>2
  <2>2. f = [i \in 0..k |-> IF i = 0 THEN Lists ELSE TickFor(f[i - 1], now, q[i])]
    BY <2>1 DEF TickRun
  <2>. DEFINE step(g, i) == IF i = 0 THEN Lists ELSE TickFor(g[i - 1], now, q[i])
              last == TickFor(f[k], now, q[k + 1])
              g == [i \in 0..(k + 1) |-> IF i = k + 1 THEN last ELSE f[i]]
  <2>3. \A i \in 0..k : f[i] = step(f, i)
    BY <2>2
  <2>4. \A i \in 0..(k + 1) : g[i] = step(g, i)
    <3>1. ASSUME NEW i \in 0..k PROVE g[i] = step(g, i)
      <4>1. i \in 0..(k + 1) /\ i # k + 1 /\ (i # 0 => i - 1 \in 0..(k + 1) /\ i - 1 # k + 1)
        OBVIOUS
      <4>2. g[i] = f[i] /\ (i # 0 => g[i - 1] = f[i - 1])
        BY <4>1
      <4>. HIDE DEF g
      <4>. QED
        BY <2>3, <4>2
    <3>2. g[k + 1] = step(g, k + 1)
      <4>1. k \in 0..(k + 1) /\ k # k + 1 /\ k + 1 \in 0..(k + 1) /\ k + 1 # 0 /\ (k + 1) - 1 = k
        OBVIOUS
      <4>2. g[k + 1] = last /\ g[k] = f[k]
        BY <4>1
      <4>. HIDE DEF g
      <4>. QED
        BY <4>1, <4>2
    <3>. HIDE DEF g, step
    <3>. QED
      BY <3>1, <3>2
  <2>5. g = [i \in 0..(k + 1) |-> g[i]]
    OBVIOUS
  <2>6. g = [i \in 0..(k + 1) |-> step(g, i)]
    <3>. HIDE DEF g, step
    <3>. QED
      BY <2>4, <2>5
  <2>7. TickRun(g, now, q, k + 1)
    BY <2>6 DEF TickRun
  <2>. QED
    BY <2>7
<1>3. 0..n \subseteq T
  <2>. HIDE DEF T
  <2>. QED
    BY <1>1, <1>2, SetInduction
<1>. QED
  BY <1>3

\* The recursion of timer_handler(), unfolded.
TickSteps(f, now, q) ==
  /\ f[0] = Lists /\ TickAll(now, q) = f[Len(q)]
  /\ \A i \in 1..Len(q) : f[i] = TickFor(f[i - 1], now, q[i])

LEMMA TickUnfolds ==
  ASSUME NEW now, NEW q, Len(q) \in Nat
  PROVE  \E f : TickSteps(f, now, q)
<1>. DEFINE n == Len(q)
            step[i \in 0..n] == IF i = 0 THEN Lists ELSE TickFor(step[i - 1], now, q[i])
            R(f) == f = [i \in 0..n |-> IF i = 0 THEN Lists ELSE TickFor(f[i - 1], now, q[i])]
<1>1. TickAll(now, q) = step[n]
  BY Zenon DEF TickAll, step
<1>2. step = CHOOSE f : R(f)
  OBVIOUS
<1>3. \E f : R(f)
  <2>1. PICK f : TickRun(f, now, q, n)
    BY TickRuns
  <2>2. R(f)
    BY <2>1 DEF TickRun
  <2>. QED
    BY <2>2
<1>4. R(step)
  <2>. HIDE DEF R, step
  <2>. QED
    BY <1>2, <1>3
<1>. HIDE DEF step
<1>5. 0 \in 0..n /\ \A i \in 1..n : i \in 0..n /\ i # 0
  OBVIOUS
<1>6. step[0] = Lists /\ \A i \in 1..n : step[i] = TickFor(step[i - 1], now, q[i])
  BY <1>4, <1>5
<1>7. TickSteps(step, now, q)
  BY <1>1, <1>6 DEF TickSteps
<1>. QED
  BY <1>7

\* The one-shot timers of P.
Oneshot(P) == {x \in P : tinterval[x] = 0}

\* The timers of P have been handled.
TickStage(s, now, W, E, P) ==
  /\ Lined(s, now, W \ Oneshot(P), E \cup Oneshot(P))
  /\ \A y \in Tmr \ P : s.expire[y] = texpire[y]
  /\ \A y \in P : tinterval[y] # 0 => ToGo(s.expire[y], now) = tinterval[y]

LEMMA TickStageNext ==
  ASSUME NEW s, NEW now \in 0..(Wrap - 1), NEW W, NEW E, NEW P, P \subseteq Tmr, TickStage(s, now, W, E, P),
         NEW x \in W, x \in Tmr, x \notin P, ToGo(texpire[x], now) = 0, tinterval[x] \in 0..MaxDelay
  PROVE  TickStage(TickFor(s, now, x), now, W, E, P \cup {x})
<1>. DEFINE V == W \ Oneshot(P)
            F == E \cup Oneshot(P)
            a == TickFor(s, now, x)
<1>1. Lined(s, now, V, F) /\ x \in V
  BY DEF TickStage, Oneshot
<1>2. ToGo(s.expire[x], now) = 0
  BY DEF TickStage
<1>. HIDE DEF V, F, a
<1>3. /\ tinterval[x] # 0 => Lined(a, now, V, F)
      /\ tinterval[x] = 0 => Lined(a, now, V \ {x}, F \cup {x})
      /\ ExpiryMoved(a, s, now, x, IF tinterval[x] = 0 THEN ToGo(0, now) ELSE tinterval[x])
  BY <1>1, <1>2, LinedTick DEF a
<1>4. Lined(a, now, W \ Oneshot(P \cup {x}), E \cup Oneshot(P \cup {x}))
  <2>1. CASE tinterval[x] = 0
    <3>1. W \ Oneshot(P \cup {x}) = V \ {x} /\ E \cup Oneshot(P \cup {x}) = F \cup {x}
      BY <2>1 DEF V, F, Oneshot
    <3>. QED
      BY <1>3, <2>1, <3>1
  <2>2. CASE tinterval[x] # 0
    <3>1. W \ Oneshot(P \cup {x}) = V /\ E \cup Oneshot(P \cup {x}) = F
      BY <2>2 DEF V, F, Oneshot
    <3>. QED
      BY <1>3, <2>2, <3>1
  <2>. QED
    BY <2>1, <2>2
<1>5. \A y \in Tmr \ (P \cup {x}) : a.expire[y] = texpire[y]
  BY <1>3 DEF ExpiryMoved, TickStage
<1>6. \A y \in P \cup {x} : tinterval[y] # 0 => ToGo(a.expire[y], now) = tinterval[y]
  BY <1>3 DEF ExpiryMoved, TickStage
<1>. QED
  BY <1>4, <1>5, <1>6 DEF TickStage, a

LEMMA TickAllStage ==
  ASSUME NEW now \in 0..(Wrap - 1), NEW W, NEW E, Lined(Lists, now, W, E),
         NEW q \in Seq(Tmr), Distinct(q), Items(q) \subseteq W,
         \A x \in Items(q) : ToGo(texpire[x], now) = 0 /\ tinterval[x] \in 0..MaxDelay
  PROVE  TickStage(TickAll(now, q), now, W, E, Items(q))
<1>. DEFINE n == Len(q)
            P(i) == {q[j] : j \in 1..i}
<1>1. n \in Nat /\ \A i \in 1..n : q[i] \in Tmr /\ q[i] \in Items(q)
  BY ElementOfSeq DEF Items
<1>2. PICK f : TickSteps(f, now, q)
  <2>1. Len(q) \in Nat
    OBVIOUS
  <2>. QED
    BY <2>1, TickUnfolds
<1>9. /\ f[0] = Lists /\ TickAll(now, q) = f[n]
      /\ \A i \in 1..n : f[i] = TickFor(f[i - 1], now, q[i])
  BY <1>2 DEF TickSteps
<1>3. Lists.expire = texpire
  BY DEF Lists
<1>. DEFINE T == {i \in 0..n : TickStage(f[i], now, W, E, P(i))}
<1>4. 0 \in T
  <2>1. P(0) = {} /\ Oneshot(P(0)) = {} /\ W \ {} = W /\ E \cup {} = E
    BY DEF Oneshot
  <2>2. TickStage(f[0], now, W, E, P(0))
    BY <1>9, <1>3, <2>1 DEF TickStage
  <2>. QED
    BY <1>1, <2>2
<1>5. ASSUME NEW i \in 0..(n - 1), i \in T PROVE i + 1 \in T
  <2>. DEFINE x == q[i + 1]
  <2>1. i + 1 \in 1..n /\ i + 1 \in 0..n /\ (i + 1) - 1 = i
    BY <1>1
  <2>2. x \in Tmr /\ x \in Items(q) /\ x \in W /\ ToGo(texpire[x], now) = 0 /\ tinterval[x] \in 0..MaxDelay
    BY <1>1, <2>1
  <2>3. P(i) \subseteq Tmr
    BY <1>1, <2>1
  <2>4. x \notin P(i)
    BY <1>1, <2>1 DEF Distinct
  <2>5. P(i + 1) = P(i) \cup {x}
    BY <1>1, <2>1
  <2>6. TickStage(f[i], now, W, E, P(i))
    BY <1>5
  <2>7. f[i + 1] = TickFor(f[i], now, x)
    BY <1>9, <2>1
  <2>. DEFINE Q == P(i)
  <2>8. TickStage(TickFor(f[i], now, x), now, W, E, Q \cup {x})
    <3>1. Q \subseteq Tmr /\ x \notin Q /\ TickStage(f[i], now, W, E, Q)
      BY <2>3, <2>4, <2>6
    <3>. HIDE DEF Q, x, P
    <3>. QED
      BY <2>2, <3>1, TickStageNext
  <2>9. TickStage(f[i + 1], now, W, E, P(i + 1))
    BY <2>5, <2>7, <2>8
  <2>. QED
    BY <2>1, <2>9
<1>6. 0..n \subseteq T
  <2>. HIDE DEF T, n
  <2>. QED
    BY <1>1, <1>4, <1>5, SetInduction
<1>7. TickStage(f[n], now, W, E, P(n))
  <2>1. n \in T
    <3>. HIDE DEF T, n
    <3>. QED
      BY <1>1, <1>6
  <2>. QED
    BY <2>1
<1>8. P(n) = Items(q)
  BY DEF Items
<1>. QED
  BY <1>9, <1>7, <1>8
-----------------------------------------------------------------------------
\* The timers of E have expired, the other active timers wait.
Arranged(E) ==
  /\ E \subseteq tactive /\ Lined(Lists, lbolt, tactive \ E, E)
  /\ E \subseteq Callout /\ E \ IsrTimer \subseteq due
  /\ tpc = "sleep" => E = {}
  /\ \A x \in tactive \ E : left[x] \in 1..MaxDelay /\ ToGo(texpire[x], lbolt) = left[x]

\* The function that is about to be called is that of a timer which is due.
Calling == tpc \in Tmr \ IsrTimer => tpc \in due /\ tpc \notin tactive

TimerTypes ==
  /\ lbolt \in 0..(Wrap - 1) /\ tactive \subseteq Tmr
  /\ tinterval \in [Tmr -> 0..MaxDelay] /\ left \in [Tmr -> 0..MaxDelay]
  /\ tpc \in Tmr \cup {"sleep", "drain"}
  /\ \A x \in Callout : tinterval[x] = 0
  /\ \A x \in Periodic : x \in tactive => tinterval[x] # 0

\* The inductive invariant.
TimerInv == TimerTypes /\ Calling /\ \E E : Arranged(E)

LEMMA LinedCleared ==
  ASSUME NEW s, NEW now \in Int, NEW W, NEW E, Lined(s, now, W, E), NEW x \in Tmr, x \notin W \cup E
  PROVE  Lined([links |-> s.links, expire |-> Cleared(s.expire, x)], now, W, E)
<1>. DEFINE a == [links |-> s.links, expire |-> Cleared(s.expire, x)]
<1>1. PICK q, e \in Seq(Tmr) : /\ TwoLists(s.links, q, e) /\ InOrder(q, s.expire, now)
                              /\ Items(q) = W /\ Items(e) = E
  BY DEF Lined
<1>2. s.expire \in [Tmr -> 0..(Wrap - 1)]
  BY DEF Lined
<1>3. a = [links |-> a.links, expire |-> a.expire] /\ a.links = s.links /\ a.expire = Cleared(s.expire, x)
  OBVIOUS
<1>. HIDE DEF a
<1>4. a.expire \in [Tmr -> 0..(Wrap - 1)] /\ \A y \in Tmr : y # x => a.expire[y] = s.expire[y]
  BY <1>2, <1>3, WrapFacts, SMTT(30) DEF Cleared
<1>5. InOrder(q, a.expire, now)
  <2>1. \A y \in Items(q) : a.expire[y] = s.expire[y]
    BY <1>1, <1>4, NoItems
  <2>. QED
    BY <1>1, <2>1, OrderElsewhere
<1>. QED
  BY <1>1, <1>3, <1>4, <1>5 DEF Lined, a

\* x is in no list any more.
LEMMA DelistedLined ==
  ASSUME TimerTypes, NEW E, Arranged(E), NEW x \in Tmr
  PROVE  /\ Lined([Lists EXCEPT !.links = Delisted(x)], lbolt, (tactive \ E) \ {x}, E \ {x})
         /\ [Lists EXCEPT !.links = Delisted(x)] = [links |-> Delisted(x), expire |-> texpire]
<1>1. [Lists EXCEPT !.links = Delisted(x)] = [links |-> Delisted(x), expire |-> texpire]
  BY DEF Lists
<1>2. Lined(Lists, lbolt, tactive \ E, E) /\ E \subseteq tactive /\ lbolt \in Int
  BY DEF Arranged, TimerTypes
<1>3. Lists.links = tlinks
  BY DEF Lists
<1>. DEFINE W == tactive \ E
            links == Delisted(x)
<1>4. x \in tactive => links \in {Removed(Lists.links, x), ListRemoved(Lists.links, x)}
  BY <1>3 DEF Delisted
<1>5. CASE x \in W
  <2>1. E \ {x} = E /\ links \in {Removed(Lists.links, x), ListRemoved(Lists.links, x)} /\ Lined(Lists, lbolt, W, E)
    BY <1>2, <1>4, <1>5
  <2>. HIDE DEF W, links
  <2>2. Lined([Lists EXCEPT !.links = links], lbolt, W \ {x}, E)
    BY <1>2, <1>5, <2>1, LinedRemoved
  <2>. QED
    BY <1>1, <2>1, <2>2 DEF W, links
<1>6. CASE x \in E
  <2>1. W \ {x} = W /\ links \in {Removed(Lists.links, x), ListRemoved(Lists.links, x)} /\ Lined(Lists, lbolt, W, E)
    BY <1>2, <1>4, <1>6
  <2>. HIDE DEF W, links
  <2>2. Lined([Lists EXCEPT !.links = links], lbolt, W, E \ {x})
    BY <1>2, <1>6, <2>1, LinedRemoved
  <2>. QED
    BY <1>1, <2>1, <2>2 DEF W, links
<1>7. CASE x \notin W \cup E
  <2>1. Delisted(x) = tlinks
    BY <1>2, <1>7 DEF Delisted
  <2>2. [Lists EXCEPT !.links = Delisted(x)] = Lists
    BY <1>1, <2>1 DEF Lists
  <2>3. (tactive \ E) \ {x} = tactive \ E /\ E \ {x} = E
    BY <1>7
  <2>. QED
    BY <1>1, <1>2, <2>2, <2>3
<1>. QED
  BY <1>5, <1>6, <1>7

\* What timer_add() of x does to the lists and times.
LEMMA ProgramLined ==
  ASSUME TimerTypes, NEW s, NEW W, NEW E, Lined(s, lbolt, W, E), s.expire = texpire,
         NEW x \in Tmr, x \notin W \cup E, NEW ticks \in 0..MaxDelay, Program(s, x, ticks)
  PROVE  /\ Lined(Lists', lbolt, W \cup {x}, E)
         /\ ExpiryMoved(Lists', Lists, lbolt, x, IF ticks = 0 THEN 1 ELSE ticks)
<1>1. lbolt \in 0..(Wrap - 1)
  BY DEF TimerTypes
<1>2. PICK a : a = Added(s, lbolt, x, ticks)
  OBVIOUS
<1>3. /\ Lined(a, lbolt, W \cup {x}, E)
      /\ ExpiryMoved(a, s, lbolt, x, IF ticks = 0 THEN 1 ELSE ticks)
  BY <1>1, <1>2, LinedAdded
<1>4. tlinks' = a.links /\ texpire' = a.expire
  BY <1>2 DEF Program
<1>5. a = [links |-> a.links, expire |-> a.expire]
  BY <1>3 DEF Lined
<1>6. Lists' = a
  BY <1>4, <1>5 DEF Lists
<1>. QED
  <2>1. Lists.expire = s.expire
    BY DEF Lists
  <2>. QED
    BY <1>3, <1>6, <2>1 DEF ExpiryMoved

LEMMA TimerInitInv == TimerInit => TimerInv
<1>. SUFFICES ASSUME TimerInit PROVE TimerInv
  OBVIOUS
<1>1. /\ lbolt = 0 /\ tactive = {} /\ due = {} /\ tpc = "sleep"
      /\ texpire = [x \in Tmr |-> 0] /\ tinterval = [x \in Tmr |-> 0] /\ left = [x \in Tmr |-> 0]
  BY DEF TimerInit
<1>2. TimerTypes
  BY <1>1, WrapFacts DEF TimerTypes, Tmr
<1>3. Calling
  BY <1>1, NodeNames DEF Calling
<1>. DEFINE null == [x \in Nodes |-> "NULL"]
            m == [next |-> null, prev |-> null]
            t == Emptied(m, TimerList)
            l == Emptied(t, ExpireList)
<1>4. tlinks = l
  BY DEF TimerInit, Nodes
<1>5. IsMemory(Nodes, m)
  BY NodeNames DEF IsMemory
<1>. HIDE DEF m
<1>6. IsMemory(Nodes, t) /\ Ring(t, TimerList, <<>>)
  <2>1. DOMAIN m.next = Nodes /\ DOMAIN m.prev = Nodes
    BY <1>5 DEF IsMemory
  <2>2. Ring(t, TimerList, <<>>)
    BY <2>1, NodeNames, RingEmptied
  <2>. QED
    BY <1>5, <2>2, NodeNames, MemoryKept
<1>. HIDE DEF t
<1>7. IsMemory(Nodes, l) /\ Ring(l, ExpireList, <<>>) /\ Agree(l, t, Nodes \ {ExpireList})
  <2>1. DOMAIN t.next = Nodes /\ DOMAIN t.prev = Nodes
    BY <1>6 DEF IsMemory
  <2>2. Ring(l, ExpireList, <<>>)
    BY <2>1, NodeNames, RingEmptied
  <2>3. Agree(l, t, Nodes \ {ExpireList})
    BY <2>1 DEF Agree, Emptied
  <2>. QED
    BY <1>6, <2>2, <2>3, NodeNames, MemoryKept
<1>. HIDE DEF l
<1>8. Items(<<>>) = {}
  BY DEF Items
<1>9. Ring(l, TimerList, <<>>)
  <2>1. Agree(l, t, {TimerList} \cup Items(<<>>))
    BY <1>7, <1>8, NodeNames DEF Agree
  <2>2. <<>> \in Seq(Tmr)
    OBVIOUS
  <2>. QED
    BY <1>6, <2>1, <2>2, RingFrame
<1>10. TwoLists(l, <<>>, <<>>)
  BY <1>7, <1>8, <1>9 DEF TwoLists
<1>11. InOrder(<<>>, texpire, lbolt)
  BY DEF InOrder
<1>12. Lists = [links |-> tlinks, expire |-> texpire] /\ Lists.links = l /\ Lists.expire = texpire
  BY <1>4 DEF Lists
<1>13. texpire \in [Tmr -> 0..(Wrap - 1)]
  BY <1>1, WrapFacts
<1>14. Lined(Lists, lbolt, {}, {})
  <2>1. Lists = [links |-> Lists.links, expire |-> Lists.expire]
    BY DEF Lists
  <2>2. <<>> \in Seq(Tmr)
    OBVIOUS
  <2>. QED
    BY <1>8, <1>10, <1>11, <1>12, <1>13, <2>1, <2>2 DEF Lined
<1>15. Arranged({})
  <2>1. tactive \ {} = {}
    BY <1>1
  <2>. QED
    BY <1>1, <1>14, <2>1 DEF Arranged
<1>. QED
  BY <1>2, <1>3, <1>15 DEF TimerInv

LEMMA CalloutStep ==
  ASSUME TimerInv, NEW x \in Callout, NEW ticks \in 0..MaxDelay, TimerCallout(x, ticks)
  PROVE  TimerInv'
<1>1. /\ Program([Lists EXCEPT !.links = Delisted(x)], x, ticks)
      /\ tinterval' = [tinterval EXCEPT ![x] = 0] /\ due' = due \ {x}
      /\ lbolt' = lbolt /\ tpc' = tpc
      /\ tpc \in {"sleep", "drain"} \/ x \in IsrTimer
  BY DEF TimerCallout, ThreadsRun
<1>2. /\ tactive' = tactive \cup {x}
      /\ left' = [left EXCEPT ![x] = IF ticks = 0 THEN 1 ELSE ticks]
  BY <1>1 DEF Program
<1>3. x \in Tmr /\ TimerTypes /\ Calling
  BY DEF TimerInv, Tmr
<1>4. PICK E : Arranged(E)
  BY DEF TimerInv
<1>. DEFINE W == (tactive \ E) \ {x}
            F == E \ {x}
            d == IF ticks = 0 THEN 1 ELSE ticks
<1>5. PICK s : /\ s = [Lists EXCEPT !.links = Delisted(x)] /\ Lined(s, lbolt, W, F)
               /\ s.expire = texpire /\ Program(s, x, ticks)
  <2>1. /\ Lined([Lists EXCEPT !.links = Delisted(x)], lbolt, W, F)
        /\ [Lists EXCEPT !.links = Delisted(x)] = [links |-> Delisted(x), expire |-> texpire]
    BY <1>3, <1>4, DelistedLined
  <2>2. [Lists EXCEPT !.links = Delisted(x)].expire = texpire
    BY <2>1
  <2>. QED
    BY <1>1, <2>1, <2>2
<1>6. d \in 1..MaxDelay
  BY WrapFacts
<1>7. E \subseteq tactive /\ x \notin W \cup F /\ W \cup {x} = tactive' \ F
  BY <1>2, <1>4 DEF Arranged
<1>8. /\ Lined(Lists', lbolt, W \cup {x}, F)
      /\ \A y \in Tmr : y # x => texpire'[y] = texpire[y]
      /\ ToGo(texpire'[x], lbolt) = d
  <2>1. Lined(Lists', lbolt, W \cup {x}, F) /\ ExpiryMoved(Lists', Lists, lbolt, x, d)
    <3>. HIDE DEF W, F
    <3>. QED
      BY <1>3, <1>5, <1>7, ProgramLined
  <2>2. Lists'.expire = texpire' /\ Lists.expire = texpire
    BY DEF Lists
  <2>. QED
    BY <2>1, <2>2 DEF ExpiryMoved
<1>9. left'[x] = d /\ \A y \in Tmr : y # x => left'[y] = left[y]
  BY <1>2, <1>3 DEF TimerTypes
<1>10. Arranged(F)'
  <2>1. F \subseteq tactive' /\ F \subseteq Callout /\ F \ IsrTimer \subseteq due' /\ (tpc' = "sleep" => F = {})
    BY <1>1, <1>2, <1>4 DEF Arranged
  <2>2. Lined(Lists', lbolt', tactive' \ F, F)
    BY <1>1, <1>7, <1>8
  <2>3. \A y \in tactive' \ F : left'[y] \in 1..MaxDelay /\ ToGo(texpire'[y], lbolt') = left'[y]
    <3>1. \A y \in W : left[y] \in 1..MaxDelay /\ ToGo(texpire[y], lbolt) = left[y] /\ y \in Tmr /\ y # x
      BY <1>3, <1>4 DEF Arranged, TimerTypes
    <3>. HIDE DEF W, F, d
    <3>. QED
      BY <1>1, <1>6, <1>7, <1>8, <1>9, <3>1
  <2>. QED
    BY <2>1, <2>2, <2>3 DEF Arranged
<1>11. TimerTypes'
  <2>1. tinterval' \in [Tmr -> 0..MaxDelay] /\ left' \in [Tmr -> 0..MaxDelay]
    BY <1>1, <1>2, <1>3, WrapFacts DEF TimerTypes
  <2>2. \A y \in Callout : tinterval'[y] = 0
    BY <1>1, <1>3 DEF TimerTypes, Tmr
  <2>3. \A y \in Periodic : y \in tactive' => tinterval'[y] # 0
    BY <1>1, <1>2, <1>3, TimerAssumption DEF TimerTypes, Tmr
  <2>. QED
    BY <1>1, <1>2, <1>3, <2>1, <2>2, <2>3 DEF TimerTypes
<1>12. Calling'
  BY <1>1, <1>2, <1>3, NodeNames DEF Calling
<1>. QED
  BY <1>10, <1>11, <1>12 DEF TimerInv

LEMMA StopStep ==
  ASSUME TimerInv, NEW x \in Tmr, TimerStop(x)
  PROVE  TimerInv'
<1>1. /\ tlinks' = Delisted(x) /\ tactive' = tactive \ {x} /\ due' = due \ {x}
      /\ texpire' = Cleared(texpire, x) /\ tinterval' = Cleared(tinterval, x)
      /\ left' = Cleared(left, x) /\ lbolt' = lbolt /\ tpc' = tpc
      /\ tpc \in {"sleep", "drain"} \/ x \in IsrTimer
  BY DEF TimerStop, ThreadsRun
<1>2. TimerTypes /\ Calling
  BY DEF TimerInv
<1>3. PICK E : Arranged(E)
  BY DEF TimerInv
<1>. DEFINE W == (tactive \ E) \ {x}
            F == E \ {x}
<1>4. Lined([links |-> Delisted(x), expire |-> texpire], lbolt, W, F)
  BY <1>2, <1>3, DelistedLined, ZenonT(30)
<1>5. Lined(Lists', lbolt, W, F)
  <2>1. PICK s : s = [links |-> Delisted(x), expire |-> texpire] /\ Lined(s, lbolt, W, F)
    BY <1>4
  <2>2. x \notin W \cup F /\ lbolt \in Int
    BY <1>2, WrapFacts DEF TimerTypes
  <2>3. Lined([links |-> s.links, expire |-> Cleared(s.expire, x)], lbolt, W, F)
    <3>. HIDE DEF W, F
    <3>. QED
      BY <2>1, <2>2, LinedCleared
  <2>4. Lists' = [links |-> s.links, expire |-> Cleared(s.expire, x)]
    BY <1>1, <2>1 DEF Lists
  <2>. QED
    BY <2>3, <2>4
<1>6. texpire \in [Tmr -> 0..(Wrap - 1)]
  BY <1>3 DEF Arranged, Lined, Lists
<1>7. \A y \in Tmr : y # x => texpire'[y] = texpire[y] /\ left'[y] = left[y] /\ tinterval'[y] = tinterval[y]
  BY <1>1, <1>2, <1>6 DEF TimerTypes, Cleared
<1>8. Arranged(F)'
  <2>1. F \subseteq tactive' /\ F \subseteq Callout /\ F \ IsrTimer \subseteq due' /\ (tpc' = "sleep" => F = {})
    BY <1>1, <1>3 DEF Arranged
  <2>2. tactive' \ F = W
    BY <1>1
  <2>3. Lined(Lists', lbolt', tactive' \ F, F)
    BY <1>1, <1>5, <2>2
  <2>4. \A y \in tactive' \ F : left'[y] \in 1..MaxDelay /\ ToGo(texpire'[y], lbolt') = left'[y]
    <3>1. \A y \in W : left[y] \in 1..MaxDelay /\ ToGo(texpire[y], lbolt) = left[y] /\ y \in Tmr /\ y # x
      BY <1>2, <1>3 DEF Arranged, TimerTypes
    <3>. HIDE DEF W, F
    <3>. QED
      BY <1>1, <1>7, <2>2, <3>1
  <2>. QED
    BY <2>1, <2>3, <2>4 DEF Arranged
<1>9. TimerTypes'
  <2>1. tinterval' \in [Tmr -> 0..MaxDelay] /\ left' \in [Tmr -> 0..MaxDelay] /\ tinterval'[x] = 0
    BY <1>1, <1>2, WrapFacts DEF TimerTypes, Cleared
  <2>2. \A y \in Callout : tinterval'[y] = 0
    BY <1>2, <1>7, <2>1 DEF TimerTypes, Tmr
  <2>3. \A y \in Periodic : y \in tactive' => tinterval'[y] # 0
    BY <1>1, <1>2, <1>7 DEF TimerTypes, Tmr
  <2>. QED
    BY <1>1, <1>2, <2>1, <2>2, <2>3 DEF TimerTypes
<1>10. Calling'
  BY <1>1, <1>2, NodeNames DEF Calling
<1>. QED
  BY <1>8, <1>9, <1>10 DEF TimerInv

LEMMA PeriodicStep ==
  ASSUME TimerInv, TimerOps = {}, NEW x \in Periodic, NEW start \in 1..MaxDelay, NEW period \in 1..MaxDelay,
         TimerPeriodic(x, start, period)
  PROVE  TimerInv'
<1>1. /\ x \notin tactive /\ Program(Lists, x, start)
      /\ tinterval' = [tinterval EXCEPT ![x] = IF period = 0 THEN 1 ELSE period]
      /\ due' = due /\ lbolt' = lbolt /\ tpc' = tpc /\ tpc \in {"sleep", "drain"}
  BY DEF TimerPeriodic, ThreadsRun
<1>2. /\ tactive' = tactive \cup {x}
      /\ left' = [left EXCEPT ![x] = IF start = 0 THEN 1 ELSE start]
  BY <1>1 DEF Program
<1>3. x \in Tmr /\ x \notin Callout /\ TimerTypes
  BY TimerAssumption DEF TimerInv, Tmr
<1>4. PICK E : Arranged(E)
  BY DEF TimerInv
<1>. DEFINE W == tactive \ E
<1>5. E \subseteq tactive /\ x \notin W \cup E /\ W \cup {x} = tactive' \ E
  BY <1>1, <1>2, <1>4 DEF Arranged
<1>6. start \in 0..MaxDelay /\ (IF start = 0 THEN 1 ELSE start) = start /\ (IF period = 0 THEN 1 ELSE period) = period
  OBVIOUS
<1>7. /\ Lined(Lists', lbolt, W \cup {x}, E)
      /\ \A y \in Tmr : y # x => texpire'[y] = texpire[y]
      /\ ToGo(texpire'[x], lbolt) = start
  <2>1. PICK s : s = Lists
    OBVIOUS
  <2>2. Lined(s, lbolt, W, E) /\ s.expire = texpire /\ Program(s, x, start)
    BY <1>1, <1>4, <2>1 DEF Arranged, Lists
  <2>. HIDE DEF W
  <2>3. /\ Lined(Lists', lbolt, W \cup {x}, E)
        /\ ExpiryMoved(Lists', Lists, lbolt, x, IF start = 0 THEN 1 ELSE start)
    BY <1>3, <1>5, <1>6, <2>2, ProgramLined
  <2>4. Lists'.expire = texpire' /\ Lists.expire = texpire
    BY DEF Lists
  <2>. QED
    BY <1>6, <2>3, <2>4 DEF ExpiryMoved
<1>8. left'[x] = start /\ \A y \in Tmr : y # x => left'[y] = left[y]
  BY <1>2, <1>3, <1>6 DEF TimerTypes
<1>9. Arranged(E)'
  <2>1. E \subseteq tactive' /\ E \subseteq Callout /\ E \ IsrTimer \subseteq due' /\ (tpc' = "sleep" => E = {})
    BY <1>1, <1>2, <1>4 DEF Arranged
  <2>2. Lined(Lists', lbolt', tactive' \ E, E)
    BY <1>1, <1>5, <1>7
  <2>3. \A y \in tactive' \ E : left'[y] \in 1..MaxDelay /\ ToGo(texpire'[y], lbolt') = left'[y]
    <3>1. \A y \in W : left[y] \in 1..MaxDelay /\ ToGo(texpire[y], lbolt) = left[y] /\ y \in Tmr /\ y # x
      BY <1>1, <1>3, <1>4 DEF Arranged, TimerTypes
    <3>. HIDE DEF W
    <3>. QED
      BY <1>1, <1>5, <1>7, <1>8, <3>1
  <2>. QED
    BY <2>1, <2>2, <2>3 DEF Arranged
<1>10. TimerTypes'
  <2>1. /\ tinterval' \in [Tmr -> 0..MaxDelay] /\ left' \in [Tmr -> 0..MaxDelay] /\ tinterval'[x] # 0
        /\ \A y \in Tmr : y # x => tinterval'[y] = tinterval[y]
    BY <1>1, <1>2, <1>3, <1>6 DEF TimerTypes
  <2>2. \A y \in Callout : tinterval'[y] = 0
    BY <1>3, <2>1 DEF TimerTypes, Tmr
  <2>3. \A y \in Periodic : y \in tactive' => tinterval'[y] # 0
    BY <1>2, <1>3, <2>1 DEF TimerTypes, Tmr
  <2>. QED
    BY <1>1, <1>2, <1>3, <2>1, <2>2, <2>3 DEF TimerTypes
<1>11. Calling'
  BY <1>1, NodeNames DEF Calling
<1>. QED
  BY <1>9, <1>10, <1>11 DEF TimerInv

LEMMA HandlerStep ==
  ASSUME TimerInv, TimerHandler
  PROVE  TimerInv'
<1>. DEFINE now == (lbolt + 1) % Wrap
            q == Expired(now)
            a == TickAll(now, q)
            expired == {q[i] : i \in DOMAIN q}
            O == {x \in expired : tinterval[x] = 0}
<1>1. /\ lbolt' = now /\ tlinks' = a.links /\ texpire' = a.expire
      /\ tpc' = IF O # {} /\ tpc = "sleep" THEN "drain" ELSE tpc
      /\ left' = [x \in Tmr |-> IF left[x] = 1 /\ tinterval[x] # 0 THEN tinterval[x]
                                ELSE IF left[x] > 0 THEN left[x] - 1 ELSE 0]
      /\ due' = due \cup O /\ tactive' = tactive /\ tinterval' = tinterval
  BY DEF TimerHandler
<1>2. TimerTypes /\ Calling
  BY DEF TimerInv
<1>3. PICK E : Arranged(E)
  BY DEF TimerInv
<1>. DEFINE W == tactive \ E
<1>4. lbolt \in 0..(Wrap - 1) /\ W \subseteq Tmr /\ Lined(Lists, lbolt, W, E) /\ Lists.expire = texpire
  BY <1>2, <1>3 DEF TimerTypes, Arranged, Lists
<1>5. \A x \in W : left[x] \in 1..MaxDelay /\ ToGo(texpire[x], lbolt) = left[x]
  BY <1>3 DEF Arranged
<1>6. now \in 0..(Wrap - 1)
  BY <1>4, WrapFacts, RemainderIs
<1>7. Lined(Lists, now, W, E) /\ \A x \in W : ToGo(texpire[x], now) = left[x] - 1
  <2>1. \A x \in W : ToGo(Lists.expire[x], lbolt) \in 1..MaxDelay
    BY <1>4, <1>5
  <2>2. PICK s : s = Lists
    OBVIOUS
  <2>3. Lined(s, lbolt, W, E) /\ \A x \in W : ToGo(s.expire[x], lbolt) \in 1..MaxDelay
    BY <1>4, <2>1, <2>2
  <2>4. /\ Lined(s, (lbolt + 1) % Wrap, W, E)
        /\ \A x \in W : ToGo(s.expire[x], (lbolt + 1) % Wrap) = ToGo(s.expire[x], lbolt) - 1
    <3>. HIDE DEF W
    <3>. QED
      BY <1>4, <2>3, LinedLater
  <2>. QED
    BY <1>4, <1>5, <2>2, <2>4
<1>. HIDE DEF now
<1>8. q \in Seq(Tmr) /\ Distinct(q) /\ Items(q) = {x \in W : ToGo(texpire[x], now) = 0}
  <2>. HIDE DEF W
  <2>. QED
    BY <1>6, <1>7, ExpiredAre
<1>9. Items(q) = {x \in W : left[x] = 1}
  BY <1>5, <1>7, <1>8
<1>10. expired = Items(q) /\ O = Oneshot(Items(q))
  BY <1>8 DEF Items, Oneshot
<1>11. TickStage(a, now, W, E, Items(q))
  <2>1. Items(q) \subseteq W /\ \A x \in Items(q) : ToGo(texpire[x], now) = 0 /\ tinterval[x] \in 0..MaxDelay
    BY <1>2, <1>4, <1>8 DEF TimerTypes
  <2>. HIDE DEF W, q
  <2>. QED
    BY <1>6, <1>7, <1>8, <2>1, TickAllStage
<1>. HIDE DEF O, expired, a, q
<1>12. /\ Lined(a, now, W \ O, E \cup O)
       /\ \A y \in Tmr \ Items(q) : a.expire[y] = texpire[y]
       /\ \A y \in Items(q) : tinterval[y] # 0 => ToGo(a.expire[y], now) = tinterval[y]
  BY <1>10, <1>11 DEF TickStage
<1>13. Lists' = a
  <2>1. a = [links |-> a.links, expire |-> a.expire]
    BY <1>12 DEF Lined
  <2>. QED
    BY <1>1, <2>1 DEF Lists
<1>14. O \subseteq W /\ (\A x \in O : tinterval[x] = 0) /\ \A x \in Items(q) \ O : tinterval[x] # 0
  BY <1>9, <1>10 DEF Oneshot
<1>15. O \subseteq Callout
  BY <1>2, <1>4, <1>14 DEF TimerTypes, Tmr
<1>16. \A x \in Tmr : left[x] \in 0..MaxDelay /\ tinterval[x] \in 0..MaxDelay
  BY <1>2 DEF TimerTypes
<1>17. PICK F : F = E \cup O
  OBVIOUS
<1>20. Arranged(F)'
  <2>1. E \subseteq tactive /\ E \subseteq Callout /\ E \ IsrTimer \subseteq due /\ (tpc = "sleep" => E = {})
    BY <1>3 DEF Arranged
  <2>2. F \subseteq tactive' /\ F \subseteq Callout /\ F \ IsrTimer \subseteq due'
    BY <1>1, <1>14, <1>15, <1>17, <2>1
  <2>3. tpc' = "sleep" => F = {}
    BY <1>1, <1>17, <2>1
  <2>4. tactive' \ F = W \ O
    BY <1>1, <1>17
  <2>5. Lined(Lists', lbolt', tactive' \ F, F)
    BY <1>1, <1>12, <1>13, <1>17, <2>4
  <2>6. ASSUME NEW y \in W \ O PROVE left'[y] \in 1..MaxDelay /\ ToGo(texpire'[y], lbolt') = left'[y]
    <3>1. y \in Tmr /\ left[y] \in 1..MaxDelay /\ left'[y] = IF left[y] = 1 /\ tinterval[y] # 0 THEN tinterval[y]
                                ELSE IF left[y] > 0 THEN left[y] - 1 ELSE 0
      BY <1>1, <1>4, <1>5
    <3>2. CASE left[y] = 1
      <4>1. y \in Items(q) /\ tinterval[y] # 0 /\ tinterval[y] \in 0..MaxDelay
        BY <1>9, <1>14, <1>16, <3>1, <3>2
      <4>2. left'[y] = tinterval[y]
        BY <3>1, <3>2, <4>1
      <4>. QED
        BY <1>1, <1>12, <4>1, <4>2, WrapFacts
    <3>3. CASE left[y] # 1
      <4>1. y \notin Items(q) /\ left'[y] = left[y] - 1 /\ left[y] - 1 \in 1..MaxDelay
        BY <1>9, <3>1, <3>3, WrapFacts
      <4>2. texpire'[y] = texpire[y]
        BY <1>1, <1>12, <3>1, <4>1
      <4>. QED
        BY <1>1, <1>7, <4>1, <4>2
    <3>. QED
      BY <3>2, <3>3
  <2>. HIDE DEF W
  <2>. QED
    BY <2>2, <2>3, <2>4, <2>5, <2>6 DEF Arranged
<1>18. TimerTypes'
  <2>1. left' \in [Tmr -> 0..MaxDelay]
    <3>1. \A x \in Tmr : (IF left[x] = 1 /\ tinterval[x] # 0 THEN tinterval[x]
                          ELSE IF left[x] > 0 THEN left[x] - 1 ELSE 0) \in 0..MaxDelay
      BY <1>16, WrapFacts
    <3>. QED
      BY <1>1, <3>1
  <2>. QED
    BY <1>1, <1>2, <1>6, <2>1 DEF TimerTypes
<1>19. Calling'
  BY <1>1, <1>2, NodeNames DEF Calling
<1>. QED
  BY <1>18, <1>19, <1>20 DEF TimerInv

\* The head of the list of expired timers.
LEMMA ExpiredHead ==
  ASSUME NEW now, NEW W, NEW E, Lined(Lists, now, W, E)
  PROVE  /\ IsEmptyQueue(tlinks, ExpireList) <=> E = {}
         /\ E # {} => tlinks.next[ExpireList] \in E
<1>1. PICK q, e \in Seq(Tmr) : TwoLists(tlinks, q, e) /\ Items(q) = W /\ Items(e) = E
  BY DEF Lined, Lists
<1>2. IsEmptyQueue(tlinks, ExpireList) <=> e = <<>>
  BY <1>1, TwoWalks
<1>3. e = <<>> <=> E = {}
  <2>1. Len(e) \in Nat /\ (Len(e) = 0 <=> e = <<>>)
    BY <1>1
  <2>2. Len(e) = 0 => E = {}
    BY <1>1 DEF Items
  <2>3. Len(e) # 0 => e[1] \in E
    BY <1>1, <2>1 DEF Items
  <2>. QED
    BY <2>1, <2>2, <2>3
<1>4. ASSUME E # {} PROVE tlinks.next[ExpireList] \in E
  <2>1. Len(e) \in Nat /\ 1 \in 1..Len(e)
    BY <1>1, <1>4 DEF Items
  <2>2. tlinks.next[Node(ExpireList, e, 0)] = Node(ExpireList, e, 1)
    <3>1. Ring(tlinks, ExpireList, e) /\ 0 \in 0..Len(e) /\ 0 + 1 = 1
      BY <1>1, <2>1 DEF TwoLists
    <3>. QED
      BY <3>1 DEF Ring
  <2>3. Node(ExpireList, e, 0) = ExpireList /\ Node(ExpireList, e, 1) = e[1]
    BY <2>1 DEF Node
  <2>. QED
    BY <1>1, <2>1, <2>2, <2>3 DEF Items
<1>. QED
  BY <1>2, <1>3, <1>4

LEMMA ThreadStep ==
  ASSUME TimerInv, TimerThread
  PROVE  TimerInv'
<1>1. /\ tpc = "drain" /\ lbolt' = lbolt /\ texpire' = texpire /\ tinterval' = tinterval
      /\ left' = left /\ due' = due
  BY DEF TimerThread
<1>2. TimerTypes
  BY DEF TimerInv
<1>3. PICK E : Arranged(E)
  BY DEF TimerInv
<1>4. /\ E \subseteq tactive /\ Lined(Lists, lbolt, tactive \ E, E)
      /\ E \subseteq Callout /\ E \ IsrTimer \subseteq due
      /\ \A x \in tactive \ E : left[x] \in 1..MaxDelay /\ ToGo(texpire[x], lbolt) = left[x]
  BY <1>3 DEF Arranged
<1>5. /\ IsEmptyQueue(tlinks, ExpireList) <=> E = {}
      /\ E # {} => tlinks.next[ExpireList] \in E
  BY <1>4, ExpiredHead
<1>6. CASE E = {}
  <2>1. tpc' = "sleep" /\ tlinks' = tlinks /\ tactive' = tactive
    BY <1>5, <1>6 DEF TimerThread
  <2>2. Lists' = Lists
    BY <1>1, <2>1 DEF Lists
  <2>3. Arranged(E)'
    BY <1>1, <1>4, <1>6, <2>1, <2>2 DEF Arranged
  <2>4. TimerTypes' /\ Calling'
    BY <1>1, <1>2, <2>1, NodeNames DEF TimerTypes, Calling
  <2>. QED
    BY <2>3, <2>4 DEF TimerInv
<1>7. CASE E # {}
  <2>1. PICK x : x = tlinks.next[ExpireList] /\ x \in E
    BY <1>5, <1>7
  <2>2. tlinks' = ListRemoved(tlinks, x) /\ tactive' = tactive \ {x} /\ tpc' = x
    BY <1>5, <1>7, <2>1 DEF TimerThread
  <2>3. x \in Tmr /\ tactive' \ (E \ {x}) = tactive \ E
    BY <1>2, <1>4, <2>1, <2>2 DEF TimerTypes
  <2>4. Lined(Lists', lbolt, tactive \ E, E \ {x})
    <3>1. PICK s, W, links : s = Lists /\ W = tactive \ E /\ links = ListRemoved(tlinks, x)
      OBVIOUS
    <3>2. s.links = tlinks /\ Lined(s, lbolt, W, E) /\ lbolt \in Int
      BY <1>2, <1>4, <3>1, WrapFacts DEF Lists, TimerTypes
    <3>3. Lined([s EXCEPT !.links = links], lbolt, W, E \ {x})
      BY <2>1, <3>1, <3>2, LinedRemoved
    <3>4. Lists' = [s EXCEPT !.links = links]
      BY <1>1, <2>2, <3>1 DEF Lists
    <3>. QED
      BY <3>1, <3>3, <3>4
  <2>5. Arranged(E \ {x})'
    <3>1. x # "sleep"
      BY <2>3, NodeNames
    <3>. QED
      BY <1>1, <1>4, <2>2, <2>3, <2>4, <3>1 DEF Arranged
  <2>6. TimerTypes'
    BY <1>1, <1>2, <2>2, <2>3 DEF TimerTypes
  <2>7. Calling'
    BY <1>1, <1>4, <2>1, <2>2 DEF Calling
  <2>. QED
    BY <2>5, <2>6, <2>7 DEF TimerInv
<1>. QED
  BY <1>6, <1>7

LEMMA CallStep ==
  ASSUME TimerInv, TimerCall
  PROVE  TimerInv'
<1>1. /\ tpc \in Tmr /\ tpc' = "drain" /\ due' = due \ {tpc} /\ lbolt' = lbolt /\ tlinks' = tlinks
      /\ tactive' = tactive /\ texpire' = texpire /\ tinterval' = tinterval /\ left' = left
  BY DEF TimerCall
<1>2. TimerTypes /\ Calling
  BY DEF TimerInv
<1>3. PICK E : Arranged(E)
  BY DEF TimerInv
<1>4. Lists' = Lists
  BY <1>1 DEF Lists
<1>5. Arranged(E)'
  <2>1. E \ IsrTimer \subseteq due'
    BY <1>1, <1>2, <1>3 DEF Arranged, Calling
  <2>. QED
    BY <1>1, <1>3, <1>4, <2>1 DEF Arranged
<1>6. TimerTypes' /\ Calling'
  BY <1>1, <1>2, NodeNames DEF TimerTypes, Calling
<1>. QED
  BY <1>5, <1>6 DEF TimerInv

LEMMA QuietStep ==
  ASSUME TimerInv, UNCHANGED <<lbolt, tlinks, tactive, texpire, tinterval, tpc, left, due>>
  PROVE  TimerInv'
<1>1. PICK E : Arranged(E)
  BY DEF TimerInv
<1>2. Lists' = Lists
  BY DEF Lists
<1>3. Arranged(E)'
  BY <1>1, <1>2 DEF Arranged
<1>4. TimerTypes' /\ Calling'
  BY DEF TimerInv, TimerTypes, Calling
<1>. QED
  BY <1>3, <1>4 DEF TimerInv

LEMMA TimerStep ==
  ASSUME TimerOps = {}, TimerInv, [TimerNext]_timerVars
  PROVE  TimerInv'
<1>1. ASSUME NEW x \in Callout, NEW d \in 0..MaxDelay, TimerCallout(x, d) PROVE TimerInv'
  BY <1>1, CalloutStep
<1>2. ASSUME NEW x \in Tmr, TimerStop(x) PROVE TimerInv'
  BY <1>2, StopStep
<1>3. ASSUME NEW x \in Periodic, NEW d \in 1..MaxDelay, NEW p \in 1..MaxDelay, TimerPeriodic(x, d, p)
      PROVE  TimerInv'
  BY <1>3, PeriodicStep
<1>4. ASSUME NEW x \in Periodic, WaitPeriod(x) \/ WaitPeriodSleep(x) PROVE TimerInv'
  BY <1>4, QuietStep DEF WaitPeriod, WaitPeriodSleep
<1>5. CASE TimerHandler
  BY <1>5, HandlerStep
<1>6. CASE TimerThread
  BY <1>6, ThreadStep
<1>7. CASE TimerCall
  BY <1>7, CallStep
<1>8. CASE UNCHANGED timerVars
  BY <1>8, QuietStep DEF timerVars
<1>. QED
  BY <1>1, <1>2, <1>3, <1>4, <1>5, <1>6, <1>7, <1>8 DEF TimerNext

LEMMA TimerAlways ==
  ASSUME TimerOps = {}
  PROVE  TimerSpec => []TimerInv
<1>1. TimerInit => TimerInv
  BY TimerInitInv
<1>2. TimerInv /\ [TimerNext]_timerVars => TimerInv'
  BY TimerStep
<1>. QED
  BY <1>1, <1>2, PTL DEF TimerSpec
-----------------------------------------------------------------------------
\* The two lists hold the active timers, each once, and the one that expires
\* first is at the head: "the timer list is sorted by expiration time", as long
\* as nobody calls timer_periodic() for a timer that is active (with "again",
\* the run timer_again shows the lists broken).
THEOREM TimersSorted ==
  ASSUME TimerOps = {}
  PROVE  TimerSpec => []TimerListSorted
<1>1. TimerInv => TimerListSorted
  <2>. SUFFICES ASSUME TimerInv PROVE TimerListSorted
    OBVIOUS
  <2>1. PICK E : Arranged(E)
    BY DEF TimerInv
  <2>2. /\ E \subseteq tactive
        /\ \A x \in tactive \ E : left[x] \in 1..MaxDelay /\ ToGo(texpire[x], lbolt) = left[x]
    BY <2>1 DEF Arranged
  <2>3. PICK q, e \in Seq(Tmr) : /\ TwoLists(tlinks, q, e) /\ InOrder(q, texpire, lbolt)
                                /\ Items(q) = tactive \ E /\ Items(e) = E
    BY <2>1 DEF Arranged, Lined, Lists
  <2>4. /\ Walk(tlinks, TimerList) = q /\ IsRing(tlinks, TimerList, Tmr)
        /\ Walk(tlinks, ExpireList) = e /\ IsRing(tlinks, ExpireList, Tmr)
    BY <2>3, TwoWalks
  <2>5. /\ {q[i] : i \in DOMAIN q} = tactive \ E /\ {e[i] : i \in DOMAIN e} = E
        /\ DOMAIN q = 1..Len(q)
    BY <2>3 DEF Items
  <2>6. Len(q) + Len(e) = Cardinality(tactive)
    <3>1. Distinct(q) /\ Distinct(e)
      BY <2>3 DEF TwoLists, Ring
    <3>2. IsFiniteSet(tactive \ E) /\ Cardinality(tactive \ E) = Len(q)
      BY <2>3, <3>1, ItemsCount
    <3>3. IsFiniteSet(E) /\ Cardinality(E) = Len(e)
      BY <2>3, <3>1, ItemsCount
    <3>4. (tactive \ E) \cup E = tactive /\ (tactive \ E) \cap E = {}
      BY <2>2
    <3>5. Cardinality((tactive \ E) \cup E)
            = Cardinality(tactive \ E) + Cardinality(E) - Cardinality((tactive \ E) \cap E)
      BY <3>2, <3>3, FS_Union
    <3>6. Cardinality((tactive \ E) \cap E) = 0
      BY <3>4, FS_EmptySet
    <3>7. Len(q) \in Nat /\ Len(e) \in Nat
      OBVIOUS
    <3>8. Cardinality(tactive) = Len(q) + Len(e) - 0
      BY <3>2, <3>3, <3>4, <3>5, <3>6
    <3>. QED
      BY <3>7, <3>8
  <2>7. \A i, j \in DOMAIN q : i < j => left[q[i]] <= left[q[j]]
    <3>1. \A i \in DOMAIN q : q[i] \in tactive \ E
      BY <2>5
    <3>. QED
      BY <2>2, <2>3, <2>5, <3>1, SMTT(30) DEF InOrder
  <2>. QED
    BY <2>4, <2>5, <2>6, <2>7, <2>2 DEF TimerListSorted, ListsSound
<1>. QED
  BY <1>1, TimerAlways, PTL

\* Timers expire on time, whatever the tick counter of the clock interrupt wraps
\* to: a timer in the list has exactly as many ticks to go as were asked for.
THEOREM TimersPunctual ==
  ASSUME TimerOps = {}
  PROVE  TimerSpec => []Punctual
<1>1. TimerInv => Punctual
  <2>. SUFFICES ASSUME TimerInv PROVE Punctual
    OBVIOUS
  <2>1. PICK E : Arranged(E)
    BY DEF TimerInv
  <2>2. \A x \in tactive \ E : left[x] \in 1..MaxDelay /\ ToGo(texpire[x], lbolt) = left[x]
    BY <2>1 DEF Arranged
  <2>3. PICK q, e \in Seq(Tmr) : TwoLists(tlinks, q, e) /\ Items(q) = tactive \ E
    BY <2>1 DEF Arranged, Lined, Lists
  <2>4. Walk(tlinks, TimerList) = q
    BY <2>3, TwoWalks
  <2>5. \A i \in DOMAIN q : q[i] \in tactive \ E
    BY <2>3 DEF Items
  <2>. QED
    BY <2>2, <2>4, <2>5, WrapFacts DEF Punctual, ToGo
<1>. QED
  BY <1>1, TimerAlways, PTL

\* The timer thread sleeps only when no expired timer is left, and calls a
\* function only for a timer that expired and was not stopped since.
THEOREM TimersCalled ==
  ASSUME TimerOps = {}
  PROVE  TimerSpec => []ExpiredAreCalled
<1>1. TimerInv => ExpiredAreCalled
  <2>. SUFFICES ASSUME TimerInv PROVE ExpiredAreCalled
    OBVIOUS
  <2>1. PICK E : Arranged(E)
    BY DEF TimerInv
  <2>2. IsEmptyQueue(tlinks, ExpireList) <=> E = {}
    <3>1. Lined(Lists, lbolt, tactive \ E, E)
      BY <2>1 DEF Arranged
    <3>. QED
      BY <3>1, ExpiredHead
  <2>. QED
    BY <2>1, <2>2 DEF Arranged, TimerInv, Calling, ExpiredAreCalled
<1>. QED
  BY <1>1, TimerAlways, PTL
=============================================================================
