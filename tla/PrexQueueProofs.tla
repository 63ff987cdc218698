--------------------------- MODULE PrexQueueProofs ---------------------------
(***************************************************************************)
(* What the queue operations of PrexQueue do to the items of a queue and   *)
(* those of PrexLinks to its links, and induction and remainders of        *)
(* numbers, which other proofs need as well.                               *)
(***************************************************************************)
EXTENDS PrexQueue, PrexLinks, SequenceTheorems, FiniteSetTheorems, WellFoundedInduction, TLAPS

\* A set of priorities or positions has a least element.
LEMMA NatMinimum ==
  ASSUME NEW T, T \subseteq Nat, T # {}
  PROVE  \E x \in T : \A y \in T : x <= y
<1>1. PICK x \in T : \A y \in T : ~(<<y, x>> \in OpToRel(<, Nat))
  BY WFMin, NatLessThanWellFounded
<1>2. \A y \in T : <<y, x>> \in OpToRel(<, Nat) <=> y < x
  BY DEF OpToRel
<1>3. \A y \in T : ~(y < x)
  BY <1>1, <1>2
<1>. QED
  BY <1>3

\* A set of numbers that holds 0, and with a number below n the next one, holds
\* all up to n: induction, for a set in place of a formula.
LEMMA SetInduction ==
  ASSUME NEW n \in Nat, NEW T, 0 \in T, \A i \in 0..(n - 1) : i \in T => i + 1 \in T
  PROVE  0..n \subseteq T
<1>. DEFINE out == {i \in 0..n : i \notin T}
<1>. SUFFICES ASSUME out # {} PROVE FALSE
  OBVIOUS
<1>1. PICK i \in out : \A j \in out : i <= j
  <2>1. out \subseteq Nat
    OBVIOUS
  <2>. QED
    BY <2>1, NatMinimum
<1>2. i \in 1..n /\ i - 1 \in 0..(n - 1) /\ i - 1 \in 0..n
  BY <1>1
<1>3. i - 1 \in T
  BY <1>1, <1>2
<1>4. (i - 1) + 1 = i
  BY <1>2
<1>. QED
  BY <1>1, <1>2, <1>3, <1>4

\* A multiple of N that is less than N is none.
LEMMA MultipleSmall ==
  ASSUME NEW N \in Nat \ {0}, NEW x \in Int, x * N < N, x * N > 0 - N
  PROVE  x = 0
<1>1. CASE x <= 0 - 1
  BY <1>1
<1>2. CASE x >= 1
  BY <1>2
<1>. QED
  BY <1>1, <1>2

\* What div and mod are.
LEMMA RemainderIs ==
  ASSUME NEW N \in Nat \ {0}, NEW a \in Int
  PROVE  a \div N \in Int /\ a % N \in 0..(N - 1) /\ a = (a \div N) * N + (a % N)
OBVIOUS

\* Numbers that are less than N apart differ modulo N.
LEMMA SameRemainder ==
  ASSUME NEW N \in Nat \ {0}, NEW a \in Int, NEW b \in Int,
         a % N = b % N, a - b < N, b - a < N
  PROVE  a = b
<1>. DEFINE q == a \div N
            k == b \div N
            r == a % N
<1>1. q \in Int /\ k \in Int /\ r \in Int /\ a = q * N + r /\ b = k * N + r
  BY RemainderIs
<1>. HIDE DEF q, k, r
<1>2. (q - k) * N = a - b /\ q - k \in Int
  BY <1>1
<1>3. q - k = 0
  BY <1>2, MultipleSmall
<1>. QED
  BY <1>1, <1>3

\* The remainder tells them apart.
LEMMA RemainderUnique ==
  ASSUME NEW N \in Nat \ {0}, NEW q \in Int, NEW k \in Int, NEW r \in 0..(N - 1), NEW s \in 0..(N - 1),
         q * N + r = k * N + s
  PROVE  r = s
<1>1. (q - k) * N = s - r
  OBVIOUS
<1>2. q - k = 0
  BY <1>1, MultipleSmall
<1>. QED
  BY <1>1, <1>2

\* Counting modulo N.
LEMMA RemainderPlus ==
  ASSUME NEW N \in Nat \ {0}, NEW a \in Int, NEW b \in Int
  PROVE  ((a % N) + b) % N = (a + b) % N
<1>. DEFINE q == a \div N
            r == a % N
            k == (r + b) \div N
            s == (r + b) % N
            l == (a + b) \div N
            u == (a + b) % N
<1>1. q \in Int /\ r \in Int /\ k \in Int /\ s \in 0..(N - 1) /\ l \in Int /\ u \in 0..(N - 1)
  BY RemainderIs
<1>2. a = q * N + r /\ r + b = k * N + s /\ a + b = l * N + u
  <2>1. a = q * N + r
    BY RemainderIs
  <2>2. r + b \in Int /\ a + b \in Int
    BY <1>1
  <2>3. r + b = k * N + s
    BY <2>2, RemainderIs, Zenon
  <2>4. a + b = l * N + u
    BY <2>2, RemainderIs, Zenon
  <2>. QED
    BY <2>1, <2>3, <2>4
<1>. HIDE DEF q, r, k, s, l, u
<1>3. l * N + u = (q + k) * N + s
  BY <1>1, <1>2
<1>4. u = s
  BY <1>1, <1>3, RemainderUnique
<1>. QED
  BY <1>4 DEF s, u, r
\* f lists x, g[x], g[g[x]] and so on, up to n applications of g.
IsIteration(f, S, x, g, n) ==
  f \in [0..n -> S] /\ f[0] = x /\ \A i \in 1..n : f[i] = g[f[i - 1]]

\* There is such a list: what a recursive definition over 0..n describes exists.
LEMMA Iterated ==
  ASSUME NEW S, NEW x \in S, NEW g \in [S -> S], NEW n \in Nat
  PROVE  \E f : IsIteration(f, S, x, g, n)
<1>. DEFINE Fits(f, k) == f[0] = x /\ \A i \in 1..k : f[i] = g[f[i - 1]]
            T == {k \in Nat : \E f \in [0..k -> S] : Fits(f, k)}
<1>1. 0 \in T
  <2>1. [i \in 0..0 |-> x] \in [0..0 -> S] /\ Fits([i \in 0..0 |-> x], 0)
    OBVIOUS
  <2>. QED
    BY <2>1
<1>2. ASSUME NEW k \in 0..(n - 1), k \in T PROVE k + 1 \in T
  <2>1. PICK f \in [0..k -> S] : Fits(f, k)
    BY <1>2
  <2>. DEFINE h == [i \in 0..(k + 1) |-> IF i <= k THEN f[i] ELSE g[f[k]]]
  <2>2. h \in [0..(k + 1) -> S]
    BY <1>2
  <2>3. h[0] = x /\ \A i \in 1..k : h[i] = g[h[i - 1]]
    <3>1. \A i \in 1..k : i \in 0..k /\ i - 1 \in 0..k /\ i \in 0..(k + 1) /\ i - 1 \in 0..(k + 1)
      OBVIOUS
    <3>2. \A i \in 0..k : h[i] = f[i]
      OBVIOUS
    <3>. QED
      BY <2>1, <3>1, <3>2
  <2>4. h[k + 1] = g[h[(k + 1) - 1]]
    <3>1. (k + 1) - 1 = k /\ h[k] = f[k] /\ h[k + 1] = g[f[k]]
      OBVIOUS
    <3>. QED
      BY <3>1
  <2>5. \A i \in 1..(k + 1) : i \in 1..k \/ i = k + 1
    OBVIOUS
  <2>. HIDE DEF h
  <2>6. Fits(h, k + 1)
    BY <2>3, <2>4, <2>5
  <2>. QED
    BY <2>2, <2>6
<1>3. n \in T
  <2>. HIDE DEF T
  <2>1. 0..n \subseteq T
    BY <1>1, <1>2, SetInduction
  <2>. QED
    BY <2>1
<1>. QED
  BY <1>3 DEF IsIteration

\* An item is in the queue iff it is one of the queue's items.
LEMMA InQueueItems ==
  \A x, q : InQueue(x, q) <=> x \in Items(q)
BY DEF InQueue, Items

\* A queue without items is the empty sequence.
LEMMA NoItems ==
  ASSUME NEW S, NEW q \in Seq(S)
  PROVE  /\ Items(q) \subseteq S
         /\ Items(q) = {} <=> q = <<>>
         /\ Items(<<>>) = {} /\ Distinct(<<>>)
BY DEF Items, Distinct

\* enqueue() links one more item, at the tail.
LEMMA EnqueueItems ==
  ASSUME NEW S, NEW q \in Seq(S), NEW x \in S
  PROVE  /\ Append(q, x) \in Seq(S)
         /\ Items(Append(q, x)) = Items(q) \cup {x}
         /\ Distinct(q) /\ x \notin Items(q) => Distinct(Append(q, x))
<1>1. /\ Append(q, x) \in Seq(S)
      /\ Len(Append(q, x)) = Len(q) + 1
      /\ \A i \in 1..Len(q) : Append(q, x)[i] = q[i]
      /\ Append(q, x)[Len(q) + 1] = x
  BY AppendProperties
<1>2. Len(q) \in Nat
  BY LenProperties
<1>3. \A i \in 1..(Len(q) + 1) : i \in 1..Len(q) \/ i = Len(q) + 1
  BY <1>2
<1>4. Items(Append(q, x)) = Items(q) \cup {x}
  <2>1. Items(Append(q, x)) \subseteq Items(q) \cup {x}
    BY <1>1, <1>3 DEF Items
  <2>2. Items(q) \subseteq Items(Append(q, x))
    BY <1>1, <1>2 DEF Items
  <2>3. x \in Items(Append(q, x))
    BY <1>1, <1>2 DEF Items
  <2>. QED
    BY <2>1, <2>2, <2>3
<1>5. ASSUME Distinct(q), x \notin Items(q) PROVE Distinct(Append(q, x))
  BY <1>1, <1>2, <1>3, <1>5 DEF Distinct, Items
<1>. QED
  BY <1>1, <1>4, <1>5

\* queue_insert() right after the head links one more item, in front.
LEMMA AtHeadItems ==
  ASSUME NEW S, NEW q \in Seq(S), NEW x \in S
  PROVE  /\ AtHead(x, q) \in Seq(S)
         /\ Items(AtHead(x, q)) = Items(q) \cup {x}
         /\ Distinct(q) /\ x \notin Items(q) => Distinct(AtHead(x, q))
         /\ Head(AtHead(x, q)) = x
         /\ AtHead(x, q) # <<>>
<1>1. <<x>> \in Seq(S) /\ Len(<<x>>) = 1 /\ <<x>>[1] = x
  OBVIOUS
<1>2. /\ AtHead(x, q) \in Seq(S)
      /\ Len(AtHead(x, q)) = Len(q) + 1
      /\ \A i \in 1..(Len(q) + 1) : AtHead(x, q)[i] = IF i <= 1 THEN <<x>>[i] ELSE q[i - 1]
  <2>1. Len(q) + 1 = 1 + Len(q)
    BY LenProperties
  <2>. QED
    BY <1>1, <2>1, ConcatProperties DEF AtHead
<1>3. Len(q) \in Nat
  BY LenProperties
<1>4. AtHead(x, q)[1] = x /\ \A i \in 1..Len(q) : AtHead(x, q)[i + 1] = q[i]
  BY <1>1, <1>2, <1>3
<1>5. \A i \in 1..(Len(q) + 1) : i = 1 \/ i - 1 \in 1..Len(q)
  BY <1>3
<1>6. Items(AtHead(x, q)) = Items(q) \cup {x}
  <2>1. Items(AtHead(x, q)) \subseteq Items(q) \cup {x}
    BY <1>1, <1>2, <1>3, <1>5 DEF Items
  <2>2. Items(q) \subseteq Items(AtHead(x, q))
    BY <1>2, <1>3, <1>4 DEF Items
  <2>3. x \in Items(AtHead(x, q))
    BY <1>2, <1>3, <1>4 DEF Items
  <2>. QED
    BY <2>1, <2>2, <2>3
<1>7. ASSUME Distinct(q), x \notin Items(q) PROVE Distinct(AtHead(x, q))
  <2>1. \A i \in 1..Len(q) : q[i] # x
    BY <1>7 DEF Items
  <2>2. SUFFICES ASSUME NEW i \in 1..(Len(q) + 1), NEW j \in 1..(Len(q) + 1),
                        AtHead(x, q)[i] = AtHead(x, q)[j]
                 PROVE  i = j
    BY <1>2 DEF Distinct
  <2>3. \A k \in 1..(Len(q) + 1) :
          k # 1 => k - 1 \in 1..Len(q) /\ AtHead(x, q)[k] = q[k - 1]
    BY <1>2, <1>3, <1>5
  <2>4. CASE i = 1 \/ j = 1
    BY <1>4, <2>1, <2>2, <2>3, <2>4
  <2>5. CASE i # 1 /\ j # 1
    <3>1. q[i - 1] = q[j - 1]
      BY <2>2, <2>3, <2>5
    <3>2. i - 1 = j - 1
      BY <1>7, <2>3, <2>5, <3>1 DEF Distinct
    <3>. QED
      BY <3>2
  <2>. QED
    BY <2>4, <2>5
<1>8. Head(AtHead(x, q)) = x /\ AtHead(x, q) # <<>>
  BY <1>2, <1>3, <1>4
<1>. QED
  BY <1>2, <1>6, <1>7, <1>8

\* dequeue() unlinks the first item.
LEMMA DequeueItems ==
  ASSUME NEW S, NEW q \in Seq(S), q # <<>>, Distinct(q)
  PROVE  /\ Head(q) \in Items(q)
         /\ Tail(q) \in Seq(S)
         /\ Items(Tail(q)) = Items(q) \ {Head(q)}
         /\ Distinct(Tail(q))
<1>1. /\ Tail(q) \in Seq(S)
      /\ Len(Tail(q)) = Len(q) - 1
      /\ \A i \in 1..Len(Tail(q)) : Tail(q)[i] = q[i + 1]
  BY HeadTailProperties
<1>2. Len(q) \in Nat \ {0}
  BY EmptySeq
<1>3. Head(q) = q[1]
  OBVIOUS
<1>4. \A i \in 1..Len(q) : i = 1 \/ i - 1 \in 1..(Len(q) - 1)
  BY <1>2
<1>5. \A i \in 1..(Len(q) - 1) : i + 1 \in 1..Len(q) /\ i + 1 # 1
  BY <1>2
<1>6. Items(Tail(q)) = Items(q) \ {Head(q)}
  <2>1. Items(Tail(q)) \subseteq Items(q) \ {Head(q)}
    BY <1>1, <1>2, <1>3, <1>5 DEF Items, Distinct
  <2>2. ASSUME NEW i \in 1..Len(q), q[i] # q[1] PROVE q[i] \in Items(Tail(q))
    <3>1. i - 1 \in 1..Len(Tail(q)) /\ Tail(q)[i - 1] = q[i]
      BY <1>1, <1>2, <1>4, <2>2
    <3>. QED
      BY <3>1 DEF Items
  <2>. QED
    BY <1>3, <2>1, <2>2 DEF Items
<1>7. Distinct(Tail(q))
  BY <1>1, <1>2, <1>5 DEF Distinct
<1>8. Head(q) \in Items(q)
  BY <1>2, <1>3 DEF Items
<1>. QED
  BY <1>1, <1>6, <1>7, <1>8

\* Appending a whole queue links all its items.
LEMMA ConcatItems ==
  ASSUME NEW S, NEW p \in Seq(S), NEW q \in Seq(S)
  PROVE  /\ p \o q \in Seq(S)
         /\ Items(p \o q) = Items(p) \cup Items(q)
         /\ Distinct(p) /\ Distinct(q) /\ Items(p) \cap Items(q) = {}
              => Distinct(p \o q)
<1>1. /\ p \o q \in Seq(S)
      /\ Len(p \o q) = Len(p) + Len(q)
      /\ \A i \in 1..(Len(p) + Len(q)) :
           (p \o q)[i] = IF i <= Len(p) THEN p[i] ELSE q[i - Len(p)]
  BY ConcatProperties
<1>2. Len(p) \in Nat /\ Len(q) \in Nat
  BY LenProperties
<1>3. \A i \in 1..Len(p) : i \in 1..(Len(p) + Len(q)) /\ (p \o q)[i] = p[i]
  BY <1>1, <1>2
<1>4. \A i \in 1..Len(q) : /\ Len(p) + i \in 1..(Len(p) + Len(q))
                           /\ (p \o q)[Len(p) + i] = q[i]
  BY <1>1, <1>2
<1>5. \A i \in 1..(Len(p) + Len(q)) :
        \/ i \in 1..Len(p) /\ (p \o q)[i] = p[i]
        \/ i - Len(p) \in 1..Len(q) /\ (p \o q)[i] = q[i - Len(p)]
  BY <1>1, <1>2
<1>6. Items(p \o q) = Items(p) \cup Items(q)
  <2>1. Items(p \o q) \subseteq Items(p) \cup Items(q)
    BY <1>1, <1>5 DEF Items
  <2>2. Items(p) \subseteq Items(p \o q)
    BY <1>1, <1>3 DEF Items
  <2>3. Items(q) \subseteq Items(p \o q)
    BY <1>1, <1>4 DEF Items
  <2>. QED
    BY <2>1, <2>2, <2>3
<1>7. ASSUME Distinct(p), Distinct(q), Items(p) \cap Items(q) = {}
      PROVE  Distinct(p \o q)
  <2>1. SUFFICES ASSUME NEW i \in 1..(Len(p) + Len(q)), NEW j \in 1..(Len(p) + Len(q)),
                        (p \o q)[i] = (p \o q)[j]
                 PROVE  i = j
    BY <1>1 DEF Distinct
  <2>2. \A k \in 1..Len(p), l \in 1..Len(q) : p[k] # q[l]
    BY <1>7 DEF Items
  <2>3. CASE i \in 1..Len(p) /\ j \in 1..Len(p)
    BY <1>3, <1>7, <2>1, <2>3 DEF Distinct
  <2>4. CASE i \notin 1..Len(p) /\ j \notin 1..Len(p)
    <3>1. i - Len(p) = j - Len(p)
      BY <1>5, <1>7, <2>1, <2>4 DEF Distinct
    <3>. QED
      BY <1>2, <3>1
  <2>5. CASE i \in 1..Len(p) /\ j \notin 1..Len(p)
    BY <1>3, <1>5, <2>1, <2>2, <2>5
  <2>6. CASE i \notin 1..Len(p) /\ j \in 1..Len(p)
    BY <1>3, <1>5, <2>1, <2>2, <2>6
  <2>. QED
    BY <2>3, <2>4, <2>5, <2>6
<1>. QED
  BY <1>1, <1>6, <1>7

\* queue_remove() leaves a queue of the same kind of items.
LEMMA WithoutType ==
  ASSUME NEW S, NEW q \in Seq(S), NEW x
  PROVE  Without(q, x) \in Seq(S)
<1>1. CASE ~InQueue(x, q)
  BY <1>1 DEF Without
<1>2. CASE InQueue(x, q)
  <2>. DEFINE k == CHOOSE i \in 1..Len(q) : q[i] = x
              f(j) == IF j < k THEN q[j] ELSE q[j + 1]
  <2>1. k \in 1..Len(q)
    BY <1>2 DEF InQueue
  <2>2. Without(q, x) = [j \in 1..(Len(q) - 1) |-> f(j)]
    BY <1>2 DEF Without
  <2>3. Len(q) \in Nat /\ Len(q) - 1 \in Nat /\ k \in Nat
    BY <2>1, LenProperties
  <2>. HIDE DEF k
  <2>4. \A j \in 1..(Len(q) - 1) : f(j) \in S
    BY <2>3, ElementOfSeq
  <2>. QED
    BY <2>2, <2>3, <2>4
<1>. QED
  BY <1>1, <1>2

\* queue_remove() unlinks the item it names and no other, whether or not it
\* was linked there.
LEMMA WithoutItems ==
  ASSUME NEW S, NEW q \in Seq(S), NEW x, Distinct(q)
  PROVE  /\ Without(q, x) \in Seq(S)
         /\ Items(Without(q, x)) = Items(q) \ {x}
         /\ Distinct(Without(q, x))
<1>1. CASE ~InQueue(x, q)
  BY <1>1, InQueueItems DEF Without
<1>2. CASE InQueue(x, q)
  <2>. DEFINE k == CHOOSE i \in 1..Len(q) : q[i] = x
              f(j) == IF j < k THEN q[j] ELSE q[j + 1]
              w == [j \in 1..(Len(q) - 1) |-> f(j)]
  <2>1. k \in 1..Len(q) /\ q[k] = x
    BY <1>2 DEF InQueue
  <2>2. Without(q, x) = w
    BY <1>2 DEF Without
  <2>3. Len(q) \in Nat /\ Len(q) - 1 \in Nat /\ k \in Nat
    BY <2>1, LenProperties
  <2>. HIDE DEF k
  <2>4. \A j \in 1..(Len(q) - 1) : f(j) \in S
    BY <2>3, ElementOfSeq
  <2>5. w \in Seq(S) /\ Len(w) = Len(q) - 1
    BY <2>3, <2>4
  <2>6. \A j \in 1..(Len(q) - 1) : w[j] = f(j)
    OBVIOUS
  <2>7. \A j \in 1..(Len(q) - 1) :
          \E i \in 1..Len(q) : i # k /\ w[j] = q[i] /\ i = IF j < k THEN j ELSE j + 1
    BY <2>1, <2>3, <2>6
  <2>8. \A i \in 1..Len(q) : i # k =>
          \E j \in 1..(Len(q) - 1) : w[j] = q[i]
    <3>. SUFFICES ASSUME NEW i \in 1..Len(q), i # k
                  PROVE  \E j \in 1..(Len(q) - 1) : w[j] = q[i]
      OBVIOUS
    <3>1. CASE i < k
      BY <2>1, <2>3, <2>6, <3>1
    <3>2. CASE i > k
      <4>1. i - 1 \in 1..(Len(q) - 1) /\ ~(i - 1 < k) /\ (i - 1) + 1 = i
        BY <2>1, <2>3, <3>2
      <4>2. w[i - 1] = q[i]
        BY <2>6, <4>1
      <4>. QED
        BY <4>1, <4>2
    <3>. QED
      BY <2>3, <3>1, <3>2
  <2>9. Items(w) = Items(q) \ {x}
    <3>1. Items(w) \subseteq Items(q) \ {x}
      <4>1. \A i \in 1..Len(q) : i # k => q[i] # x
        BY <2>1 DEF Distinct
      <4>2. \A j \in 1..(Len(q) - 1) : w[j] \in Items(q) \ {x}
        BY <2>7, <4>1 DEF Items
      <4>3. Items(w) = {w[j] : j \in 1..(Len(q) - 1)}
        BY <2>5 DEF Items
      <4>. HIDE DEF w
      <4>. QED
        BY <4>2, <4>3
    <3>2. Items(q) \ {x} \subseteq Items(w)
      BY <2>1, <2>5, <2>8, ZenonT(30) DEF Items
    <3>. QED
      BY <3>1, <3>2
  <2>10. Distinct(w)
    <3>1. SUFFICES ASSUME NEW i \in 1..(Len(q) - 1), NEW j \in 1..(Len(q) - 1), w[i] = w[j]
                   PROVE  i = j
      BY <2>5 DEF Distinct
    <3>2. PICK a \in 1..Len(q) : w[i] = q[a] /\ a = IF i < k THEN i ELSE i + 1
      BY <2>7
    <3>3. PICK b \in 1..Len(q) : w[j] = q[b] /\ b = IF j < k THEN j ELSE j + 1
      BY <2>7
    <3>4. a = b
      BY <3>1, <3>2, <3>3 DEF Distinct
    <3>. QED
      BY <2>3, <3>2, <3>3, <3>4
  <2>. QED
    BY <2>2, <2>5, <2>9, <2>10
<1>. QED
  BY <1>1, <1>2

\* queue_remove() of an item makes the queue shorter by one.
LEMMA WithoutLen ==
  ASSUME NEW S, NEW q \in Seq(S), NEW x \in Items(q)
  PROVE  Len(Without(q, x)) = Len(q) - 1
<1>. DEFINE k == CHOOSE i \in 1..Len(q) : q[i] = x
            f(j) == IF j < k THEN q[j] ELSE q[j + 1]
<1>1. Without(q, x) = [j \in 1..(Len(q) - 1) |-> f(j)]
  BY InQueueItems DEF Without
<1>2. Len(q) \in Nat \ {0}
  BY LenProperties DEF Items
<1>. HIDE DEF f
<1>. QED
  BY <1>1, <1>2

\* sched_wakeone() picks one of the sleepers, none of which is better.
LEMMA FirstBestItem ==
  ASSUME NEW S, NEW q \in Seq(S), q # <<>>, NEW pri \in [S -> Nat]
  PROVE  /\ FirstBest(q, pri) \in Items(q)
         /\ \A x \in Items(q) : pri[FirstBest(q, pri)] <= pri[x]
<1>. DEFINE B(i) == /\ \A j \in 1..Len(q) : pri[q[i]] <= pri[q[j]]
                    /\ \A j \in 1..(i - 1) : pri[q[j]] # pri[q[i]]
            ps == {pri[q[i]] : i \in 1..Len(q)}
<1>1. Len(q) \in Nat \ {0} /\ \A i \in 1..Len(q) : q[i] \in S
  BY EmptySeq, ElementOfSeq
<1>2. PICK p \in ps : \A o \in ps : p <= o
  <2>1. ps \subseteq Nat
    BY <1>1
  <2>2. pri[q[1]] \in ps
    BY <1>1
  <2>. QED
    BY <2>1, <2>2, NatMinimum
<1>. DEFINE is == {i \in 1..Len(q) : pri[q[i]] = p}
<1>3. PICK i \in is : \A j \in is : i <= j
  <2>1. is \subseteq Nat /\ is # {}
    BY <1>1, <1>2
  <2>. QED
    BY <2>1, NatMinimum
<1>4. i \in 1..Len(q) /\ B(i)
  <2>1. i \in 1..Len(q) /\ pri[q[i]] = p
    OBVIOUS
  <2>2. \A j \in 1..Len(q) : pri[q[i]] <= pri[q[j]]
    BY <1>2, <2>1
  <2>3. ASSUME NEW j \in 1..(i - 1) PROVE pri[q[j]] # pri[q[i]]
    <3>1. j \in 1..Len(q) /\ ~(i <= j)
      BY <1>1, <2>1
    <3>. QED
      BY <1>3, <2>1, <3>1
  <2>. QED
    BY <2>1, <2>2, <2>3
<1>. DEFINE c == CHOOSE k \in 1..Len(q) : B(k)
<1>5. c \in 1..Len(q) /\ B(c)
  BY <1>4
<1>6. FirstBest(q, pri) = q[c]
  BY DEF FirstBest
<1>. HIDE DEF c
<1>. QED
  BY <1>5, <1>6 DEF Items
-----------------------------------------------------------------------------
\* The nodes of the ring of the queue q with the head h: the head, the items,
\* the head again.
Node(h, q, i) == IF i \in 1..Len(q) THEN q[i] ELSE h

\* The links are those of D, and point to links of D.
IsMemory(D, L) == L.next \in [D -> D] /\ L.prev \in [D -> D]

\* M and L have the same links Y.
Agree(M, L, Y) == \A y \in Y : M.next[y] = L.next[y] /\ M.prev[y] = L.prev[y]

\* The links of L make the queue q with the head h.
Ring(L, h, q) ==
  /\ Distinct(q) /\ h \notin Items(q)
  /\ \A i \in 0..Len(q) : /\ L.next[Node(h, q, i)] = Node(h, q, i + 1)
                         /\ L.prev[Node(h, q, i + 1)] = Node(h, q, i)

LEMMA NodeFacts ==
  ASSUME NEW S, NEW h, NEW q \in Seq(S)
  PROVE  /\ Len(q) \in Nat
         /\ Node(h, q, 0) = h /\ Node(h, q, Len(q) + 1) = h
         /\ \A i \in 1..Len(q) : Node(h, q, i) = q[i] /\ q[i] \in Items(q) /\ q[i] \in S
         /\ \A i : Node(h, q, i) \in {h} \cup Items(q)
<1>1. Len(q) \in Nat /\ \A i \in 1..Len(q) : q[i] \in S
  BY ElementOfSeq
<1>. QED
  BY <1>1 DEF Node, Items

\* Every node but the last is another one.
LEMMA NodesDiffer ==
  ASSUME NEW S, NEW h, NEW q \in Seq(S), Distinct(q), h \notin Items(q)
  PROVE  /\ \A i, j \in 0..Len(q) : Node(h, q, i) = Node(h, q, j) => i = j
         /\ \A i, j \in 1..(Len(q) + 1) : Node(h, q, i) = Node(h, q, j) => i = j
<1>0. /\ Len(q) \in Nat
      /\ Node(h, q, 0) = h /\ Node(h, q, Len(q) + 1) = h
      /\ \A i \in 1..Len(q) : Node(h, q, i) = q[i] /\ q[i] \in Items(q) /\ q[i] \in S
      /\ \A i : Node(h, q, i) \in {h} \cup Items(q)
  BY NodeFacts, Zenon
<1>1. \A i \in 1..Len(q) : Node(h, q, i) = q[i] /\ Node(h, q, i) # h
  BY <1>0
<1>2. ASSUME NEW i \in 0..Len(q), NEW j \in 0..Len(q), Node(h, q, i) = Node(h, q, j) PROVE i = j
  BY <1>0, <1>1, <1>2 DEF Distinct
<1>3. ASSUME NEW i \in 1..(Len(q) + 1), NEW j \in 1..(Len(q) + 1), Node(h, q, i) = Node(h, q, j) PROVE i = j
  <2>1. CASE i \in 1..Len(q) /\ j \in 1..Len(q)
    BY <1>1, <1>3, <2>1 DEF Distinct
  <2>2. CASE i = Len(q) + 1 /\ j = Len(q) + 1
    BY <2>2
  <2>3. CASE (i = Len(q) + 1 /\ j \in 1..Len(q)) \/ (j = Len(q) + 1 /\ i \in 1..Len(q))
    BY <1>0, <1>1, <1>3, <2>3
  <2>. QED
    BY <1>0, <2>1, <2>2, <2>3
<1>. QED
  BY <1>2, <1>3

\* Links elsewhere do not matter.
LEMMA RingFrame ==
  ASSUME NEW S, NEW h, NEW q \in Seq(S), NEW L, NEW M, Ring(L, h, q),
         Agree(M, L, {h} \cup Items(q))
  PROVE  Ring(M, h, q)
BY NodeFacts DEF Ring, Agree

LEMMA RingEmptied ==
  ASSUME NEW h, NEW L, h \in DOMAIN L.next, h \in DOMAIN L.prev
  PROVE  Ring(Emptied(L, h), h, <<>>)
<1>1. Emptied(L, h).next[h] = h /\ Emptied(L, h).prev[h] = h
  BY DEF Emptied
<1>2. \A i : Node(h, <<>>, i) = h
  BY DEF Node
<1>. QED
  BY <1>1, <1>2 DEF Ring, Distinct, Items

\* q with x after the k-th item.
Inserted(q, k, x) ==
  [i \in 1..(Len(q) + 1) |-> IF i <= k THEN q[i] ELSE IF i = k + 1 THEN x ELSE q[i - 1]]

LEMMA InsertedFacts ==
  ASSUME NEW S, NEW q \in Seq(S), NEW x \in S, NEW k \in 0..Len(q)
  PROVE  /\ Inserted(q, k, x) \in Seq(S) /\ Len(Inserted(q, k, x)) = Len(q) + 1
         /\ Items(Inserted(q, k, x)) = Items(q) \cup {x}
         /\ Distinct(q) /\ x \notin Items(q) => Distinct(Inserted(q, k, x))
<1>. DEFINE w == Inserted(q, k, x)
<1>1. Len(q) \in Nat /\ k \in Nat /\ \A i \in 1..Len(q) : q[i] \in S
  BY ElementOfSeq
<1>2. \A i \in 1..(Len(q) + 1) :
        /\ i <= k => i \in 1..Len(q) /\ w[i] = q[i]
        /\ i = k + 1 => w[i] = x
        /\ i > k + 1 => i - 1 \in 1..Len(q) /\ w[i] = q[i - 1]
  BY <1>1 DEF Inserted
<1>3. \A i \in 1..(Len(q) + 1) : w[i] \in S
  BY <1>1, <1>2
<1>4. w = [i \in 1..(Len(q) + 1) |-> w[i]]
  BY DEF Inserted
<1>. HIDE DEF w
<1>5. w \in Seq(S) /\ Len(w) = Len(q) + 1
  BY <1>1, <1>3, <1>4
<1>6. Items(w) = Items(q) \cup {x}
  <2>1. ASSUME NEW i \in 1..(Len(q) + 1) PROVE w[i] \in Items(q) \cup {x}
    BY <1>1, <1>2 DEF Items
  <2>2. x \in Items(w)
    <3>1. k + 1 \in 1..(Len(q) + 1) /\ w[k + 1] = x
      BY <1>1, <1>2
    <3>. QED
      BY <1>5, <3>1 DEF Items
  <2>3. ASSUME NEW i \in 1..Len(q) PROVE q[i] \in Items(w)
    <3>1. CASE i <= k
      BY <1>1, <1>2, <1>5, <3>1 DEF Items
    <3>2. CASE i > k
      <4>1. i + 1 \in 1..(Len(q) + 1) /\ i + 1 > k + 1 /\ (i + 1) - 1 = i
        BY <1>1, <3>2
      <4>2. w[i + 1] = q[i]
        BY <1>2, <4>1
      <4>. QED
        BY <1>5, <4>1, <4>2 DEF Items
    <3>. QED
      BY <1>1, <3>1, <3>2
  <2>. QED
    BY <1>5, <2>1, <2>2, <2>3 DEF Items
<1>7. ASSUME Distinct(q), x \notin Items(q) PROVE Distinct(w)
  <2>1. ASSUME NEW i \in 1..(Len(q) + 1), NEW j \in 1..(Len(q) + 1), w[i] = w[j], i < j PROVE FALSE
    <3>1. \A l \in 1..Len(q) : q[l] # x
      BY <1>7 DEF Items
    <3>2. CASE j <= k
      BY <1>1, <1>2, <1>7, <2>1, <3>2 DEF Distinct
    <3>3. CASE j = k + 1
      BY <1>1, <1>2, <2>1, <3>1, <3>3
    <3>4. CASE j > k + 1 /\ i = k + 1
      BY <1>1, <1>2, <2>1, <3>1, <3>4
    <3>5. CASE j > k + 1 /\ i <= k
      <4>1. q[i] = q[j - 1] /\ i \in 1..Len(q) /\ j - 1 \in 1..Len(q) /\ i # j - 1
        BY <1>1, <1>2, <2>1, <3>5
      <4>. QED
        BY <1>7, <4>1 DEF Distinct
    <3>6. CASE j > k + 1 /\ i > k + 1
      <4>1. q[i - 1] = q[j - 1] /\ i - 1 \in 1..Len(q) /\ j - 1 \in 1..Len(q) /\ i - 1 # j - 1
        BY <1>1, <1>2, <2>1, <3>6
      <4>. QED
        BY <1>7, <4>1 DEF Distinct
    <3>. QED
      BY <1>1, <3>2, <3>3, <3>4, <3>5, <3>6
  <2>2. ASSUME NEW i \in 1..(Len(q) + 1), NEW j \in 1..(Len(q) + 1), w[i] = w[j], i # j PROVE FALSE
    BY <1>1, <2>1, <2>2
  <2>. QED
    BY <1>5, <2>2 DEF Distinct
<1>. QED
  BY <1>5, <1>6, <1>7 DEF w

\* x is linked after the k-th node.
LEMMA RingInserted ==
  ASSUME NEW S, NEW h, NEW q \in Seq(S), NEW L, NEW M, Ring(L, h, q),
         NEW x \in S, x \notin {h} \cup Items(q), NEW k \in 0..Len(q),
         M.next[Node(h, q, k)] = x, M.next[x] = Node(h, q, k + 1),
         M.prev[x] = Node(h, q, k), M.prev[Node(h, q, k + 1)] = x,
         \A y \in {h} \cup Items(q) : y # Node(h, q, k) => M.next[y] = L.next[y],
         \A y \in {h} \cup Items(q) : y # Node(h, q, k + 1) => M.prev[y] = L.prev[y]
  PROVE  Ring(M, h, Inserted(q, k, x))
<1>. DEFINE w == Inserted(q, k, x)
<1>1. Len(q) \in Nat /\ k \in Nat /\ k <= Len(q)
  OBVIOUS
<1>2. Len(w) = Len(q) + 1 /\ Distinct(w) /\ h \notin Items(w)
  BY InsertedFacts DEF Ring
<1>3. \A i \in 0..(Len(q) + 2) :
        /\ i <= k => Node(h, w, i) = Node(h, q, i)
        /\ i = k + 1 => Node(h, w, i) = x
        /\ i > k + 1 => Node(h, w, i) = Node(h, q, i - 1)
  <2>1. ASSUME NEW i \in 1..(Len(q) + 1)
        PROVE  w[i] = IF i <= k THEN q[i] ELSE IF i = k + 1 THEN x ELSE q[i - 1]
    BY DEF Inserted
  <2>2. ASSUME NEW i \in 0..(Len(q) + 2)
        PROVE  /\ i <= k => Node(h, w, i) = Node(h, q, i)
               /\ i = k + 1 => Node(h, w, i) = x
               /\ i > k + 1 => Node(h, w, i) = Node(h, q, i - 1)
    <3>. HIDE DEF w
    <3>1. CASE i = 0
      BY <1>1, <3>1 DEF Node
    <3>2. CASE i = Len(q) + 2
      <4>1. i \notin 1..Len(w) /\ i - 1 \notin 1..Len(q) /\ ~(i <= k) /\ i # k + 1
        BY <1>1, <1>2, <3>2
      <4>. QED
        BY <4>1 DEF Node
    <3>3. CASE i \in 1..(Len(q) + 1)
      <4>1. Node(h, w, i) = w[i]
        BY <1>2, <3>3 DEF Node
      <4>2. i <= k => Node(h, q, i) = q[i]
        BY <1>1, <3>3 DEF Node
      <4>3. i > k + 1 => Node(h, q, i - 1) = q[i - 1]
        BY <1>1, <3>3 DEF Node
      <4>. QED
        BY <1>1, <2>1, <3>3, <4>1, <4>2, <4>3
    <3>. QED
      BY <1>1, <3>1, <3>2, <3>3
  <2>. QED
    BY <2>2
<1>. HIDE DEF w
<1>4. /\ \A i \in 0..Len(q) : Node(h, q, i) = Node(h, q, k) => i = k
      /\ \A i \in 1..(Len(q) + 1) : Node(h, q, i) = Node(h, q, k + 1) => i = k + 1
  <2>1. k + 1 \in 1..(Len(q) + 1)
    BY <1>1
  <2>. QED
    BY <2>1, NodesDiffer DEF Ring
<1>5. ASSUME NEW i \in 0..(Len(q) + 1)
      PROVE  M.next[Node(h, w, i)] = Node(h, w, i + 1) /\ M.prev[Node(h, w, i + 1)] = Node(h, w, i)
  <2>0. i \in 0..(Len(q) + 2) /\ i + 1 \in 0..(Len(q) + 2)
    BY <1>1
  <2>1. CASE i < k
    <3>1. i \in 0..Len(q) /\ i + 1 \in 1..(Len(q) + 1) /\ i # k /\ i + 1 # k + 1
      BY <1>1, <2>1
    <3>2. Node(h, w, i) = Node(h, q, i) /\ Node(h, w, i + 1) = Node(h, q, i + 1)
      BY <1>1, <1>3, <2>0, <2>1
    <3>3. L.next[Node(h, q, i)] = Node(h, q, i + 1) /\ L.prev[Node(h, q, i + 1)] = Node(h, q, i)
      BY <3>1 DEF Ring
    <3>. QED
      BY <1>4, <3>1, <3>2, <3>3, NodeFacts
  <2>2. CASE i = k
    BY <1>1, <1>3, <2>0, <2>2
  <2>3. CASE i = k + 1
    <3>1. Node(h, w, i) = x /\ Node(h, w, i + 1) = Node(h, q, k + 1)
      <4>1. i + 1 > k + 1 /\ (i + 1) - 1 = k + 1
        BY <1>1, <2>3
      <4>. QED
        BY <1>3, <2>0, <2>3, <4>1
    <3>. QED
      BY <3>1
  <2>4. CASE i > k + 1
    <3>1. i - 1 \in 0..Len(q) /\ i \in 1..(Len(q) + 1) /\ i - 1 # k /\ i # k + 1 /\ (i - 1) + 1 = i /\ (i + 1) - 1 = i
      BY <1>1, <2>4
    <3>2. Node(h, w, i) = Node(h, q, i - 1) /\ Node(h, w, i + 1) = Node(h, q, i)
      BY <1>1, <1>3, <2>0, <2>4, <3>1
    <3>3. L.next[Node(h, q, i - 1)] = Node(h, q, i) /\ L.prev[Node(h, q, i)] = Node(h, q, i - 1)
      BY <3>1 DEF Ring
    <3>. QED
      <4>1. Node(h, q, i - 1) # Node(h, q, k) /\ Node(h, q, i) # Node(h, q, k + 1)
        BY <1>4, <3>1
      <4>2. Node(h, q, i - 1) \in {h} \cup Items(q) /\ Node(h, q, i) \in {h} \cup Items(q)
        BY NodeFacts
      <4>3. /\ M.next[Node(h, q, i - 1)] = L.next[Node(h, q, i - 1)]
            /\ M.prev[Node(h, q, i)] = L.prev[Node(h, q, i)]
        BY <4>1, <4>2
      <4>. QED
        BY <3>2, <3>3, <4>3
  <2>. QED
    BY <1>1, <2>1, <2>2, <2>3, <2>4
<1>. QED
  BY <1>2, <1>5 DEF Ring, w

\* enqueue().
LEMMA RingEnqueued ==
  ASSUME NEW S, NEW D, S \subseteq D, NEW h \in D, NEW q \in Seq(S),
         NEW L, IsMemory(D, L), Ring(L, h, q),
         NEW x \in S, x \notin {h} \cup Items(q)
  PROVE  /\ Ring(Enqueued(L, h, x), h, Append(q, x))
         /\ Agree(Enqueued(L, h, x), L, D \ ({h, x} \cup Items(q)))
<1>. DEFINE M == Enqueued(L, h, x)
            last == Node(h, q, Len(q))
<1>1. /\ Len(q) \in Nat /\ last \in {h} \cup Items(q) /\ Node(h, q, Len(q) + 1) = h
      /\ Items(q) \subseteq S
  <2>1. /\ Len(q) \in Nat
        /\ Node(h, q, 0) = h /\ Node(h, q, Len(q) + 1) = h
        /\ \A i \in 1..Len(q) : Node(h, q, i) = q[i] /\ q[i] \in Items(q) /\ q[i] \in S
        /\ \A i : Node(h, q, i) \in {h} \cup Items(q)
    BY NodeFacts, Zenon
  <2>. QED
    BY <2>1, Zenon DEF Items
<1>2. L.prev[h] = last
  BY <1>1 DEF Ring
<1>3. /\ M.next = [L.next EXCEPT ![x] = h, ![last] = x]
      /\ M.prev = [L.prev EXCEPT ![x] = last, ![h] = x]
  BY <1>2 DEF Enqueued
<1>4. last \in D /\ last # x /\ h # x
  BY <1>1
<1>. HIDE DEF M, last
<1>5. /\ M.next[last] = x /\ M.next[x] = h /\ \A y \in D \ {x, last} : M.next[y] = L.next[y]
      /\ M.prev[x] = last /\ M.prev[h] = x /\ \A y \in D \ {x, h} : M.prev[y] = L.prev[y]
  BY <1>3, <1>4 DEF IsMemory
<1>6. Ring(M, h, Inserted(q, Len(q), x))
  BY <1>1, <1>4, <1>5, RingInserted DEF last
<1>7. Append(q, x) = Inserted(q, Len(q), x)
  <2>1. /\ Append(q, x) \in Seq(S) /\ Len(Append(q, x)) = Len(q) + 1
        /\ \A i \in 1..Len(q) : Append(q, x)[i] = q[i]
        /\ Append(q, x)[Len(q) + 1] = x
    OBVIOUS
  <2>2. Inserted(q, Len(q), x) \in Seq(S) /\ Len(Inserted(q, Len(q), x)) = Len(q) + 1
    BY <1>1, InsertedFacts
  <2>3. \A i \in 1..(Len(q) + 1) : Inserted(q, Len(q), x)[i] = IF i <= Len(q) THEN q[i] ELSE x
    BY <1>1 DEF Inserted
  <2>4. \A i \in 1..(Len(q) + 1) : Append(q, x)[i] = Inserted(q, Len(q), x)[i]
    BY <1>1, <2>1, <2>3
  <2>. QED
    BY <2>1, <2>2, <2>4, SeqEqual
<1>8. \A y \in D \ ({h, x} \cup Items(q)) : M.next[y] = L.next[y] /\ M.prev[y] = L.prev[y]
  BY <1>1, <1>5
<1>. QED
  BY <1>6, <1>7, <1>8 DEF M, Agree

LEMMA WithoutAt ==
  ASSUME NEW S, NEW q \in Seq(S), Distinct(q), NEW k \in 1..Len(q)
  PROVE  Without(q, q[k]) = [j \in 1..(Len(q) - 1) |-> IF j < k THEN q[j] ELSE q[j + 1]]
<1>. DEFINE c == CHOOSE i \in 1..Len(q) : q[i] = q[k]
<1>1. c \in 1..Len(q) /\ q[c] = q[k]
  OBVIOUS
<1>2. InQueue(q[k], q)
  BY DEF InQueue
<1>3. Without(q, q[k]) = [j \in 1..(Len(q) - 1) |-> IF j < c THEN q[j] ELSE q[j + 1]]
  BY <1>2 DEF Without
<1>. HIDE DEF c
<1>4. c = k
  BY <1>1 DEF Distinct
<1>. QED
  BY <1>3, <1>4

\* queue_remove() of the k-th item.
LEMMA RingRemoved ==
  ASSUME NEW S, NEW D, S \subseteq D, NEW h \in D, NEW q \in Seq(S),
         NEW L, IsMemory(D, L), Ring(L, h, q),
         NEW x \in Items(q)
  PROVE  /\ Ring(Removed(L, x), h, Without(q, x))
         /\ Agree(Removed(L, x), L, D \ ({h} \cup Items(q)))
<1>. DEFINE M == Removed(L, x)
            w == Without(q, x)
<1>1. PICK k \in 1..Len(q) : x = q[k]
  BY DEF Items
<1>. DEFINE before == Node(h, q, k - 1)
            after == Node(h, q, k + 1)
<1>2. Len(q) \in Nat /\ k \in Nat /\ k >= 1 /\ k <= Len(q) /\ Items(q) \subseteq S /\ Distinct(q)
  BY NodeFacts DEF Items, Ring
<1>3. /\ k - 1 \in 0..Len(q) /\ k \in 0..Len(q) /\ (k - 1) + 1 = k
      /\ Node(h, q, k) = x /\ L.next[x] = after /\ L.prev[x] = before
  <2>1. k - 1 \in 0..Len(q) /\ k \in 0..Len(q) /\ (k - 1) + 1 = k
    BY <1>2
  <2>2. Node(h, q, k) = x
    BY <1>1 DEF Node
  <2>. QED
    BY <2>1, <2>2 DEF Ring
<1>4. before \in {h} \cup Items(q) /\ after \in {h} \cup Items(q) /\ before \in D /\ after \in D
  BY <1>2, NodeFacts
<1>. HIDE DEF before, after
<1>5. M.next = [L.next EXCEPT ![before] = after] /\ M.prev = [L.prev EXCEPT ![after] = before]
  BY <1>3 DEF Removed
<1>. HIDE DEF M
<1>6. /\ M.next[before] = after /\ \A y \in D \ {before} : M.next[y] = L.next[y]
      /\ M.prev[after] = before /\ \A y \in D \ {after} : M.prev[y] = L.prev[y]
  BY <1>4, <1>5 DEF IsMemory
<1>7. /\ w \in Seq(S) /\ Items(w) = Items(q) \ {x} /\ Distinct(w) /\ Len(w) = Len(q) - 1
      /\ w = [j \in 1..(Len(q) - 1) |-> IF j < k THEN q[j] ELSE q[j + 1]]
  BY <1>1, <1>2, WithoutItems, WithoutLen, WithoutAt
<1>. HIDE DEF w
<1>8. \A i \in 0..Len(q) : Node(h, w, i) = IF i < k THEN Node(h, q, i) ELSE Node(h, q, i + 1)
  <2>. SUFFICES ASSUME NEW i \in 0..Len(q)
                PROVE  Node(h, w, i) = IF i < k THEN Node(h, q, i) ELSE Node(h, q, i + 1)
    OBVIOUS
  <2>1. CASE i = 0
    BY <1>2, <1>7, <2>1 DEF Node
  <2>2. CASE i = Len(q)
    <3>1. ~(i < k) /\ i \notin 1..Len(w) /\ i + 1 \notin 1..Len(q)
      BY <1>2, <1>7, <2>2
    <3>. QED
      BY <3>1 DEF Node
  <2>3. CASE i \in 1..(Len(q) - 1)
    <3>1. w[i] = IF i < k THEN q[i] ELSE q[i + 1]
      BY <1>7, <2>3
    <3>2. i \in 1..Len(w) /\ i \in 1..Len(q) /\ i + 1 \in 1..Len(q)
      BY <1>2, <1>7, <2>3
    <3>. QED
      BY <3>1, <3>2 DEF Node
  <2>. QED
    BY <1>2, <2>1, <2>2, <2>3
<1>9. /\ \A i \in 0..Len(q) : Node(h, q, i) = before => i = k - 1
      /\ \A i \in 1..(Len(q) + 1) : Node(h, q, i) = after => i = k + 1
  <2>1. k + 1 \in 1..(Len(q) + 1)
    BY <1>2
  <2>. QED
    BY <1>3, <2>1, NodesDiffer DEF Ring, before, after
<1>10. ASSUME NEW i \in 0..Len(w)
       PROVE  M.next[Node(h, w, i)] = Node(h, w, i + 1) /\ M.prev[Node(h, w, i + 1)] = Node(h, w, i)
  <2>0. i \in Nat /\ i \in 0..Len(q) /\ i + 1 \in 0..Len(q) /\ i <= Len(q) - 1
    BY <1>2, <1>7
  <2>1. CASE i + 1 < k
    <3>1. i \in 0..Len(q) /\ i + 1 \in 1..(Len(q) + 1) /\ i # k - 1 /\ i + 1 # k + 1
      BY <1>2, <2>0, <2>1
    <3>2. Node(h, w, i) = Node(h, q, i) /\ Node(h, w, i + 1) = Node(h, q, i + 1)
      BY <1>2, <1>8, <2>0, <2>1
    <3>3. L.next[Node(h, q, i)] = Node(h, q, i + 1) /\ L.prev[Node(h, q, i + 1)] = Node(h, q, i)
      BY <3>1 DEF Ring
    <3>4. Node(h, q, i) \in D \ {before} /\ Node(h, q, i + 1) \in D \ {after}
      BY <1>2, <1>9, <3>1, NodeFacts
    <3>. QED
      BY <1>6, <3>2, <3>3, <3>4
  <2>2. CASE i + 1 = k
    <3>1. i < k /\ ~(i + 1 < k) /\ i = k - 1 /\ (i + 1) + 1 = k + 1
      BY <1>2, <2>0, <2>2
    <3>2. Node(h, w, i) = before /\ Node(h, w, i + 1) = after
      BY <1>8, <2>0, <3>1 DEF before, after
    <3>. QED
      BY <1>6, <3>2
  <2>3. CASE i + 1 > k
    <3>1. ~(i < k) /\ ~(i + 1 < k) /\ i + 1 # k - 1 /\ (i + 1) + 1 # k + 1 /\ i + 1 \in 0..Len(q) /\ (i + 1) + 1 \in 1..(Len(q) + 1)
      BY <1>2, <2>0, <2>3
    <3>2. Node(h, w, i) = Node(h, q, i + 1) /\ Node(h, w, i + 1) = Node(h, q, (i + 1) + 1)
      BY <1>8, <2>0, <3>1
    <3>3. L.next[Node(h, q, i + 1)] = Node(h, q, (i + 1) + 1) /\ L.prev[Node(h, q, (i + 1) + 1)] = Node(h, q, i + 1)
      BY <3>1 DEF Ring
    <3>4. Node(h, q, i + 1) \in D \ {before} /\ Node(h, q, (i + 1) + 1) \in D \ {after}
      BY <1>2, <1>9, <3>1, NodeFacts
    <3>. QED
      BY <1>6, <3>2, <3>3, <3>4
  <2>. QED
    BY <1>2, <2>0, <2>1, <2>2, <2>3
<1>11. h \notin Items(w)
  BY <1>7 DEF Ring
<1>12. \A y \in D \ ({h} \cup Items(q)) : M.next[y] = L.next[y] /\ M.prev[y] = L.prev[y]
  BY <1>4, <1>6
<1>. QED
  BY <1>7, <1>10, <1>11, <1>12 DEF Ring, M, w, Agree

\* The items of a queue are as many as its length.
LEMMA ItemsCount ==
  ASSUME NEW S, NEW q \in Seq(S), Distinct(q)
  PROVE  IsFiniteSet(Items(q)) /\ Cardinality(Items(q)) = Len(q)
<1>1. Len(q) \in Nat
  OBVIOUS
<1>2. IsFiniteSet(1..Len(q)) /\ Cardinality(1..Len(q)) = Len(q)
  <2>1. IsFiniteSet(1..Len(q)) /\ Cardinality(1..Len(q)) = IF 1 > Len(q) THEN 0 ELSE Len(q) - 1 + 1
    BY <1>1, FS_Interval, SMT
  <2>. QED
    BY <1>1, <2>1
<1>. DEFINE f == [i \in 1..Len(q) |-> q[i]]
<1>3. f \in Bijection(1..Len(q), Items(q))
  BY DEF Bijection, Injection, IsInjective, Surjection, Items, Distinct
<1>4. ExistsBijection(1..Len(q), Items(q))
  BY <1>3, Zenon DEF ExistsBijection
<1>. QED
  BY <1>2, <1>4, FS_Bijection, Zenon

\* The links that a walk meets, one after the other.
LEMMA MeetsUnfolds ==
  ASSUME NEW D, NEW L, IsMemory(D, L)
  PROVE  \A h \in D : \A n \in Nat :
           /\ Meets(L, h, 0) = h
           /\ \A i \in 0..n : Meets(L, h, i) \in D
           /\ \A i \in 0..(n - 1) : Meets(L, h, i + 1) = L.next[Meets(L, h, i)]
<1>. SUFFICES ASSUME NEW h \in D, NEW n \in Nat
              PROVE  /\ Meets(L, h, 0) = h
                     /\ \A i \in 0..n : Meets(L, h, i) \in D
                     /\ \A i \in 0..(n - 1) : Meets(L, h, i + 1) = L.next[Meets(L, h, i)]
  OBVIOUS
<1>. DEFINE g == L.next
<1>0. L.next \in [D -> D]
  BY DEF IsMemory
<1>1. PICK f : IsIteration(f, D, h, g, n)
  <2>. HIDE DEF g
  <2>1. g \in [D -> D]
    BY <1>0 DEF g
  <2>. QED
    BY <2>1, Iterated
<1>2. f \in [0..n -> D] /\ f[0] = h /\ \A i \in 1..n : f[i] = L.next[f[i - 1]]
  BY <1>1 DEF IsIteration
<1>3. ASSUME NEW k \in 0..n PROVE Meets(L, h, k) = f[k]
  <2>. DEFINE meets[j \in 0..k] == IF j = 0 THEN h ELSE L.next[meets[j - 1]]
              R(m) == m = [j \in 0..k |-> IF j = 0 THEN h ELSE L.next[m[j - 1]]]
              F == [j \in 0..k |-> f[j]]
  <2>1. Meets(L, h, k) = meets[k]
    BY Zenon DEF Meets, meets
  <2>2. meets = CHOOSE m : R(m)
    OBVIOUS
  <2>3. R(F)
    <3>1. \A j \in 0..k : j \in 0..n /\ (j # 0 => j - 1 \in 0..k /\ j \in 1..n)
      OBVIOUS
    <3>2. \A j \in 0..k : f[j] = IF j = 0 THEN h ELSE L.next[F[j - 1]]
      BY <1>2, <3>1
    <3>. QED
      BY <3>2
  <2>4. R(meets)
    <3>. HIDE DEF R, meets, F
    <3>. QED
      BY <2>2, <2>3
  <2>. HIDE DEF meets
  <2>5. meets[0] = h /\ \A j \in 1..k : meets[j] = L.next[meets[j - 1]]
    <3>1. \A j \in 1..k : j \in 0..k /\ j # 0
      OBVIOUS
    <3>2. 0 \in 0..k
      OBVIOUS
    <3>. QED
      BY <2>4, <3>1, <3>2
  <2>. DEFINE T == {j \in 0..k : meets[j] = f[j]}
  <2>6. 0 \in T
    BY <1>2, <2>5
  <2>7. ASSUME NEW j \in 0..(k - 1), j \in T PROVE j + 1 \in T
    <3>1. j + 1 \in 1..k /\ j + 1 \in 1..n /\ j + 1 \in 0..k /\ (j + 1) - 1 = j
      OBVIOUS
    <3>. QED
      BY <1>2, <2>5, <2>7, <3>1
  <2>8. 0..k \subseteq T
    <3>. HIDE DEF T
    <3>. QED
      BY <2>6, <2>7, SetInduction
  <2>. QED
    BY <2>1, <2>8
<1>4. Meets(L, h, 0) = h
  BY <1>2, <1>3
<1>5. \A i \in 0..(n - 1) : Meets(L, h, i + 1) = L.next[Meets(L, h, i)]
  <2>1. \A i \in 0..(n - 1) : i \in 0..n /\ i + 1 \in 0..n /\ i + 1 \in 1..n /\ (i + 1) - 1 = i
    OBVIOUS
  <2>. QED
    BY <1>2, <1>3, <2>1
<1>. QED
  BY <1>2, <1>3, <1>4, <1>5

\* A walk along a ring meets its nodes in order.
LEMMA RingMeets ==
  ASSUME NEW S, NEW D, S \subseteq D, NEW h \in D, NEW q \in Seq(S),
         NEW L, IsMemory(D, L), Ring(L, h, q)
  PROVE  \A i \in 0..(Len(q) + 1) : Meets(L, h, i) = Node(h, q, i)
<1>. DEFINE n == Len(q) + 1
            T == {i \in 0..n : Meets(L, h, i) = Node(h, q, i)}
<1>1. Len(q) \in Nat /\ n \in Nat /\ Node(h, q, 0) = h
  BY NodeFacts
<1>2. Meets(L, h, 0) = h /\ \A i \in 0..(n - 1) : Meets(L, h, i + 1) = L.next[Meets(L, h, i)]
  <2>. HIDE DEF n
  <2>. QED
    BY <1>1, MeetsUnfolds
<1>3. 0 \in T
  BY <1>1, <1>2
<1>4. ASSUME NEW i \in 0..(n - 1), i \in T PROVE i + 1 \in T
  <2>1. i \in 0..Len(q) /\ i + 1 \in 0..n
    BY <1>1
  <2>. QED
    BY <1>2, <1>4, <2>1 DEF Ring
<1>5. 0..n \subseteq T
  <2>. HIDE DEF T, n
  <2>. QED
    BY <1>1, <1>3, <1>4, SetInduction
<1>. QED
  BY <1>5

\* What the loops over a queue find: the items of the ring.
LEMMA RingWalk ==
  ASSUME NEW S, NEW D, IsFiniteSet(D), S \subseteq D, NEW h \in D, NEW q \in Seq(S),
         NEW L, IsMemory(D, L), Ring(L, h, q)
  PROVE  /\ Walk(L, h) = q
         /\ IsRing(L, h, S)
         /\ IsEmptyQueue(L, h) <=> q = <<>>
<1>. DEFINE n == Len(q) + 1
            ks == 1..Cardinality(DOMAIN L.next)
<1>1. /\ Len(q) \in Nat /\ n \in Nat /\ Node(h, q, n) = h /\ Items(q) \subseteq S
      /\ \A i \in 1..Len(q) : Node(h, q, i) = q[i] /\ q[i] \in Items(q) /\ q[i] # h
  <2>1. /\ Len(q) \in Nat
        /\ Node(h, q, 0) = h /\ Node(h, q, Len(q) + 1) = h
        /\ \A i \in 1..Len(q) : Node(h, q, i) = q[i] /\ q[i] \in Items(q) /\ q[i] \in S
        /\ \A i : Node(h, q, i) \in {h} \cup Items(q)
    BY NodeFacts, Zenon
  <2>2. Items(q) \subseteq S /\ \A i \in 1..Len(q) : q[i] # h
    BY <2>1 DEF Ring, Items
  <2>. QED
    BY <2>1, <2>2
<1>2. \A i \in 0..n : Meets(L, h, i) = Node(h, q, i)
  BY RingMeets
<1>3. Closes(L, h, n)
  BY <1>1, <1>2 DEF Closes
<1>4. n \in ks
  <2>1. IsFiniteSet(Items(q)) /\ Cardinality(Items(q)) = Len(q)
    BY ItemsCount DEF Ring
  <2>2. IsFiniteSet(Items(q) \cup {h}) /\ Cardinality(Items(q) \cup {h}) = Cardinality(Items(q)) + 1
    BY <2>1, FS_AddElement DEF Ring
  <2>3. Items(q) \cup {h} \in SUBSET D
    BY <1>1
  <2>4. Cardinality(Items(q) \cup {h}) <= Cardinality(D) /\ Cardinality(D) \in Nat
    BY <2>3, FS_Subset, FS_CardinalityType
  <2>5. DOMAIN L.next = D
    BY DEF IsMemory
  <2>. QED
    BY <1>1, <2>1, <2>2, <2>4, <2>5
<1>5. ASSUME NEW k \in ks, Closes(L, h, k) PROVE k = n
  <2>1. CASE k < n
    <3>1. k \in 1..Len(q) /\ k \in 0..n
      BY <1>1, <2>1
    <3>. QED
      BY <1>1, <1>2, <1>5, <3>1 DEF Closes
  <2>2. CASE k > n
    <3>1. n \in 1..(k - 1) /\ n \in 0..n
      BY <1>1, <2>2
    <3>. QED
      BY <1>1, <1>2, <1>5, <3>1 DEF Closes
  <2>. QED
    BY <1>1, <2>1, <2>2
<1>6. (CHOOSE i \in ks : Closes(L, h, i)) = n
  <2>. HIDE DEF ks, n
  <2>. QED
    BY <1>3, <1>4, <1>5
<1>7. Walk(L, h) = [j \in 1..(n - 1) |-> Meets(L, h, j)]
  BY <1>6 DEF Walk
<1>8. n - 1 = Len(q) /\ \A j \in 1..Len(q) : j \in 0..n
  BY <1>1
<1>9. Walk(L, h) = [j \in 1..Len(q) |-> q[j]]
  BY <1>1, <1>2, <1>7, <1>8
<1>10. q = [j \in 1..Len(q) |-> q[j]]
  OBVIOUS
<1>11. IsRing(L, h, S)
  BY <1>1, <1>2, <1>3, <1>4, <1>8 DEF IsRing
<1>12. IsEmptyQueue(L, h) <=> q = <<>>
  <2>1. L.next[h] = Node(h, q, 1)
    BY <1>1, NodeFacts DEF Ring
  <2>2. CASE q = <<>>
    BY <2>1, <2>2 DEF Node, IsEmptyQueue
  <2>3. CASE q # <<>>
    <3>1. 1 \in 1..Len(q)
      BY <1>1, <2>3, EmptySeq
    <3>. QED
      BY <1>1, <2>1, <2>3, <3>1 DEF IsEmptyQueue
  <2>. QED
    BY <2>2, <2>3
<1>. QED
  BY <1>9, <1>10, <1>11, <1>12

\* A walk from h that first comes back after k steps is these k - 1 links.
LEMMA WalkIs ==
  ASSUME NEW D, IsFiniteSet(D), NEW L, IsMemory(D, L), NEW h,
         NEW k \in 1..Cardinality(D), Closes(L, h, k)
  PROVE  Walk(L, h) = [j \in 1..(k - 1) |-> Meets(L, h, j)]
<1>. DEFINE ks == 1..Cardinality(DOMAIN L.next)
<1>1. Cardinality(D) \in Nat /\ DOMAIN L.next = D
  BY FS_CardinalityType DEF IsMemory
<1>2. k \in ks /\ k \in Nat
  BY <1>1
<1>3. ASSUME NEW i \in ks, Closes(L, h, i) PROVE i = k
  <2>1. i \in Nat /\ i >= 1
    BY <1>1
  <2>2. CASE i < k
    <3>1. i \in 1..(k - 1)
      BY <1>2, <2>1, <2>2
    <3>. QED
      BY <1>3, <3>1 DEF Closes
  <2>3. CASE i > k
    <3>1. k \in 1..(i - 1)
      BY <1>2, <2>1, <2>3
    <3>. QED
      BY <1>3, <3>1 DEF Closes
  <2>. QED
    BY <1>2, <2>1, <2>2, <2>3
<1>4. (CHOOSE i \in ks : Closes(L, h, i)) = k
  <2>. HIDE DEF ks
  <2>. QED
    BY <1>2, <1>3
<1>. QED
  BY <1>4 DEF Walk

\* The links of C lead to links of C.
IsClosed(L, C) == \A x \in C : L.next[x] \in C

LEMMA MeetsInside ==
  ASSUME NEW D, NEW L, IsMemory(D, L), NEW C, C \subseteq D, IsClosed(L, C), NEW h \in C, NEW n \in Nat
  PROVE  Meets(L, h, n) \in C
<1>. DEFINE T == {i \in 0..n : Meets(L, h, i) \in C}
<1>1. /\ Meets(L, h, 0) = h
      /\ \A i \in 0..(n - 1) : Meets(L, h, i + 1) = L.next[Meets(L, h, i)]
  BY MeetsUnfolds
<1>2. 0 \in T
  BY <1>1
<1>3. ASSUME NEW i \in 0..(n - 1), i \in T PROVE i + 1 \in T
  BY <1>1, <1>3 DEF IsClosed
<1>4. 0..n \subseteq T
  <2>. HIDE DEF T
  <2>. QED
    BY <1>2, <1>3, SetInduction
<1>. QED
  BY <1>4

\* The walk along links of C depends on the links of C only.
LEMMA MeetsSame ==
  ASSUME NEW D, NEW L, IsMemory(D, L), NEW M, IsMemory(D, M), NEW C, C \subseteq D, IsClosed(L, C),
         Agree(M, L, C), NEW h \in C, NEW n \in Nat
  PROVE  Meets(M, h, n) = Meets(L, h, n)
<1>. DEFINE T == {i \in 0..n : Meets(M, h, i) = Meets(L, h, i)}
<1>1. /\ Meets(L, h, 0) = h
      /\ \A i \in 0..(n - 1) : Meets(L, h, i + 1) = L.next[Meets(L, h, i)]
  BY MeetsUnfolds
<1>2. /\ Meets(M, h, 0) = h
      /\ \A i \in 0..(n - 1) : Meets(M, h, i + 1) = M.next[Meets(M, h, i)]
  BY MeetsUnfolds
<1>3. 0 \in T
  BY <1>1, <1>2
<1>4. ASSUME NEW i \in 0..(n - 1), i \in T PROVE i + 1 \in T
  <2>1. Meets(L, h, i) \in C
    BY MeetsInside
  <2>. QED
    BY <1>1, <1>2, <1>4, <2>1 DEF Agree
<1>5. 0..n \subseteq T
  <2>. HIDE DEF T
  <2>. QED
    BY <1>3, <1>4, SetInduction
<1>. QED
  BY <1>5

\* What the loops over a queue find: links of the ring, those that the head
\* leads to.
LEMMA WalkInside ==
  ASSUME NEW D, IsFiniteSet(D), NEW L, IsMemory(D, L), NEW S, NEW C, C \subseteq D, IsClosed(L, C),
         NEW h \in C, IsRing(L, h, S)
  PROVE  /\ Walk(L, h) \in Seq(S) /\ Walk(L, h) \in Seq(C)
         /\ IsEmptyQueue(L, h) <=> Walk(L, h) = <<>>
<1>1. DOMAIN L.next = D /\ Cardinality(D) \in Nat
  BY FS_CardinalityType DEF IsMemory
<1>2. PICK k \in 1..Cardinality(D) : Closes(L, h, k) /\ \A j \in 1..(k - 1) : Meets(L, h, j) \in S
  BY <1>1 DEF IsRing
<1>. DEFINE w == [j \in 1..(k - 1) |-> Meets(L, h, j)]
<1>3. Walk(L, h) = w
  BY <1>2, WalkIs
<1>4. k \in Nat /\ k >= 1
  BY <1>1
<1>5. \A j \in 1..(k - 1) : Meets(L, h, j) \in C
  BY <1>4, MeetsInside
<1>6. w \in Seq(S) /\ w \in Seq(C)
  BY <1>2, <1>4, <1>5
<1>7. Len(w) = k - 1
  BY <1>4
<1>8. Meets(L, h, 1) = L.next[h]
  <2>1. /\ Meets(L, h, 0) = h
        /\ \A i \in 0..(1 - 1) : Meets(L, h, i + 1) = L.next[Meets(L, h, i)]
    BY MeetsUnfolds
  <2>. QED
    BY <2>1
<1>. HIDE DEF w
<1>9. CASE k = 1
  BY <1>2, <1>3, <1>6, <1>7, <1>8, <1>9 DEF Closes, IsEmptyQueue
<1>10. CASE k > 1
  <2>1. 1 \in 1..(k - 1)
    BY <1>4, <1>10
  <2>2. L.next[h] # h
    BY <1>2, <1>8, <2>1 DEF Closes
  <2>3. w # <<>>
    BY <1>4, <1>7, <1>10
  <2>. QED
    BY <1>3, <1>6, <2>2, <2>3 DEF IsEmptyQueue
<1>. QED
  BY <1>3, <1>4, <1>6, <1>9, <1>10

LEMMA WalkSame ==
  ASSUME NEW D, IsFiniteSet(D), NEW L, IsMemory(D, L), NEW M, IsMemory(D, M), NEW C, C \subseteq D,
         IsClosed(L, C), Agree(M, L, C), NEW h \in C, NEW S, IsRing(L, h, S)
  PROVE  Walk(M, h) = Walk(L, h)
<1>1. DOMAIN L.next = D /\ Cardinality(D) \in Nat
  BY FS_CardinalityType DEF IsMemory
<1>2. PICK k \in 1..Cardinality(D) : Closes(L, h, k) /\ \A j \in 1..(k - 1) : Meets(L, h, j) \in S
  BY <1>1 DEF IsRing
<1>3. k \in Nat /\ \A j \in 1..k : j \in Nat
  BY <1>1
<1>4. \A j \in Nat : Meets(M, h, j) = Meets(L, h, j)
  BY MeetsSame
<1>5. Closes(M, h, k)
  BY <1>2, <1>3, <1>4 DEF Closes
<1>6. Walk(L, h) = [j \in 1..(k - 1) |-> Meets(L, h, j)]
  BY <1>2, WalkIs
<1>7. Walk(M, h) = [j \in 1..(k - 1) |-> Meets(M, h, j)]
  BY <1>5, WalkIs
<1>8. \A j \in 1..(k - 1) : Meets(M, h, j) = Meets(L, h, j)
  BY <1>3, <1>4
<1>. QED
  BY <1>6, <1>7, <1>8

\* The operations change the links of a memory.
LEMMA MemoryKept ==
  ASSUME NEW D, NEW L, IsMemory(D, L), NEW h \in D, NEW x \in D
  PROVE  /\ IsMemory(D, Emptied(L, h))
         /\ IsMemory(D, Enqueued(L, h, x))
         /\ IsMemory(D, Removed(L, x))
<1>. DEFINE p == L.prev[h]
            b == L.prev[x]
            a == L.next[x]
<1>1. p \in D /\ a \in D /\ b \in D
  BY DEF IsMemory
<1>. HIDE DEF p, a, b
<1>2. IsMemory(D, Emptied(L, h))
  BY DEF IsMemory, Emptied
<1>3. Enqueued(L, h, x) = [next |-> [L.next EXCEPT ![x] = h, ![p] = x], prev |-> [L.prev EXCEPT ![x] = p, ![h] = x]]
  BY DEF Enqueued, p
<1>4. Removed(L, x) = [next |-> [L.next EXCEPT ![b] = a], prev |-> [L.prev EXCEPT ![a] = b]]
  BY DEF Removed, a, b
<1>. QED
  BY <1>1, <1>2, <1>3, <1>4 DEF IsMemory
-----------------------------------------------------------------------------
\* The queue with the head h holds the links of S, which are of C.
Holds(L, h, C, S) == \E q \in Seq(C) : Ring(L, h, q) /\ Items(q) = S

LEMMA HoldsFrame ==
  ASSUME NEW L, NEW h, NEW C, NEW S, Holds(L, h, C, S), NEW M,
         Agree(M, L, {h} \cup S)
  PROVE  Holds(M, h, C, S)
BY RingFrame DEF Holds

LEMMA HoldsNone ==
  ASSUME NEW D, NEW L, IsMemory(D, L), NEW h \in D, NEW C
  PROVE  /\ Holds(Emptied(L, h), h, C, {})
         /\ Agree(Emptied(L, h), L, D \ {h})
<1>1. Ring(Emptied(L, h), h, <<>>)
  BY RingEmptied DEF IsMemory
<1>2. Items(<<>>) = {} /\ <<>> \in Seq(C)
  BY DEF Items
<1>3. Holds(Emptied(L, h), h, C, {})
  BY <1>1, <1>2 DEF Holds
<1>4. Agree(Emptied(L, h), L, D \ {h})
  BY DEF Emptied, IsMemory, Agree
<1>. QED
  BY <1>3, <1>4

LEMMA HoldsMore ==
  ASSUME NEW D, NEW C, C \subseteq D, NEW h \in D, NEW L, IsMemory(D, L),
         NEW S, Holds(L, h, C, S), NEW x \in C, x \notin {h} \cup S
  PROVE  /\ Holds(Enqueued(L, h, x), h, C, S \cup {x})
         /\ Agree(Enqueued(L, h, x), L, D \ ({h, x} \cup S))
<1>1. PICK q \in Seq(C) : Ring(L, h, q) /\ Items(q) = S
  BY DEF Holds
<1>2. /\ Ring(Enqueued(L, h, x), h, Append(q, x))
      /\ Agree(Enqueued(L, h, x), L, D \ ({h, x} \cup Items(q)))
  <2>1. x \notin {h} \cup Items(q)
    BY <1>1
  <2>. QED
    BY <1>1, <2>1, RingEnqueued, Zenon
<1>3. Append(q, x) \in Seq(C) /\ Items(Append(q, x)) = S \cup {x}
  BY <1>1, EnqueueItems
<1>. QED
  BY <1>1, <1>2, <1>3 DEF Holds

LEMMA HoldsLess ==
  ASSUME NEW D, NEW C, C \subseteq D, NEW h \in D, NEW L, IsMemory(D, L),
         NEW S, Holds(L, h, C, S), NEW x \in S
  PROVE  /\ Holds(Removed(L, x), h, C, S \ {x})
         /\ Agree(Removed(L, x), L, D \ ({h} \cup S))
<1>1. PICK q \in Seq(C) : Ring(L, h, q) /\ Items(q) = S
  BY DEF Holds
<1>2. /\ Ring(Removed(L, x), h, Without(q, x))
      /\ Agree(Removed(L, x), L, D \ ({h} \cup Items(q)))
  <2>1. x \in Items(q)
    BY <1>1
  <2>. QED
    BY <1>1, <2>1, RingRemoved, Zenon
<1>3. Without(q, x) \in Seq(C) /\ Items(Without(q, x)) = S \ {x}
  BY <1>1, WithoutItems, WithoutType DEF Ring
<1>. QED
  BY <1>1, <1>2, <1>3 DEF Holds

\* What a loop over the queue finds.
LEMMA HoldsWalk ==
  ASSUME NEW D, IsFiniteSet(D), NEW C, C \subseteq D, NEW h \in D, NEW L, IsMemory(D, L),
         NEW S, Holds(L, h, C, S)
  PROVE  /\ Walk(L, h) \in Seq(C) /\ Distinct(Walk(L, h)) /\ Items(Walk(L, h)) = S
         /\ IsFiniteSet(S) /\ Cardinality(S) = Len(Walk(L, h))
         /\ \A B : C \subseteq B => IsRing(L, h, B)
         /\ IsEmptyQueue(L, h) <=> S = {}
         /\ L.prev[h] \in {h} \cup S
         /\ S \subseteq C /\ h \notin S
<1>1. PICK q \in Seq(C) : Ring(L, h, q) /\ Items(q) = S
  BY DEF Holds
<1>2. /\ Walk(L, h) = q
      /\ IsRing(L, h, C)
      /\ IsEmptyQueue(L, h) <=> q = <<>>
  BY <1>1, RingWalk
<1>3. IsFiniteSet(Items(q)) /\ Cardinality(Items(q)) = Len(q)
  BY <1>1, ItemsCount DEF Ring
<1>4. \A B : C \subseteq B => IsRing(L, h, B)
  BY <1>2 DEF IsRing
<1>5. S = {} <=> q = <<>>
  <2>1. q # <<>> => q[1] \in Items(q)
    <3>1. Len(q) \in Nat /\ (q # <<>> => Len(q) # 0)
      BY EmptySeq
    <3>. QED
      BY <3>1 DEF Items
  <2>2. Items(<<>>) = {}
    BY DEF Items
  <2>. QED
    BY <1>1, <2>1, <2>2
<1>6. L.prev[h] \in {h} \cup S
  <2>1. /\ Len(q) \in Nat
        /\ Node(h, q, 0) = h /\ Node(h, q, Len(q) + 1) = h
        /\ \A i \in 1..Len(q) : Node(h, q, i) = q[i] /\ q[i] \in Items(q) /\ q[i] \in C
        /\ \A i : Node(h, q, i) \in {h} \cup Items(q)
    BY NodeFacts, Zenon
  <2>2. L.prev[Node(h, q, Len(q) + 1)] = Node(h, q, Len(q))
    BY <1>1, <2>1 DEF Ring
  <2>. QED
    BY <1>1, <2>1, <2>2
<1>7. S \subseteq C /\ h \notin S
  <2>1. \A i \in 1..Len(q) : q[i] \in C
    OBVIOUS
  <2>. QED
    BY <1>1, <2>1 DEF Ring, Items
<1>8. Distinct(q)
  BY <1>1 DEF Ring
<1>. QED
  BY <1>1, <1>2, <1>3, <1>4, <1>5, <1>6, <1>7, <1>8
===============================================================================
