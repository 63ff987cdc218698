------------------------------ MODULE IpcProofs ------------------------------
(***************************************************************************)
(* Theorems about the messages of Ipc.                                     *)
(***************************************************************************)
EXTENDS Ipc, PrexQueueProofs

LEMMA LinkFacts ==
  /\ \A o \in Object : /\ Sendq(o) \in Links /\ Sendq(o) \notin Thread /\ Sendq(o) # None
                       /\ Recvq(o) \in Links /\ Recvq(o) \notin Thread /\ Recvq(o) # None
  /\ \A o, p : Sendq(o) # Recvq(p) /\ (Sendq(o) = Sendq(p) => o = p) /\ (Recvq(o) = Recvq(p) => o = p)
  /\ Thread \subseteq Links /\ None \in Links /\ None \notin Thread /\ None \notin Object
<1>1. \A o, p : Sendq(o) # Recvq(p) /\ (Sendq(o) = Sendq(p) => o = p) /\ (Recvq(o) = Recvq(p) => o = p)
  BY DEF Sendq, Recvq
<1>2. \A o \in Object : Sendq(o) \in Heads /\ Recvq(o) \in Heads
  BY DEF Heads
<1>. QED
  BY <1>1, <1>2, IpcAssumption, IpcLinks DEF Links

LEMMA LinksFinite == IsFiniteSet(Links)
<1>. DEFINE S == {Sendq(o) : o \in Object}
            R == {Recvq(o) : o \in Object}
            f == [o \in Object |-> Sendq(o)]
            g == [o \in Object |-> Recvq(o)]
<1>1. IsFiniteSet(S)
  <2>1. f \in Surjection(Object, S)
    BY DEF Surjection
  <2>. QED
    BY <2>1, FS_Surjection, IpcFinite
<1>2. IsFiniteSet(R)
  <2>1. g \in Surjection(Object, R)
    BY DEF Surjection
  <2>. QED
    BY <2>1, FS_Surjection, IpcFinite
<1>. QED
  BY <1>1, <1>2, FS_Union, FS_AddElement, IpcFinite, Zenon DEF Links, Heads
-----------------------------------------------------------------------------
\* Clients that are not interrupted and not terminated, and serve nobody, before
\* servers of which any may be interrupted and terminated.

SteadyClients == Client \cap (Server \cup Interruptible \cup Killable) = {}

\* The links of the clients and of the send queues, and the others, which an
\* interrupted or terminated receiver may ruin.
SendSide == Client \cup {Sendq(o) : o \in Object}
OtherSide == Links \ SendSide

Apart(L) == \A x \in OtherSide : L.next[x] \in OtherSide /\ L.prev[x] \in OtherSide

LEMMA SideFacts ==
  ASSUME SteadyClients
  PROVE  /\ \A o \in Object : Sendq(o) \notin OtherSide /\ Recvq(o) \in OtherSide
         /\ \A c \in Client : c \in Thread /\ c \in Links /\ c \notin OtherSide /\ c \notin Server
                              /\ c \notin Interruptible /\ c \notin Killable
         /\ \A t \in Thread : t \in Links /\ (t \notin Client => t \in OtherSide)
         /\ None \in OtherSide /\ OtherSide \subseteq Links
         /\ \A o \in Object : Sendq(o) \notin Client
<1>1. \A c \in Client : c \in Thread
  BY IpcAssumption
<1>. QED
  BY <1>1, LinkFacts DEF SteadyClients, SendSide, OtherSide

LEMMA ApartClosed ==
  ASSUME NEW L, Apart(L)
  PROVE  IsClosed(L, OtherSide)
BY DEF Apart, IsClosed

\* Operations on the other side stay there.
LEMMA OtherOperations ==
  ASSUME NEW L, IsMemory(Links, L), Apart(L), NEW x \in OtherSide, NEW h \in OtherSide, NEW M,
         M \in {Emptied(L, h), Enqueued(L, h, x), Removed(L, x)}
  PROVE  /\ Apart(M) /\ IsMemory(Links, M)
         /\ Agree(M, L, Links \ OtherSide)
<1>. DEFINE p == L.prev[h]
            b == L.prev[x]
            a == L.next[x]
<1>1. p \in OtherSide /\ a \in OtherSide /\ b \in OtherSide
  BY DEF Apart
<1>2. x \in Links /\ h \in Links
  BY DEF OtherSide
<1>3. OtherSide \subseteq Links
  BY DEF OtherSide
<1>. HIDE DEF p, a, b
<1>4. IsMemory(Links, M)
  BY <1>2, MemoryKept
<1>5. CASE M = Emptied(L, h)
  BY <1>1, <1>2, <1>3, <1>4, <1>5 DEF IsMemory, Emptied, Apart, Agree
<1>6. CASE M = Enqueued(L, h, x)
  <2>1. M = [next |-> [L.next EXCEPT ![x] = h, ![p] = x], prev |-> [L.prev EXCEPT ![x] = p, ![h] = x]]
    BY <1>6 DEF Enqueued, p
  <2>. QED
    BY <1>1, <1>2, <1>3, <1>4, <2>1 DEF IsMemory, Apart, Agree
<1>7. CASE M = Removed(L, x)
  <2>1. M = [next |-> [L.next EXCEPT ![b] = a], prev |-> [L.prev EXCEPT ![a] = b]]
    BY <1>7 DEF Removed, a, b
  <2>. QED
    BY <1>1, <1>2, <1>3, <1>4, <2>1 DEF IsMemory, Apart, Agree
<1>. QED
  BY <1>5, <1>6, <1>7

LEMMA ApartKept ==
  ASSUME NEW L, Apart(L), NEW M, Agree(M, L, OtherSide)
  PROVE  Apart(M)
BY DEF Apart, Agree

\* The messages that wait in the send queue of o.
Unreceived(o) == {c \in asleep : pc[c] = "send" /\ sendobj[c] = o /\ receiver[c] = None}

\* What the threads do and name.
Roles ==
  /\ TypeOK
  /\ \A t \in asleep : pc[t] \in {"send", "recv"}
  /\ \A c \in Client : pc[c] \in {"user", "send"} /\ recvobj[c] = None /\ sender[c] = None
  /\ \A t \in Thread : pc[t] = "send" => t \in Client /\ sendobj[t] # None
  /\ \A t \in Thread : pc[t] = "recv" => t \in Server
  /\ \A t \in Thread \ Client : sendobj[t] = None /\ receiver[t] = None
  /\ \A t \in Thread : sender[t] # None => sender[t] \in Client

\* HandledByLive, and what the handler is at.
Handled ==
  \A c \in asleep : pc[c] = "send" /\ receiver[c] # None =>
    /\ pc[receiver[c]] = "user" /\ sender[receiver[c]] = c
    /\ recvobj[receiver[c]] = sendobj[c] /\ progress[c] = receiver[c]

\* The same from the handler's side.
Handling ==
  \A t \in Thread : pc[t] # "dead" /\ sender[t] # None =>
    /\ sender[t] \in asleep /\ pc[sender[t]] = "send" /\ receiver[sender[t]] = t

\* A client whose msg_send() is over has no receiver, and was answered if it succeeds.
Ended ==
  \A c \in Client \ asleep :
    /\ receiver[c] = None /\ slpret[c] # "INTR"
    /\ pc[c] = "send" /\ slpret[c] = "OK" => progress[c] = "replied"

\* A message waits only for an object that exists, and in its queue.
Placed ==
  \A c \in asleep : pc[c] = "send" /\ receiver[c] = None => sendobj[c] \in valid

SendQueues == \A o \in valid : Holds(links, Sendq(o), Client, Unreceived(o))

Sound == Handling /\ Ended /\ Placed /\ Apart(links) /\ SendQueues

FaultInv == Roles /\ Handled /\ (broken = {} => Sound)

LEMMA FaultInit ==
  ASSUME SteadyClients, Init
  PROVE  FaultInv
<1>1. TypeOK
  <2>1. links \in [next : [Links -> Links], prev : [Links -> Links]]
    BY LinkFacts DEF Init
  <2>. QED
    BY <2>1 DEF Init, TypeOK
<1>2. Roles
  BY <1>1, SideFacts DEF Init, Roles
<1>3. Handled
  BY DEF Init, Handled
<1>4. Handling /\ Ended /\ Placed /\ SendQueues
  BY SideFacts DEF Init, Handling, Ended, Placed, SendQueues
<1>5. Apart(links)
  BY SideFacts DEF Init, Apart
<1>. QED
  BY <1>2, <1>3, <1>4, <1>5 DEF FaultInv, Sound

\* What follows for the threads and the queues while the kernel is sound.
LEMMA FaultFacts ==
  ASSUME SteadyClients, FaultInv, broken = {}
  PROVE  /\ TypeOK /\ IsMemory(Links, links) /\ Sound /\ Roles /\ Handled
         /\ \A o \in valid : /\ o \in Object
                             /\ Walk(links, Sendq(o)) \in Seq(Client)
                             /\ Distinct(Queued(Sendq(o)))
                             /\ Items(Queued(Sendq(o))) = Unreceived(o)
                             /\ IsRing(links, Sendq(o), Thread)
                             /\ IsEmptyQueue(links, Sendq(o)) <=> Unreceived(o) = {}
                             /\ links.prev[Sendq(o)] \in {Sendq(o)} \cup Unreceived(o)
                             /\ Unreceived(o) \subseteq Client
                             /\ WalkBreaks(Sendq(o)) = {}
                             /\ EnqueueBreaks(Sendq(o)) = {}
<1>1. TypeOK /\ Sound /\ Roles /\ Handled
  BY DEF FaultInv, Roles
<1>2. IsMemory(Links, links)
  BY <1>1 DEF TypeOK, IsMemory
<1>. SUFFICES ASSUME NEW o \in valid
              PROVE  /\ o \in Object
                     /\ Walk(links, Sendq(o)) \in Seq(Client)
                     /\ Distinct(Queued(Sendq(o)))
                     /\ Items(Queued(Sendq(o))) = Unreceived(o)
                     /\ IsRing(links, Sendq(o), Thread)
                     /\ IsEmptyQueue(links, Sendq(o)) <=> Unreceived(o) = {}
                     /\ links.prev[Sendq(o)] \in {Sendq(o)} \cup Unreceived(o)
                     /\ Unreceived(o) \subseteq Client
                     /\ WalkBreaks(Sendq(o)) = {}
                     /\ EnqueueBreaks(Sendq(o)) = {}
  BY <1>1, <1>2
<1>3. o \in Object /\ Holds(links, Sendq(o), Client, Unreceived(o))
  BY <1>1 DEF TypeOK, Sound, SendQueues
<1>4. Sendq(o) \in Links /\ Client \subseteq Links /\ Client \subseteq Thread /\ Sendq(o) \notin Thread
  BY <1>3, LinkFacts, SideFacts
<1>5. /\ Walk(links, Sendq(o)) \in Seq(Client) /\ Distinct(Walk(links, Sendq(o)))
      /\ Items(Walk(links, Sendq(o))) = Unreceived(o)
      /\ IsFiniteSet(Unreceived(o)) /\ Cardinality(Unreceived(o)) = Len(Walk(links, Sendq(o)))
      /\ \A B : Client \subseteq B => IsRing(links, Sendq(o), B)
      /\ IsEmptyQueue(links, Sendq(o)) <=> Unreceived(o) = {}
      /\ links.prev[Sendq(o)] \in {Sendq(o)} \cup Unreceived(o)
      /\ Unreceived(o) \subseteq Client /\ Sendq(o) \notin Unreceived(o)
  <2>. DEFINE S == Unreceived(o)
              h == Sendq(o)
              L == links
              D == Links
  <2>1. /\ IsFiniteSet(D) /\ Client \subseteq D /\ h \in D /\ IsMemory(D, L)
        /\ Holds(L, h, Client, S)
    BY <1>2, <1>3, <1>4, LinksFinite
  <2>. HIDE DEF S, h, L, D
  <2>2. /\ Walk(L, h) \in Seq(Client) /\ Distinct(Walk(L, h)) /\ Items(Walk(L, h)) = S
        /\ IsFiniteSet(S) /\ Cardinality(S) = Len(Walk(L, h))
        /\ \A B : Client \subseteq B => IsRing(L, h, B)
        /\ IsEmptyQueue(L, h) <=> S = {}
        /\ L.prev[h] \in {h} \cup S
        /\ S \subseteq Client /\ h \notin S
    BY <2>1, HoldsWalk
  <2>. QED
    BY <2>2 DEF S, h, L, D
<1>6. IsRing(links, Sendq(o), Thread)
  BY <1>4, <1>5
<1>7. \A c \in Unreceived(o) : pc[c] # "dead"
  BY DEF Unreceived
<1>8. WalkBreaks(Sendq(o)) = {}
  BY <1>5, <1>6, <1>7 DEF WalkBreaks, UseBreaks, Queued
<1>9. EnqueueBreaks(Sendq(o)) = {}
  BY <1>4, <1>5, <1>7 DEF EnqueueBreaks, UseBreaks
<1>. QED
  BY <1>3, <1>5, <1>6, <1>8, <1>9 DEF Queued

LEMMA SendQueueKept ==
  ASSUME SteadyClients, NEW o \in Object, NEW L, NEW M, NEW S, S \subseteq Client,
         Holds(L, Sendq(o), Client, S), Agree(M, L, Links \ OtherSide)
  PROVE  Holds(M, Sendq(o), Client, S)
<1>1. {Sendq(o)} \cup S \subseteq Links \ OtherSide
  BY SideFacts, LinkFacts
<1>2. Agree(M, L, {Sendq(o)} \cup S)
  BY <1>1 DEF Agree
<1>. QED
  BY <1>2, HoldsFrame

\* The best of the senders is one of them.
LEMMA TopWaits ==
  ASSUME SteadyClients, FaultInv, broken = {}, NEW o \in valid, ~IsEmptyQueue(links, Sendq(o))
  PROVE  Top(Sendq(o)) \in Unreceived(o)
<1>. DEFINE w == Queued(Sendq(o))
<1>1. w \in Seq(Client) /\ Items(w) = Unreceived(o) /\ Unreceived(o) # {}
  BY FaultFacts DEF Queued
<1>. HIDE DEF w
<1>2. w # <<>>
  BY <1>1 DEF Items
<1>3. Client \subseteq Thread
  BY IpcAssumption
<1>4. w \in Seq(Thread)
  BY <1>1, <1>3
<1>5. FirstBest(w, Priority) \in Items(w)
  BY <1>2, <1>4, IpcAssumption, FirstBestItem
<1>. QED
  BY <1>1, <1>5 DEF Top, w

\* What can be walked of a receive queue is no client.
LEMMA TopReceives ==
  ASSUME SteadyClients, FaultInv, broken = {}, NEW o \in Object, WalkBreaks(Recvq(o)) = {}
  PROVE  /\ IsRing(links, Recvq(o), Thread)
         /\ Items(Queued(Recvq(o))) \subseteq Thread \ Client
         /\ ~IsEmptyQueue(links, Recvq(o)) => Top(Recvq(o)) \in Thread \ Client
<1>. DEFINE w == Queued(Recvq(o))
<1>1. IsRing(links, Recvq(o), Thread)
  BY DEF WalkBreaks
<1>2. IsMemory(Links, links) /\ IsClosed(links, OtherSide)
  BY FaultFacts, ApartClosed DEF Sound
<1>3. Recvq(o) \in OtherSide /\ OtherSide \subseteq Links
  BY SideFacts
<1>4. /\ Walk(links, Recvq(o)) \in Seq(Thread) /\ Walk(links, Recvq(o)) \in Seq(OtherSide)
      /\ IsEmptyQueue(links, Recvq(o)) <=> Walk(links, Recvq(o)) = <<>>
  BY <1>1, <1>2, <1>3, LinksFinite, WalkInside
<1>5. w \in Seq(Thread) /\ w \in Seq(OtherSide)
  BY <1>4 DEF Queued
<1>6. ~IsEmptyQueue(links, Recvq(o)) => w # <<>>
  BY <1>4 DEF Queued
<1>. HIDE DEF w
<1>7. Items(w) \subseteq Thread /\ Items(w) \subseteq OtherSide
  BY <1>5, ElementOfSeq DEF Items
<1>8. Items(w) \subseteq Thread \ Client
  BY <1>7, SideFacts
<1>9. w # <<>> => FirstBest(w, Priority) \in Items(w)
  BY <1>5, IpcAssumption, FirstBestItem
<1>. QED
  BY <1>1, <1>6, <1>8, <1>9 DEF Top, w
-----------------------------------------------------------------------------
LEMMA FaultCreate ==
  ASSUME SteadyClients, FaultInv, NEW t \in Thread, NEW o \in Object, ObjectCreate(t, o)
  PROVE  FaultInv'
<1>. DEFINE L1 == Emptied(links, Sendq(o))
            L2 == Emptied(L1, Recvq(o))
<1>0. /\ broken = {} /\ o \notin valid /\ valid' = valid \cup {o} /\ links' = L2
      /\ UNCHANGED <<pc, asleep, slpret, sendobj, recvobj, sender, receiver, progress, broken>>
  BY DEF ObjectCreate, Calls, partners
<1>1. /\ TypeOK /\ Roles /\ Handled /\ Handling /\ Ended /\ Placed
      /\ IsMemory(Links, links) /\ Apart(links) /\ SendQueues
      /\ valid \subseteq Object /\ \A p \in valid : Unreceived(p) \subseteq Client
  BY <1>0, FaultFacts DEF Sound, TypeOK
<1>2. /\ IsMemory(Links, L1) /\ Holds(L1, Sendq(o), Client, {})
      /\ Agree(L1, links, Links \ {Sendq(o)})
  BY <1>1, LinkFacts, MemoryKept, HoldsNone
<1>3. Apart(L1)
  <2>1. Agree(L1, links, OtherSide)
    BY <1>2, SideFacts DEF Agree
  <2>. QED
    BY <1>1, <2>1, ApartKept
<1>4. Apart(L2) /\ IsMemory(Links, L2) /\ Agree(L2, L1, Links \ OtherSide)
  BY <1>2, <1>3, SideFacts, OtherOperations
<1>5. ASSUME NEW p \in valid PROVE Holds(L2, Sendq(p), Client, Unreceived(p))
  <2>1. Holds(links, Sendq(p), Client, Unreceived(p)) /\ Unreceived(p) \subseteq Client /\ p \in Object
    BY <1>1 DEF SendQueues
  <2>2. Sendq(p) # Sendq(o) /\ Sendq(p) \in Links /\ Sendq(o) \notin Client /\ Client \subseteq Links
    BY <1>0, <2>1, LinkFacts, SideFacts
  <2>3. Agree(L1, links, {Sendq(p)} \cup Unreceived(p))
    BY <1>2, <2>1, <2>2 DEF Agree
  <2>4. Holds(L1, Sendq(p), Client, Unreceived(p))
    BY <2>1, <2>3, HoldsFrame
  <2>. QED
    BY <1>4, <2>1, <2>4, SendQueueKept
<1>6. Holds(L2, Sendq(o), Client, {})
  BY <1>2, <1>4, SendQueueKept
<1>7. \A p : Unreceived(p)' = Unreceived(p)
  BY <1>0 DEF Unreceived
<1>8. Unreceived(o) = {}
  BY <1>0, <1>1 DEF Placed, Unreceived
<1>9. SendQueues'
  BY <1>0, <1>5, <1>6, <1>7, <1>8 DEF SendQueues
<1>10. TypeOK'
  <2>1. links' \in [next : [Links -> Links], prev : [Links -> Links]]
    BY <1>0, <1>1, LinkFacts DEF TypeOK, Emptied
  <2>. QED
    BY <1>0, <1>1, <2>1 DEF TypeOK
<1>11. Roles' /\ Handled' /\ Handling' /\ Ended'
  BY <1>0, <1>1, <1>10 DEF Roles, Handled, Handling, Ended
<1>12. Placed' /\ Apart(links)'
  BY <1>0, <1>1, <1>4 DEF Placed
<1>. QED
  BY <1>9, <1>11, <1>12 DEF FaultInv, Sound

\* msg_abort() changes the links of one queue only.
LEMMA AbortedLinks ==
  ASSUME NEW L, IsMemory(Links, L), NEW h \in Links
  PROVE  /\ IsMemory(Links, Aborted(L, h))
         /\ Agree(Aborted(L, h), L, Links \ ({h} \cup Items(Walk(L, h))))
         /\ \A x \in Links : /\ Aborted(L, h).next[x] \in {h, L.next[x]}
                             /\ Aborted(L, h).prev[x] \in {h, L.prev[x]}
<1>. DEFINE w == Walk(L, h)
<1>1. \A x : InQueue(x, w) <=> x \in Items(w)
  BY InQueueItems
<1>2. Aborted(L, h) = [next |-> [L.next EXCEPT ![h] = h],
                       prev |-> [x \in Links |-> IF x = h \/ InQueue(x, w) THEN h ELSE L.prev[x]]]
  BY DEF Aborted
<1>. HIDE DEF w
<1>3. IsMemory(Links, Aborted(L, h))
  BY <1>2 DEF IsMemory
<1>4. Agree(Aborted(L, h), L, Links \ ({h} \cup Items(w)))
  BY <1>1, <1>2 DEF IsMemory, Agree
<1>5. \A x \in Links : /\ Aborted(L, h).next[x] \in {h, L.next[x]}
                       /\ Aborted(L, h).prev[x] \in {h, L.prev[x]}
  BY <1>2 DEF IsMemory
<1>. QED
  BY <1>3, <1>4, <1>5 DEF w

LEMMA FaultDestroy ==
  ASSUME SteadyClients, FaultInv, NEW t \in Thread, NEW o \in Object, ObjectDestroy(t, o)
  PROVE  FaultInv'
<1>0. /\ broken = {} /\ o \in valid /\ valid' = valid \ {o}
      /\ broken' = WalkBreaks(Sendq(o)) \cup WalkBreaks(Recvq(o))
      /\ UNCHANGED <<pc, sendobj, recvobj, sender, receiver, progress>>
  BY DEF ObjectDestroy, Calls, partners
<1>1. /\ TypeOK /\ Roles /\ Handled /\ Handling /\ Ended /\ Placed
      /\ IsMemory(Links, links) /\ Apart(links) /\ SendQueues
      /\ valid \subseteq Object /\ \A p \in valid : Unreceived(p) \subseteq Client
      /\ Items(Queued(Sendq(o))) = Unreceived(o) /\ WalkBreaks(Sendq(o)) = {}
  BY <1>0, FaultFacts DEF Sound, TypeOK
<1>2. broken' \in SUBSET {"link", "object", "thread", "panic"} /\ valid' \subseteq Object
  BY <1>0, <1>1 DEF WalkBreaks, UseBreaks
<1>3. CASE broken' # {}
  <2>1. UNCHANGED <<links, asleep, slpret>>
    BY <1>3 DEF ObjectDestroy
  <2>2. Roles' /\ Handled'
    BY <1>0, <1>1, <1>2, <2>1 DEF Roles, TypeOK, Handled
  <2>. QED
    BY <1>3, <2>2 DEF FaultInv
<1>4. CASE broken' = {}
  <2>. DEFINE R == Items(Queued(Recvq(o)))
              W == Unreceived(o) \cup R
              L1 == Aborted(links, Sendq(o))
              L2 == Aborted(L1, Recvq(o))
  <2>1. /\ links' = L2 /\ asleep' = asleep \ W
        /\ slpret' = [u \in Thread |-> IF u \in W \cap asleep THEN "INVAL" ELSE slpret[u]]
    BY <1>1, <1>4 DEF ObjectDestroy, Unsleep, AbortWakes
  <2>2. IsRing(links, Recvq(o), Thread) /\ R \subseteq Thread \ Client
    BY <1>0, <1>1, <1>4, TopReceives
  <2>3. /\ IsMemory(Links, L1)
        /\ Agree(L1, links, Links \ ({Sendq(o)} \cup Unreceived(o)))
    <3>1. Items(Walk(links, Sendq(o))) = Unreceived(o)
      BY <1>1 DEF Queued
    <3>2. Sendq(o) \in Links
      BY LinkFacts
    <3>. QED
      BY <1>1, <3>1, <3>2, AbortedLinks
  <2>4. Agree(L1, links, OtherSide) /\ Apart(L1)
    <3>1. OtherSide \subseteq Links \ ({Sendq(o)} \cup Unreceived(o))
      BY <1>0, <1>1, SideFacts
    <3>2. Agree(L1, links, OtherSide)
      BY <2>3, <3>1 DEF Agree
    <3>. QED
      BY <1>1, <3>2, ApartKept
  <2>5. Walk(L1, Recvq(o)) = Walk(links, Recvq(o))
    <3>1. IsClosed(links, OtherSide) /\ OtherSide \subseteq Links /\ Recvq(o) \in OtherSide
      BY <1>1, ApartClosed, SideFacts
    <3>. QED
      BY <1>1, <2>2, <2>3, <2>4, <3>1, LinksFinite, WalkSame
  <2>6. /\ IsMemory(Links, L2) /\ Agree(L2, L1, Links \ ({Recvq(o)} \cup R))
        /\ \A x \in Links : /\ L2.next[x] \in {Recvq(o), L1.next[x]}
                            /\ L2.prev[x] \in {Recvq(o), L1.prev[x]}
    <3>1. Items(Walk(L1, Recvq(o))) = R
      BY <2>5 DEF Queued
    <3>2. Recvq(o) \in Links
      BY LinkFacts
    <3>. QED
      BY <2>3, <3>1, <3>2, AbortedLinks
  <2>. HIDE DEF L1, L2
  <2>7. Apart(L2) /\ Agree(L2, L1, Links \ OtherSide)
    <3>1. Recvq(o) \in OtherSide /\ R \subseteq OtherSide /\ OtherSide \subseteq Links
      BY <2>2, SideFacts
    <3>2. Apart(L2)
      BY <2>4, <2>6, <3>1 DEF Apart
    <3>. QED
      BY <2>6, <3>1, <3>2 DEF Agree
  <2>. HIDE DEF R
  <2>8. ASSUME NEW p \in valid' PROVE Holds(L2, Sendq(p), Client, Unreceived(p))
    <3>1. p \in valid /\ p # o /\ p \in Object /\ Unreceived(p) \subseteq Client
          /\ Holds(links, Sendq(p), Client, Unreceived(p))
      BY <1>0, <1>1 DEF SendQueues
    <3>2. {Sendq(p)} \cup Unreceived(p) \subseteq Links \ ({Sendq(o)} \cup Unreceived(o))
      BY <1>0, <1>1, <3>1, LinkFacts, SideFacts DEF Unreceived
    <3>3. Holds(L1, Sendq(p), Client, Unreceived(p))
      <4>1. Agree(L1, links, {Sendq(p)} \cup Unreceived(p))
        BY <2>3, <3>2 DEF Agree
      <4>. QED
        BY <3>1, <4>1, HoldsFrame
    <3>. QED
      BY <2>7, <3>1, <3>3, SendQueueKept
  <2>9. SendQueues'
    <3>1. ASSUME NEW p \in valid' PROVE Unreceived(p)' = Unreceived(p)
      <4>1. p \in valid /\ p # o /\ Unreceived(p) \cap W = {}
        BY <1>0, <1>1, <2>2 DEF Unreceived
      <4>. QED
        BY <1>0, <2>1, <4>1 DEF Unreceived
    <3>. QED
      BY <2>1, <2>8, <3>1 DEF SendQueues
  <2>10. TypeOK'
    <3>1. links' \in [next : [Links -> Links], prev : [Links -> Links]]
      <4>1. links' = [next |-> links'.next, prev |-> links'.prev]
        BY <2>1 DEF L2, Aborted
      <4>. QED
        BY <2>1, <2>6, <4>1 DEF IsMemory
    <3>. QED
      BY <1>0, <1>1, <1>2, <2>1, <3>1 DEF TypeOK
  <2>11. Roles' /\ Handled'
    BY <1>0, <1>1, <2>1, <2>10 DEF Roles, Handled
  <2>12. Handling'
    <3>1. ASSUME NEW u \in Thread, pc[u] # "dead", sender[u] # None PROVE sender[u] \notin W
      BY <1>1, <2>2, <3>1, LinkFacts DEF Handling, Roles, Unreceived
    <3>. QED
      BY <1>0, <1>1, <2>1, <3>1 DEF Handling
  <2>13. Ended'
    <3>1. \A c \in Client \ asleep' : c \in Thread /\ (c \notin asleep \/ c \in Unreceived(o))
      BY <2>1, <2>2, SideFacts
    <3>. QED
      BY <1>0, <1>1, <2>1, <3>1 DEF Ended, Unreceived
  <2>14. Placed'
    BY <1>0, <1>1, <2>1 DEF Placed, Unreceived
  <2>. QED
    BY <2>1, <2>7, <2>9, <2>11, <2>12, <2>13, <2>14 DEF FaultInv, Sound
<1>. QED
  BY <1>3, <1>4

LEMMA FaultSend ==
  ASSUME SteadyClients, FaultInv, NEW t \in Thread, NEW o \in Object, Send(t, o)
  PROVE  FaultInv'
<1>0. /\ broken = {} /\ o \in valid /\ t \in Client /\ pc[t] = "user"
      /\ broken' = WalkBreaks(Recvq(o)) \cup EnqueueBreaks(Sendq(o))
      /\ sendobj' = [sendobj EXCEPT ![t] = o]
      /\ pc' = [pc EXCEPT ![t] = "send"]
      /\ progress' = [progress EXCEPT ![t] = "queued"]
      /\ UNCHANGED <<valid, recvobj, sender, receiver>>
  BY DEF Send, Calls, partners
<1>1. /\ TypeOK /\ Roles /\ Handled /\ Handling /\ Ended /\ Placed
      /\ IsMemory(Links, links) /\ Apart(links) /\ SendQueues
      /\ valid \subseteq Object /\ \A p \in valid : Unreceived(p) \subseteq Client
      /\ EnqueueBreaks(Sendq(o)) = {}
  BY <1>0, FaultFacts DEF Sound, TypeOK
<1>2. broken' \in SUBSET {"link", "object", "thread", "panic"} /\ broken' = WalkBreaks(Recvq(o))
  BY <1>0, <1>1 DEF WalkBreaks, UseBreaks
<1>3. t \notin asleep /\ sender[t] = None /\ receiver[t] = None
  BY <1>0, <1>1 DEF Roles, Ended
<1>4. ASSUME asleep' \subseteq asleep \cup {t} PROVE Handled'
  BY <1>0, <1>1, <1>3, <1>4 DEF Handled, Roles, TypeOK
<1>5. ASSUME TypeOK', asleep' \subseteq asleep \cup {t} PROVE Roles'
  BY <1>0, <1>1, <1>3, <1>5, LinkFacts DEF Roles, TypeOK
<1>6. CASE broken' # {}
  <2>1. UNCHANGED <<links, asleep, slpret>>
    BY <1>6 DEF Send
  <2>2. TypeOK'
    BY <1>0, <1>1, <1>2, <2>1 DEF TypeOK
  <2>. QED
    BY <1>4, <1>5, <1>6, <2>1, <2>2 DEF FaultInv
<1>7. CASE broken' = {}
  <2>. DEFINE W == Woken(o)
              L == IF W = {} THEN links ELSE Removed(links, Top(Recvq(o)))
              M == Enqueued(L, Sendq(o), t)
  <2>1. /\ links' = M /\ asleep' = (asleep \ W) \cup {t}
        /\ slpret' = [u \in Thread |-> IF u \in W \cap asleep THEN "OK" ELSE slpret[u]]
    BY <1>7 DEF Send
  <2>2. W \subseteq Thread \ Client /\ (W # {} => Top(Recvq(o)) \in Thread \ Client)
    BY <1>0, <1>2, <1>7, TopReceives DEF Woken
  <2>3. Apart(L) /\ IsMemory(Links, L) /\ Agree(L, links, Links \ OtherSide)
    <3>1. CASE W = {}
      BY <1>1, <3>1 DEF Agree
    <3>2. CASE W # {}
      <4>1. Top(Recvq(o)) \in OtherSide
        BY <2>2, <3>2, SideFacts
      <4>2. L \in {Emptied(links, Top(Recvq(o))), Enqueued(links, Top(Recvq(o)), Top(Recvq(o))), Removed(links, Top(Recvq(o)))}
        BY <3>2
      <4>. HIDE DEF L
      <4>. QED
        BY <1>1, <4>1, <4>2, OtherOperations
    <3>. QED
      BY <3>1, <3>2
  <2>. HIDE DEF L, W
  <2>4. ASSUME NEW p \in valid PROVE Holds(L, Sendq(p), Client, Unreceived(p))
    <3>1. p \in Object /\ Unreceived(p) \subseteq Client /\ Holds(links, Sendq(p), Client, Unreceived(p))
      BY <1>1 DEF SendQueues
    <3>. QED
      BY <2>3, <3>1, SendQueueKept
  <2>5. Client \subseteq Links /\ Sendq(o) \in Links /\ t \notin {Sendq(o)} \cup Unreceived(o)
    BY <1>0, <1>3, LinkFacts, SideFacts DEF Unreceived
  <2>6. /\ Holds(M, Sendq(o), Client, Unreceived(o) \cup {t})
        /\ Agree(M, L, Links \ ({Sendq(o), t} \cup Unreceived(o)))
        /\ IsMemory(Links, M)
    BY <1>0, <2>3, <2>4, <2>5, HoldsMore, MemoryKept
  <2>. HIDE DEF M
  <2>7. Apart(M)
    <3>1. OtherSide \subseteq Links \ ({Sendq(o), t} \cup Unreceived(o))
      BY <1>0, <1>1, SideFacts
    <3>2. Agree(M, L, OtherSide)
      BY <2>6, <3>1 DEF Agree
    <3>. QED
      BY <2>3, <3>2, ApartKept
  <2>8. ASSUME NEW p \in valid, p # o PROVE Holds(M, Sendq(p), Client, Unreceived(p))
    <3>1. p \in Object /\ Unreceived(p) \subseteq Client
      BY <1>1
    <3>2. {Sendq(p)} \cup Unreceived(p) \subseteq Links \ ({Sendq(o), t} \cup Unreceived(o))
      BY <1>0, <1>1, <1>3, <2>8, <3>1, LinkFacts, SideFacts DEF Unreceived
    <3>3. Agree(M, L, {Sendq(p)} \cup Unreceived(p))
      BY <2>6, <3>2 DEF Agree
    <3>. QED
      BY <2>4, <3>3, HoldsFrame
  <2>9. SendQueues'
    <3>1. Unreceived(o)' = Unreceived(o) \cup {t}
      BY <1>0, <1>1, <1>3, <2>1, <2>2, SideFacts DEF Unreceived, TypeOK
    <3>2. ASSUME NEW p \in valid, p # o PROVE Unreceived(p)' = Unreceived(p)
      <4>1. Unreceived(p) \cap W = {}
        BY <1>1, <2>2
      <4>. QED
        BY <1>0, <1>1, <1>3, <2>1, <3>2, <4>1 DEF Unreceived, TypeOK
    <3>. QED
      BY <1>0, <2>1, <2>6, <2>8, <3>1, <3>2 DEF SendQueues
  <2>10. TypeOK'
    <3>1. links' \in [next : [Links -> Links], prev : [Links -> Links]]
      <4>1. links' = [next |-> links'.next, prev |-> links'.prev]
        BY <2>1 DEF M, Enqueued
      <4>. QED
        BY <2>1, <2>6, <4>1 DEF IsMemory
    <3>. QED
      BY <1>0, <1>1, <1>2, <2>1, <3>1 DEF TypeOK
  <2>11. Roles' /\ Handled'
    BY <1>4, <1>5, <2>1, <2>10
  <2>12. Handling'
    <3>1. ASSUME NEW u \in Thread, pc[u] # "dead", sender[u] # None PROVE sender[u] \notin W /\ u # t /\ sender[u] # t
      BY <1>1, <1>3, <2>2, <3>1 DEF Handling, Roles
    <3>2. ASSUME NEW u \in Thread, pc'[u] # "dead", sender'[u] # None
          PROVE  sender'[u] \in asleep' /\ pc'[sender'[u]] = "send" /\ receiver'[sender'[u]] = u
      <4>1. u # t /\ pc[u] # "dead" /\ sender[u] # None
        BY <1>0, <1>1, <1>3, <3>2 DEF TypeOK
      <4>. QED
        BY <1>0, <1>1, <2>1, <3>1, <4>1 DEF Handling, TypeOK
    <3>. QED
      BY <3>2 DEF Handling
  <2>13. Ended'
    <3>1. \A c \in Client \ asleep' : c \in Thread /\ c \notin asleep /\ c # t
      BY <2>1, <2>2, SideFacts
    <3>. QED
      BY <1>0, <1>1, <2>1, <3>1 DEF Ended, TypeOK
  <2>14. Placed'
    BY <1>0, <1>1, <2>1 DEF Placed, TypeOK
  <2>. QED
    BY <2>1, <2>7, <2>9, <2>11, <2>12, <2>13, <2>14 DEF FaultInv, Sound
<1>. QED
  BY <1>6, <1>7

LEMMA FaultSendReturn ==
  ASSUME SteadyClients, FaultInv, NEW t \in Thread, SendReturn(t)
  PROVE  FaultInv'
<1>0. /\ broken = {} /\ pc[t] = "send" /\ t \notin asleep
      /\ sendobj' = [sendobj EXCEPT ![t] = None]
      /\ pc' = [pc EXCEPT ![t] = "user"]
      /\ UNCHANGED <<valid, asleep, slpret, recvobj, sender, receiver, progress>>
  BY DEF SendReturn, Returns, partners
<1>1. /\ TypeOK /\ Roles /\ Handled /\ Handling /\ Ended /\ Placed
      /\ IsMemory(Links, links) /\ Apart(links) /\ SendQueues
  BY <1>0, FaultFacts DEF Sound
<1>2. t \in Client /\ slpret[t] # "INTR" /\ sender[t] = None
  BY <1>0, <1>1 DEF Roles, Ended
<1>3. UNCHANGED <<links, broken>>
  BY <1>2 DEF SendReturn, LeaveIfInterrupted
<1>4. TypeOK' /\ Roles' /\ Handled'
  BY <1>0, <1>1, <1>2, <1>3 DEF TypeOK, Roles, Handled
<1>5. \A p : Unreceived(p)' = Unreceived(p)
  BY <1>0, <1>1 DEF Unreceived, TypeOK
<1>6. SendQueues'
  BY <1>0, <1>1, <1>3, <1>5 DEF SendQueues
<1>7. Handling'
  BY <1>0, <1>1, <1>2 DEF Handling, TypeOK, Roles
<1>8. Ended' /\ Placed' /\ Apart(links)'
  BY <1>0, <1>1, <1>3 DEF Ended, Placed, TypeOK
<1>. QED
  BY <1>4, <1>6, <1>7, <1>8 DEF FaultInv, Sound
-----------------------------------------------------------------------------
\* t is at the top of the loop of msg_receive(o).
AtReceive(t, o) ==
  /\ broken = {} /\ o \in valid /\ t \in Server /\ t \notin asleep
  /\ \/ pc[t] = "user" /\ recvobj[t] = None
     \/ pc[t] = "recv" /\ recvobj[t] = o

\* It handles no message then.
LEMMA HandlesNone ==
  ASSUME SteadyClients, FaultInv, NEW t \in Thread, NEW o \in Object, AtReceive(t, o)
  PROVE  /\ t \notin Client /\ sender[t] = None /\ t \in OtherSide
         /\ \A c \in asleep : pc[c] = "send" => receiver[c] # t
<1>1. /\ TypeOK /\ Roles /\ Handled /\ Handling
  BY FaultFacts DEF Sound, AtReceive
<1>2. t \notin Client /\ t \in OtherSide
  BY SideFacts DEF AtReceive
<1>3. \A c \in asleep : pc[c] = "send" => receiver[c] # t
  BY <1>1, LinkFacts DEF AtReceive, Handled, Roles, TypeOK
<1>4. sender[t] = None
  BY <1>1, <1>3 DEF AtReceive, Handling
<1>. QED
  BY <1>2, <1>3, <1>4

LEMMA FaultAwait ==
  ASSUME SteadyClients, FaultInv, NEW t \in Thread, NEW o \in Object, AtReceive(t, o),
         AwaitMessage(t, o), UNCHANGED <<valid, slpret, sendobj>>
  PROVE  FaultInv'
<1>. DEFINE M == Enqueued(links, Recvq(o), t)
<1>0. /\ broken = {} /\ broken' = EnqueueBreaks(Recvq(o)) /\ links' = M
      /\ asleep' = asleep \cup {t}
      /\ pc' = [pc EXCEPT ![t] = "recv"]
      /\ recvobj' = [recvobj EXCEPT ![t] = o]
      /\ pc[t] # "send" /\ o \in valid /\ t \in Server
      /\ UNCHANGED <<valid, slpret, sendobj, sender, receiver, progress>>
  BY DEF AwaitMessage, partners, AtReceive
<1>1. /\ TypeOK /\ Roles /\ Handled /\ Handling /\ Ended /\ Placed
      /\ IsMemory(Links, links) /\ Apart(links) /\ SendQueues
      /\ valid \subseteq Object /\ \A p \in valid : Unreceived(p) \subseteq Client
  BY <1>0, FaultFacts DEF Sound, TypeOK
<1>2. /\ t \notin Client /\ sender[t] = None /\ t \in OtherSide
      /\ \A c \in asleep : pc[c] = "send" => receiver[c] # t
  BY HandlesNone
<1>3. Apart(M) /\ IsMemory(Links, M) /\ Agree(M, links, Links \ OtherSide)
  <2>1. Recvq(o) \in OtherSide
    BY SideFacts
  <2>2. M \in {Emptied(links, Recvq(o)), Enqueued(links, Recvq(o), t), Removed(links, t)}
    OBVIOUS
  <2>. HIDE DEF M
  <2>. QED
    BY <1>1, <1>2, <2>1, <2>2, OtherOperations
<1>4. TypeOK'
  <2>1. links' = [next |-> links'.next, prev |-> links'.prev]
    BY <1>0 DEF Enqueued
  <2>. HIDE DEF M
  <2>2. links' \in [next : [Links -> Links], prev : [Links -> Links]]
    BY <1>0, <1>3, <2>1 DEF IsMemory
  <2>3. broken' \in SUBSET {"link", "object", "thread", "panic"}
    BY <1>0 DEF EnqueueBreaks, UseBreaks
  <2>. QED
    BY <1>0, <1>1, <2>2, <2>3 DEF TypeOK
<1>. HIDE DEF M
<1>5. Roles' /\ Handled' /\ Handling' /\ Ended' /\ Placed'
  <2>1. Roles'
    BY <1>0, <1>1, <1>2, <1>4 DEF Roles, TypeOK
  <2>2. Handled'
    BY <1>0, <1>1, <1>2 DEF Handled, TypeOK
  <2>3. Handling'
    BY <1>0, <1>1, <1>2 DEF Handling, TypeOK, Roles
  <2>4. Ended' /\ Placed'
    BY <1>0, <1>1, <1>2 DEF Ended, Placed, TypeOK
  <2>. QED
    BY <2>1, <2>2, <2>3, <2>4
<1>6. SendQueues'
  <2>1. \A p : Unreceived(p)' = Unreceived(p)
    BY <1>0, <1>1 DEF Unreceived, TypeOK
  <2>2. ASSUME NEW p \in valid PROVE Holds(M, Sendq(p), Client, Unreceived(p))
    BY <1>1, <1>3, SendQueueKept DEF SendQueues
  <2>. QED
    BY <1>0, <2>1, <2>2 DEF SendQueues
<1>. QED
  BY <1>0, <1>3, <1>5, <1>6 DEF FaultInv, Sound

LEMMA FaultTake ==
  ASSUME SteadyClients, FaultInv, NEW t \in Thread, NEW o \in Object, AtReceive(t, o),
         TakeMessage(t, o), UNCHANGED <<valid, slpret, sendobj>>
  PROVE  FaultInv'
<1>. DEFINE s == Top(Sendq(o))
            M == Removed(links, s)
<1>1. /\ TypeOK /\ Roles /\ Handled /\ Handling /\ Ended /\ Placed
      /\ IsMemory(Links, links) /\ Apart(links) /\ SendQueues
      /\ valid \subseteq Object /\ \A p \in valid : Unreceived(p) \subseteq Client
      /\ WalkBreaks(Sendq(o)) = {}
  BY FaultFacts DEF Sound, TypeOK, AtReceive
<1>0. /\ broken = {} /\ broken' = {} /\ links' = M
      /\ sender' = [sender EXCEPT ![t] = s]
      /\ receiver' = [receiver EXCEPT ![s] = t]
      /\ progress' = [progress EXCEPT ![s] = t]
      /\ pc' = [pc EXCEPT ![t] = "user"]
      /\ recvobj' = [recvobj EXCEPT ![t] = o]
      /\ pc[t] # "send" /\ o \in valid /\ t \notin asleep
      /\ UNCHANGED <<valid, slpret, sendobj, asleep>>
  BY <1>1 DEF TakeMessage, partners, AtReceive
<1>2. /\ t \notin Client /\ sender[t] = None /\ t \in OtherSide
      /\ \A c \in asleep : pc[c] = "send" => receiver[c] # t
  BY HandlesNone
<1>3. s \in Unreceived(o)
  BY TopWaits DEF TakeMessage, AtReceive
<1>. HIDE DEF s
<1>4. /\ s \in asleep /\ pc[s] = "send" /\ sendobj[s] = o /\ receiver[s] = None
      /\ s \in Client /\ s \in Thread /\ s # t
  BY <1>0, <1>1, <1>2, <1>3, SideFacts DEF Unreceived
<1>5. Client \subseteq Links /\ Sendq(o) \in Links
  BY SideFacts, LinkFacts
<1>6. /\ Holds(M, Sendq(o), Client, Unreceived(o) \ {s})
      /\ Agree(M, links, Links \ ({Sendq(o)} \cup Unreceived(o)))
      /\ IsMemory(Links, M)
  BY <1>0, <1>1, <1>3, <1>4, <1>5, HoldsLess, MemoryKept DEF SendQueues
<1>7. TypeOK'
  <2>1. links' = [next |-> links'.next, prev |-> links'.prev]
    BY <1>0 DEF Removed
  <2>. HIDE DEF M
  <2>2. links' \in [next : [Links -> Links], prev : [Links -> Links]]
    BY <1>0, <1>6, <2>1 DEF IsMemory
  <2>. QED
    BY <1>0, <1>1, <1>4, <2>2 DEF TypeOK
<1>. HIDE DEF M
<1>8. Apart(M)
  <2>1. OtherSide \subseteq Links \ ({Sendq(o)} \cup Unreceived(o))
    BY <1>0, <1>1, SideFacts
  <2>2. Agree(M, links, OtherSide)
    BY <1>6, <2>1 DEF Agree
  <2>. QED
    BY <1>1, <2>2, ApartKept
<1>9. SendQueues'
  <2>1. Unreceived(o)' = Unreceived(o) \ {s}
    BY <1>0, <1>1, <1>4, LinkFacts DEF Unreceived, TypeOK
  <2>2. ASSUME NEW p \in valid, p # o PROVE Unreceived(p)' = Unreceived(p) /\ Holds(M, Sendq(p), Client, Unreceived(p))
    <3>1. Unreceived(p)' = Unreceived(p)
      BY <1>0, <1>1, <1>4, <2>2 DEF Unreceived, TypeOK
    <3>2. p \in Object /\ Holds(links, Sendq(p), Client, Unreceived(p)) /\ Unreceived(p) \subseteq Client
      BY <1>1 DEF SendQueues
    <3>3. {Sendq(p)} \cup Unreceived(p) \subseteq Links \ ({Sendq(o)} \cup Unreceived(o))
      BY <1>0, <1>1, <2>2, <3>2, LinkFacts, SideFacts DEF Unreceived
    <3>4. Agree(M, links, {Sendq(p)} \cup Unreceived(p))
      BY <1>6, <3>3 DEF Agree
    <3>. QED
      BY <3>1, <3>2, <3>4, HoldsFrame
  <2>. QED
    BY <1>0, <1>6, <2>1, <2>2 DEF SendQueues
<1>10. Roles'
  BY <1>0, <1>1, <1>2, <1>4, <1>7 DEF Roles, TypeOK
<1>11. Handled'
  <2>1. ASSUME NEW c \in asleep, pc'[c] = "send", receiver'[c] # None
        PROVE  /\ pc'[receiver'[c]] = "user" /\ sender'[receiver'[c]] = c
               /\ recvobj'[receiver'[c]] = sendobj[c] /\ progress'[c] = receiver'[c]
    <3>1. c # t /\ pc[c] = "send" /\ c \in Thread
      BY <1>0, <1>1, <2>1 DEF TypeOK
    <3>2. CASE c = s
      BY <1>0, <1>1, <1>4, <3>2 DEF TypeOK
    <3>3. CASE c # s
      <4>1. receiver'[c] = receiver[c] /\ receiver[c] # t /\ receiver[c] \in Thread /\ progress'[c] = progress[c]
        BY <1>0, <1>1, <1>2, <2>1, <3>1, <3>3 DEF TypeOK
      <4>. QED
        BY <1>0, <1>1, <2>1, <3>1, <4>1 DEF Handled, TypeOK
    <3>. QED
      BY <3>2, <3>3
  <2>. QED
    BY <1>0, <2>1 DEF Handled
<1>12. Handling'
  <2>1. ASSUME NEW u \in Thread, pc'[u] # "dead", sender'[u] # None
        PROVE  sender'[u] \in asleep /\ pc'[sender'[u]] = "send" /\ receiver'[sender'[u]] = u
    <3>1. CASE u = t
      BY <1>0, <1>1, <1>4, <3>1 DEF TypeOK
    <3>2. CASE u # t
      <4>1. pc[u] # "dead" /\ sender[u] # None /\ sender'[u] = sender[u]
        BY <1>0, <1>1, <2>1, <3>2 DEF TypeOK
      <4>2. sender[u] \in asleep /\ pc[sender[u]] = "send" /\ receiver[sender[u]] = u /\ sender[u] # s /\ sender[u] # t
        BY <1>0, <1>1, <1>4, <4>1, LinkFacts DEF Handling
      <4>. QED
        BY <1>0, <1>1, <4>1, <4>2 DEF TypeOK
    <3>. QED
      BY <3>1, <3>2
  <2>. QED
    BY <1>0, <2>1 DEF Handling
<1>13. Ended' /\ Placed'
  BY <1>0, <1>1, <1>2, <1>4 DEF Ended, Placed, TypeOK
<1>. QED
  BY <1>0, <1>8, <1>9, <1>10, <1>11, <1>12, <1>13 DEF FaultInv, Sound

LEMMA FaultPutBack ==
  ASSUME SteadyClients, FaultInv, NEW t \in Thread, NEW o \in Object, AtReceive(t, o),
         PutBack(t, o), UNCHANGED <<valid, slpret, sendobj>>
  PROVE  FaultInv'
<1>. DEFINE s == Top(Sendq(o))
            L == Removed(links, s)
            M == Enqueued(L, Sendq(o), s)
<1>1. /\ TypeOK /\ Roles /\ Handled /\ Handling /\ Ended /\ Placed
      /\ IsMemory(Links, links) /\ Apart(links) /\ SendQueues
      /\ valid \subseteq Object /\ \A p \in valid : Unreceived(p) \subseteq Client
  BY FaultFacts DEF Sound, TypeOK, AtReceive
<1>0. /\ links' = M
      /\ pc' = [pc EXCEPT ![t] = "user"]
      /\ recvobj' = [recvobj EXCEPT ![t] = None]
      /\ pc[t] # "send" /\ o \in valid /\ t \notin asleep
      /\ UNCHANGED <<valid, slpret, sendobj, asleep, sender, receiver, progress, broken>>
  BY DEF PutBack, partners, AtReceive
<1>2. /\ t \notin Client /\ sender[t] = None /\ t \in OtherSide
      /\ \A c \in asleep : pc[c] = "send" => receiver[c] # t
  BY HandlesNone
<1>3. s \in Unreceived(o)
  BY TopWaits DEF PutBack, AtReceive
<1>. HIDE DEF s
<1>4. s \in Client /\ s \in Links /\ Client \subseteq Links /\ Sendq(o) \in Links /\ Sendq(o) \notin Client
  BY <1>0, <1>1, <1>3, SideFacts, LinkFacts
<1>5. /\ Holds(L, Sendq(o), Client, Unreceived(o) \ {s})
      /\ Agree(L, links, Links \ ({Sendq(o)} \cup Unreceived(o)))
      /\ IsMemory(Links, L)
  BY <1>0, <1>1, <1>3, <1>4, HoldsLess, MemoryKept DEF SendQueues
<1>. HIDE DEF L
<1>6. /\ Holds(M, Sendq(o), Client, (Unreceived(o) \ {s}) \cup {s})
      /\ Agree(M, L, Links \ ({Sendq(o), s} \cup (Unreceived(o) \ {s})))
      /\ IsMemory(Links, M)
  <2>1. s \notin {Sendq(o)} \cup (Unreceived(o) \ {s})
    BY <1>4
  <2>. QED
    BY <1>4, <1>5, <2>1, HoldsMore, MemoryKept
<1>7. TypeOK'
  <2>1. links' = [next |-> links'.next, prev |-> links'.prev]
    BY <1>0 DEF Enqueued
  <2>. HIDE DEF M
  <2>2. links' \in [next : [Links -> Links], prev : [Links -> Links]]
    BY <1>0, <1>6, <2>1 DEF IsMemory
  <2>. QED
    BY <1>0, <1>1, <1>4, <2>2 DEF TypeOK
<1>. HIDE DEF M
<1>8. /\ Holds(M, Sendq(o), Client, Unreceived(o))
      /\ Agree(M, links, Links \ ({Sendq(o)} \cup Unreceived(o)))
  <2>1. (Unreceived(o) \ {s}) \cup {s} = Unreceived(o)
    BY <1>3
  <2>2. Links \ ({Sendq(o), s} \cup (Unreceived(o) \ {s})) = Links \ ({Sendq(o)} \cup Unreceived(o))
    BY <1>3
  <2>3. Agree(M, L, Links \ ({Sendq(o)} \cup Unreceived(o)))
    BY <1>6, <2>2
  <2>. QED
    BY <1>5, <1>6, <2>1, <2>3 DEF Agree
<1>9. Apart(M)
  <2>1. OtherSide \subseteq Links \ ({Sendq(o)} \cup Unreceived(o))
    BY <1>0, <1>1, SideFacts
  <2>2. Agree(M, links, OtherSide)
    BY <1>8, <2>1 DEF Agree
  <2>. QED
    BY <1>1, <2>2, ApartKept
<1>10. SendQueues'
  <2>1. \A p : Unreceived(p)' = Unreceived(p)
    BY <1>0, <1>1 DEF Unreceived, TypeOK
  <2>2. ASSUME NEW p \in valid, p # o PROVE Holds(M, Sendq(p), Client, Unreceived(p))
    <3>2. p \in Object /\ Holds(links, Sendq(p), Client, Unreceived(p)) /\ Unreceived(p) \subseteq Client
      BY <1>1 DEF SendQueues
    <3>3. {Sendq(p)} \cup Unreceived(p) \subseteq Links \ ({Sendq(o)} \cup Unreceived(o))
      BY <1>0, <1>1, <2>2, <3>2, LinkFacts, SideFacts DEF Unreceived
    <3>4. Agree(M, links, {Sendq(p)} \cup Unreceived(p))
      BY <1>8, <3>3 DEF Agree
    <3>. QED
      BY <3>2, <3>4, HoldsFrame
  <2>. QED
    BY <1>0, <1>8, <2>1, <2>2 DEF SendQueues
<1>11. Roles' /\ Handled' /\ Handling' /\ Ended' /\ Placed'
  <2>1. Roles'
    BY <1>0, <1>1, <1>2, <1>7 DEF Roles, TypeOK
  <2>2. Handled'
    BY <1>0, <1>1, <1>2 DEF Handled, TypeOK
  <2>3. Handling'
    BY <1>0, <1>1, <1>2 DEF Handling, TypeOK, Roles
  <2>4. Ended' /\ Placed'
    BY <1>0, <1>1, <1>2 DEF Ended, Placed, TypeOK
  <2>. QED
    BY <2>1, <2>2, <2>3, <2>4
<1>. QED
  BY <1>0, <1>9, <1>10, <1>11 DEF FaultInv, Sound

LEMMA FaultReceive ==
  ASSUME SteadyClients, FaultInv, NEW t \in Thread, NEW o \in Object, Receive(t, o)
  PROVE  FaultInv'
<1>1. AtReceive(t, o)
  <2>1. t \notin asleep
    BY DEF FaultInv, Roles, Receive, Calls
  <2>. QED
    BY <2>1 DEF Receive, Calls, AtReceive
<1>. QED
  BY <1>1, FaultAwait, FaultTake, FaultPutBack DEF Receive

LEMMA FaultReceiveWoken ==
  ASSUME SteadyClients, FaultInv, NEW t \in Thread, ReceiveWoken(t)
  PROVE  FaultInv'
<1>1. broken = {} /\ pc[t] = "recv" /\ t \notin asleep /\ UNCHANGED <<valid, slpret, sendobj>>
  BY DEF ReceiveWoken, Returns
<1>2. TypeOK /\ Roles /\ Handled
  BY <1>1, FaultFacts
<1>3. CASE recvobj[t] \in valid
  <2>. DEFINE o == recvobj[t]
  <2>1. t \in Server
    BY <1>1, <1>2 DEF Roles
  <2>2. o \in Object /\ AtReceive(t, o)
    BY <1>1, <1>2, <1>3, <2>1 DEF AtReceive, TypeOK
  <2>3. AwaitMessage(t, o) \/ TakeMessage(t, o) \/ PutBack(t, o)
    BY <1>3 DEF ReceiveWoken
  <2>. HIDE DEF o
  <2>. QED
    BY <1>1, <2>2, <2>3, FaultAwait, FaultTake, FaultPutBack
<1>4. CASE recvobj[t] \notin valid
  <2>1. /\ broken' = {"object"}
        /\ UNCHANGED <<links, pc, asleep, recvobj, sender, receiver, progress>>
    BY <1>4 DEF ReceiveWoken, partners
  <2>2. Roles' /\ Handled'
    BY <1>1, <1>2, <2>1 DEF Roles, TypeOK, Handled
  <2>. QED
    BY <2>1, <2>2 DEF FaultInv
<1>. QED
  BY <1>3, <1>4

LEMMA FaultReceiveFails ==
  ASSUME SteadyClients, FaultInv, NEW t \in Thread, ReceiveFails(t)
  PROVE  FaultInv'
<1>0. /\ broken = {} /\ pc[t] = "recv" /\ t \notin asleep
      /\ recvobj' = [recvobj EXCEPT ![t] = None]
      /\ pc' = [pc EXCEPT ![t] = "user"]
      /\ links' \in {links, Removed(links, t)}
      /\ broken' \in {{}, {"panic"}, RemoveBreaks(t)}
      /\ UNCHANGED <<valid, asleep, slpret, sendobj, sender, receiver, progress>>
  BY DEF ReceiveFails, Returns, LeaveIfInterrupted, partners
<1>1. /\ TypeOK /\ Roles /\ Handled /\ Handling /\ Ended /\ Placed
      /\ IsMemory(Links, links) /\ Apart(links) /\ SendQueues
      /\ valid \subseteq Object /\ \A p \in valid : Unreceived(p) \subseteq Client
  BY <1>0, FaultFacts DEF Sound, TypeOK
<1>2. t \notin Client /\ t \in OtherSide
  BY <1>0, <1>1, SideFacts DEF Roles
<1>3. Apart(links') /\ IsMemory(Links, links') /\ Agree(links', links, Links \ OtherSide)
  <2>1. CASE links' = links
    BY <1>1, <2>1 DEF Agree
  <2>2. CASE links' = Removed(links, t)
    <3>. DEFINE M == Removed(links, t)
    <3>1. M \in {Emptied(links, t), Enqueued(links, t, t), Removed(links, t)}
      OBVIOUS
    <3>. HIDE DEF M
    <3>2. Apart(M) /\ IsMemory(Links, M) /\ Agree(M, links, Links \ OtherSide)
      BY <1>1, <1>2, <3>1, OtherOperations
    <3>. QED
      BY <2>2, <3>2 DEF M
  <2>. QED
    BY <1>0, <2>1, <2>2
<1>4. TypeOK'
  <2>1. links' \in [next : [Links -> Links], prev : [Links -> Links]]
    <3>1. CASE links' = links
      BY <1>1, <3>1 DEF TypeOK
    <3>2. CASE links' = Removed(links, t)
      <4>1. links' = [next |-> links'.next, prev |-> links'.prev]
        BY <3>2 DEF Removed
      <4>. QED
        BY <1>3, <4>1 DEF IsMemory
    <3>. QED
      BY <1>0, <3>1, <3>2
  <2>2. broken' \in SUBSET {"link", "object", "thread", "panic"}
    BY <1>0 DEF RemoveBreaks, UseBreaks
  <2>. QED
    BY <1>0, <1>1, <2>1, <2>2 DEF TypeOK
<1>5. Roles' /\ Handled' /\ Handling' /\ Ended' /\ Placed'
  <2>1. Roles'
    BY <1>0, <1>1, <1>2, <1>4 DEF Roles, TypeOK
  <2>2. Handled'
    BY <1>0, <1>1, <1>2, LinkFacts DEF Handled, TypeOK, Roles
  <2>3. Handling'
    BY <1>0, <1>1, <1>2 DEF Handling, TypeOK, Roles
  <2>4. Ended' /\ Placed'
    BY <1>0, <1>1, <1>2 DEF Ended, Placed, TypeOK
  <2>. QED
    BY <2>1, <2>2, <2>3, <2>4
<1>6. SendQueues'
  <2>1. \A p : Unreceived(p)' = Unreceived(p)
    BY <1>0, <1>1 DEF Unreceived, TypeOK
  <2>2. ASSUME NEW p \in valid PROVE Holds(links', Sendq(p), Client, Unreceived(p))
    BY <1>1, <1>3, SendQueueKept DEF SendQueues
  <2>. QED
    BY <1>0, <2>1, <2>2 DEF SendQueues
<1>. QED
  BY <1>3, <1>5, <1>6 DEF FaultInv, Sound

LEMMA FaultReply ==
  ASSUME SteadyClients, FaultInv, NEW t \in Thread, Reply(t)
  PROVE  FaultInv'
<1>. DEFINE s == sender[t]
<1>0. /\ broken = {} /\ pc[t] = "user" /\ recvobj[t] \in valid
      /\ sender' = [sender EXCEPT ![t] = None]
      /\ recvobj' = [recvobj EXCEPT ![t] = None]
      /\ UNCHANGED <<valid, links, pc, sendobj>>
  BY DEF Reply, Calls
<1>1. /\ TypeOK /\ Roles /\ Handled /\ Handling /\ Ended /\ Placed
      /\ IsMemory(Links, links) /\ Apart(links) /\ SendQueues
      /\ valid \subseteq Object /\ \A p \in valid : Unreceived(p) \subseteq Client
  BY <1>0, FaultFacts DEF Sound, TypeOK
<1>2. t \notin Client
  BY <1>0, <1>1, LinkFacts DEF Roles
<1>3. CASE s = None
  <2>1. UNCHANGED <<asleep, slpret, receiver, progress, broken>>
    BY <1>3 DEF Reply
  <2>2. \A c \in asleep : pc[c] = "send" => receiver[c] # t
    BY <1>1, <1>3, LinkFacts DEF Handled, TypeOK
  <2>3. Roles'
    BY <1>0, <1>1, <1>2, <2>1 DEF Roles, TypeOK
  <2>4. Handled' /\ Handling'
    BY <1>0, <1>1, <1>2, <2>1, <2>2 DEF Handled, Handling, TypeOK
  <2>5. Ended' /\ Placed' /\ Apart(links)'
    BY <1>0, <1>1, <2>1 DEF Ended, Placed
  <2>6. SendQueues'
    <3>1. \A p : Unreceived(p)' = Unreceived(p)
      BY <1>0, <2>1 DEF Unreceived
    <3>. QED
      BY <1>0, <1>1, <3>1 DEF SendQueues
  <2>. QED
    BY <2>3, <2>4, <2>5, <2>6 DEF FaultInv, Sound
<1>4. CASE s # None
  <2>1. /\ s \in asleep /\ pc[s] = "send" /\ receiver[s] = t /\ progress[s] = t
        /\ s \in Client /\ s \in Thread /\ s # t
    <3>1. s \in asleep /\ pc[s] = "send" /\ receiver[s] = t
      BY <1>0, <1>1, <1>4 DEF Handling
    <3>2. progress[s] = t
      BY <1>1, <3>1, LinkFacts DEF Handled
    <3>. QED
      BY <1>1, <1>2, <1>4, <3>1, <3>2, SideFacts DEF Roles
  <2>2. /\ asleep' = asleep \ {s}
        /\ slpret' = [u \in Thread |-> IF u \in {s} \cap asleep THEN "OK" ELSE slpret[u]]
        /\ receiver' = [receiver EXCEPT ![s] = None]
        /\ progress' = [progress EXCEPT ![s] = "replied"]
        /\ broken' = {}
    <3>1. progress' = [progress EXCEPT ![s] = IF @ = t THEN "replied" ELSE @]
          /\ broken' = UseBreaks({s})
      BY <1>4 DEF Reply
    <3>. QED
      BY <1>1, <1>4, <2>1, <3>1 DEF Reply, Unsleep, UseBreaks, TypeOK
  <2>. HIDE DEF s
  <2>3. TypeOK'
    BY <1>0, <1>1, <2>1, <2>2 DEF TypeOK
  <2>4. Roles'
    BY <1>0, <1>1, <1>2, <2>1, <2>2, <2>3 DEF Roles, TypeOK
  <2>5. Handled'
    <3>1. ASSUME NEW c \in asleep', pc[c] = "send", receiver'[c] # None
          PROVE  /\ pc[receiver'[c]] = "user" /\ sender'[receiver'[c]] = c
                 /\ recvobj'[receiver'[c]] = sendobj[c] /\ progress'[c] = receiver'[c]
      <4>1. c # s /\ c \in asleep /\ receiver'[c] = receiver[c] /\ progress'[c] = progress[c]
        BY <1>1, <2>1, <2>2 DEF TypeOK
      <4>2. receiver[c] \in Thread /\ sender[receiver[c]] = c
        BY <1>1, <3>1, <4>1 DEF Handled, TypeOK
      <4>3. receiver[c] # t
        BY <4>1, <4>2 DEF s
      <4>. QED
        BY <1>0, <1>1, <3>1, <4>1, <4>2, <4>3 DEF Handled, TypeOK
    <3>. QED
      BY <1>0, <3>1 DEF Handled
  <2>6. Handling'
    <3>1. ASSUME NEW u \in Thread, pc[u] # "dead", sender'[u] # None
          PROVE  sender'[u] \in asleep' /\ pc[sender'[u]] = "send" /\ receiver'[sender'[u]] = u
      <4>1. u # t /\ sender'[u] = sender[u]
        BY <1>0, <1>1, <3>1 DEF TypeOK
      <4>2. sender[u] \in asleep /\ pc[sender[u]] = "send" /\ receiver[sender[u]] = u
        BY <1>1, <3>1, <4>1 DEF Handling
      <4>3. sender[u] # s
        BY <2>1, <4>1, <4>2
      <4>. QED
        BY <1>1, <2>2, <4>1, <4>2, <4>3 DEF TypeOK
    <3>. QED
      BY <1>0, <3>1 DEF Handling
  <2>7. Ended'
    <3>1. \A c \in Client \ asleep' : c \in Thread /\ (c \notin asleep \/ c = s)
      BY <2>2, SideFacts
    <3>. QED
      BY <1>0, <1>1, <2>1, <2>2, <3>1 DEF Ended, TypeOK
  <2>8. Placed' /\ Apart(links)'
    BY <1>0, <1>1, <2>1, <2>2 DEF Placed, TypeOK
  <2>9. SendQueues'
    <3>1. ASSUME NEW p \in valid PROVE Unreceived(p)' = Unreceived(p)
      BY <1>0, <1>1, <2>1, <2>2, LinkFacts DEF Unreceived, TypeOK
    <3>. QED
      BY <1>0, <1>1, <3>1 DEF SendQueues
  <2>. QED
    BY <2>4, <2>5, <2>6, <2>7, <2>8, <2>9 DEF FaultInv, Sound
<1>. QED
  BY <1>3, <1>4

LEMMA FaultInterrupt ==
  ASSUME SteadyClients, FaultInv, NEW t \in Thread, Interrupt(t)
  PROVE  FaultInv'
<1>0. /\ broken = {} /\ t \in Interruptible /\ t \in asleep
      /\ asleep' = asleep \ {t}
      /\ slpret' = [u \in Thread |-> IF u \in {t} \cap asleep THEN "INTR" ELSE slpret[u]]
      /\ UNCHANGED <<valid, links, pc, sendobj, recvobj, sender, receiver, progress, broken>>
  BY DEF Interrupt, Unsleep, partners
<1>1. /\ TypeOK /\ Roles /\ Handled /\ Handling /\ Ended /\ Placed
      /\ IsMemory(Links, links) /\ Apart(links) /\ SendQueues
      /\ valid \subseteq Object /\ \A p \in valid : Unreceived(p) \subseteq Client
  BY <1>0, FaultFacts DEF Sound, TypeOK
<1>2. t \notin Client
  BY <1>0, SideFacts
<1>3. Roles'
  BY <1>0, <1>1 DEF Roles, TypeOK
<1>4. Handled' /\ Placed' /\ Apart(links)'
  BY <1>0, <1>1 DEF Handled, Placed
<1>5. Handling'
  BY <1>0, <1>1, <1>2 DEF Handling, Roles
<1>6. Ended'
  <2>1. \A c \in Client \ asleep' : c \in Thread /\ c \notin asleep
    BY <1>0, <1>2, SideFacts
  <2>. QED
    BY <1>0, <1>1, <2>1 DEF Ended
<1>7. SendQueues'
  <2>1. ASSUME NEW p \in valid PROVE Unreceived(p)' = Unreceived(p)
    <3>1. t \notin Unreceived(p)
      BY <1>1, <1>2
    <3>. QED
      BY <1>0, <3>1 DEF Unreceived
  <2>. QED
    BY <1>0, <1>1, <2>1 DEF SendQueues
<1>. QED
  BY <1>3, <1>4, <1>5, <1>6, <1>7 DEF FaultInv, Sound

LEMMA FaultKill ==
  ASSUME SteadyClients, FaultInv, NEW t \in Thread, Kill(t)
  PROVE  FaultInv'
<1>. DEFINE s == SenderOf(t)
<1>0. broken = {} /\ t \in Killable /\ pc[t] # "dead"
  BY DEF Kill
<1>1. /\ TypeOK /\ Roles /\ Handled /\ Handling /\ Ended /\ Placed
      /\ IsMemory(Links, links) /\ Apart(links) /\ SendQueues
      /\ valid \subseteq Object /\ \A p \in valid : Unreceived(p) \subseteq Client
  BY <1>0, FaultFacts DEF Sound, TypeOK
<1>2. t \notin Client /\ t \in OtherSide /\ sendobj[t] = None /\ ReceiverOf(t) = None
  BY <1>0, <1>1, SideFacts DEF Roles, ReceiverOf
<1>3. /\ sender' = sender
      /\ receiver' = [u \in Thread |-> IF u = s THEN None ELSE receiver[u]]
      /\ asleep' = asleep \ {s, t}
      /\ slpret' = [u \in Thread |-> IF u \in {s, t} \cap asleep THEN "BREAK" ELSE slpret[u]]
      /\ links' \in {links, Removed(links, t)}
      /\ broken' \in SUBSET {"link", "object", "thread", "panic"}
      /\ pc' = [pc EXCEPT ![t] = "dead"]
      /\ UNCHANGED <<valid, sendobj, recvobj, progress>>
  <2>1. sender' = [u \in Thread |-> IF u = None THEN None ELSE sender[u]]
    BY <1>2 DEF Kill
  <2>2. sender' = sender
    BY <1>1, <2>1, LinkFacts DEF TypeOK
  <2>3. broken' \in SUBSET {"link", "object", "thread", "panic"}
    BY DEF Kill, UseBreaks, RemoveBreaks
  <2>4. links' \in {links, Removed(links, t)}
    BY DEF Kill
  <2>. QED
    BY <2>2, <2>3, <2>4 DEF Kill, Unsleep
<1>4. \/ s = None
      \/ /\ s \in asleep /\ pc[s] = "send" /\ receiver[s] = t
         /\ s \in Client /\ s \in Thread /\ s # t /\ s = sender[t]
  <2>1. CASE recvobj[t] = None \/ sender[t] = None
    BY <2>1 DEF SenderOf
  <2>2. CASE recvobj[t] # None /\ sender[t] # None
    BY <1>0, <1>1, <1>2, <2>2, SideFacts DEF SenderOf, Handling, Roles
  <2>. QED
    BY <2>1, <2>2
<1>5. \A c \in asleep : pc[c] = "send" /\ receiver[c] = t => c = s
  <2>1. ASSUME NEW c \in asleep, pc[c] = "send", receiver[c] = t PROVE c = s
    <3>1. t # None /\ c \in Thread
      BY <1>1, LinkFacts DEF TypeOK
    <3>2. sender[t] = c /\ recvobj[t] = sendobj[c] /\ sendobj[c] # None
      BY <1>1, <2>1, <3>1 DEF Handled, Roles
    <3>. QED
      BY <3>2 DEF SenderOf
  <2>. QED
    BY <2>1
<1>. HIDE DEF s
<1>6. Apart(links') /\ IsMemory(Links, links') /\ Agree(links', links, Links \ OtherSide)
  <2>1. CASE links' = links
    BY <1>1, <2>1 DEF Agree
  <2>2. CASE links' = Removed(links, t)
    <3>. DEFINE M == Removed(links, t)
    <3>1. M \in {Emptied(links, t), Enqueued(links, t, t), Removed(links, t)}
      OBVIOUS
    <3>. HIDE DEF M
    <3>2. Apart(M) /\ IsMemory(Links, M) /\ Agree(M, links, Links \ OtherSide)
      BY <1>1, <1>2, <3>1, OtherOperations
    <3>. QED
      BY <2>2, <3>2 DEF M
  <2>. QED
    BY <1>3, <2>1, <2>2
<1>7. TypeOK'
  <2>1. links' \in [next : [Links -> Links], prev : [Links -> Links]]
    <3>1. CASE links' = links
      BY <1>1, <3>1 DEF TypeOK
    <3>2. CASE links' = Removed(links, t)
      <4>1. links' = [next |-> links'.next, prev |-> links'.prev]
        BY <3>2 DEF Removed
      <4>. QED
        BY <1>6, <4>1 DEF IsMemory
    <3>. QED
      BY <1>3, <3>1, <3>2
  <2>. QED
    BY <1>1, <1>3, <2>1 DEF TypeOK
<1>8. Roles'
  BY <1>1, <1>2, <1>3, <1>7 DEF Roles, TypeOK
<1>9. Handled'
  <2>1. ASSUME NEW c \in asleep', pc'[c] = "send", receiver'[c] # None
        PROVE  /\ pc'[receiver'[c]] = "user" /\ sender[receiver'[c]] = c
               /\ recvobj[receiver'[c]] = sendobj[c] /\ progress[c] = receiver'[c]
    <3>1. c \in asleep /\ c # s /\ c # t /\ pc[c] = "send" /\ receiver'[c] = receiver[c] /\ receiver[c] # None
      BY <1>1, <1>3, <2>1 DEF TypeOK
    <3>2. receiver[c] # t
      BY <1>5, <3>1
    <3>3. receiver[c] \in Thread
      BY <1>1, <3>1 DEF TypeOK
    <3>. QED
      BY <1>1, <1>3, <3>1, <3>2, <3>3 DEF Handled, TypeOK
  <2>. QED
    BY <1>3, <2>1 DEF Handled
<1>10. Handling'
  <2>1. ASSUME NEW u \in Thread, pc'[u] # "dead", sender[u] # None
        PROVE  sender[u] \in asleep' /\ pc'[sender[u]] = "send" /\ receiver'[sender[u]] = u
    <3>1. u # t /\ pc[u] # "dead"
      BY <1>1, <1>3, <2>1 DEF TypeOK
    <3>2. sender[u] \in asleep /\ pc[sender[u]] = "send" /\ receiver[sender[u]] = u /\ sender[u] \in Client
      BY <1>1, <2>1, <3>1 DEF Handling, Roles
    <3>3. sender[u] # s /\ sender[u] # t /\ sender[u] \in Thread
      BY <1>2, <1>4, <2>1, <3>1, <3>2, SideFacts
    <3>. QED
      BY <1>1, <1>3, <3>2, <3>3 DEF TypeOK
  <2>. QED
    BY <1>3, <2>1 DEF Handling
<1>11. Ended'
  <2>1. \A c \in Client \ asleep' : c \in Thread /\ c # t /\ (c \notin asleep \/ c = s)
    BY <1>2, <1>3, SideFacts
  <2>. QED
    BY <1>1, <1>3, <1>4, <2>1, LinkFacts DEF Ended, TypeOK
<1>12. SendQueues'
  <2>1. ASSUME NEW p \in valid PROVE Unreceived(p)' = Unreceived(p)
    <3>1. t \notin Unreceived(p) /\ s \notin Unreceived(p)
      BY <1>1, <1>2, <1>4, LinkFacts DEF Unreceived, TypeOK
    <3>2. \A c \in asleep' : c \in Thread /\ c # s /\ c # t /\ c \in asleep
      BY <1>1, <1>3 DEF TypeOK
    <3>3. \A c \in asleep' : pc'[c] = pc[c] /\ receiver'[c] = receiver[c] /\ sendobj'[c] = sendobj[c]
      BY <1>1, <1>3, <3>2 DEF TypeOK
    <3>. QED
      BY <1>3, <3>1, <3>2, <3>3 DEF Unreceived
  <2>2. ASSUME NEW p \in valid PROVE Holds(links', Sendq(p), Client, Unreceived(p))
    BY <1>1, <1>6, SendQueueKept DEF SendQueues
  <2>. QED
    BY <1>3, <2>1, <2>2 DEF SendQueues
<1>13. Placed'
  <2>1. \A c \in asleep' : c \in Thread /\ c # s /\ c # t /\ c \in asleep
    BY <1>1, <1>3 DEF TypeOK
  <2>. QED
    BY <1>1, <1>3, <2>1 DEF Placed, TypeOK
<1>. QED
  BY <1>6, <1>8, <1>9, <1>10, <1>11, <1>12, <1>13 DEF FaultInv, Sound

LEMMA FaultNext ==
  ASSUME SteadyClients, FaultInv, [Next]_vars
  PROVE  FaultInv'
<1>1. CASE UNCHANGED vars
  BY <1>1 DEF vars, partners, FaultInv, Roles, TypeOK, Handled, Sound, Handling, Ended, Placed,
              Apart, SendQueues, Unreceived
<1>2. CASE Next
  BY <1>2, FaultCreate, FaultDestroy, FaultSend, FaultReceive, FaultSendReturn,
     FaultReceiveWoken, FaultReceiveFails, FaultReply, FaultInterrupt, FaultKill DEF Next
<1>. QED
  BY <1>1, <1>2

LEMMA FaultMeans ==
  ASSUME SteadyClients, FaultInv
  PROVE  HandledByLive /\ QueuedUntilReceived /\ SuccessMeansReplied
<1>1. TypeOK /\ Roles /\ Handled
  BY DEF FaultInv, Roles
<1>2. HandledByLive
  BY <1>1 DEF HandledByLive, Handled
<1>3. QueuedUntilReceived
  <2>. SUFFICES ASSUME NEW o \in valid, broken = {}
                PROVE  /\ IsRing(links, Sendq(o), Thread) /\ Distinct(Queued(Sendq(o)))
                       /\ Items(Queued(Sendq(o))) \cap asleep = Unreceived(o)
    BY DEF QueuedUntilReceived, Unreceived
  <2>1. /\ IsRing(links, Sendq(o), Thread) /\ Distinct(Queued(Sendq(o)))
        /\ Items(Queued(Sendq(o))) = Unreceived(o)
    BY FaultFacts
  <2>. QED
    BY <2>1 DEF Unreceived
<1>4. SuccessMeansReplied
  BY <1>1 DEF SuccessMeansReplied, Returns, FaultInv, Sound, Ended, Roles
<1>. QED
  BY <1>2, <1>3, <1>4

LEMMA FaultInvariant ==
  ASSUME SteadyClients
  PROVE  Spec => [](HandledByLive /\ QueuedUntilReceived /\ SuccessMeansReplied)
<1>1. Init => FaultInv
  BY FaultInit
<1>2. FaultInv /\ [Next]_vars => FaultInv'
  BY FaultNext
<1>3. FaultInv => HandledByLive /\ QueuedUntilReceived /\ SuccessMeansReplied
  BY FaultMeans
<1>. QED
  BY <1>1, <1>2, <1>3, PTL DEF Spec

\* Whatever servers are interrupted and terminated, and whatever objects are
\* destroyed or buffers bad: a client that is not interrupted and not terminated
\* sleeps on a message that was received only while a live server handles it.
THEOREM MessagesHandled ==
  ASSUME SteadyClients
  PROVE  Spec => []HandledByLive
BY FaultInvariant, PTL

\* Under the same faults, its message stays in the queue of the object until it is
\* received, and is there once.
THEOREM MessagesQueued ==
  ASSUME SteadyClients
  PROVE  Spec => []QueuedUntilReceived
BY FaultInvariant, PTL

\* Under the same faults, msg_send() succeeds only when a server has replied to
\* the message.
THEOREM RepliesReal ==
  ASSUME SteadyClients
  PROVE  Spec => []SuccessMeansReplied
BY FaultInvariant, PTL
-----------------------------------------------------------------------------
\* Threads that are not interrupted and not terminated; any may be client and
\* server.

Undisturbed == Interruptible = {} /\ Killable = {}

\* The receivers in the queue of o, and those on their way to take a message.
Listening(o) == {t \in asleep : pc[t] = "recv" /\ recvobj[t] = o}
Coming(o) == {t \in Thread \ asleep : pc[t] = "recv" /\ recvobj[t] = o /\ slpret[t] = "OK"}

CallRoles ==
  /\ TypeOK
  /\ \A t \in asleep : pc[t] \in {"send", "recv"}
  /\ \A t \in Thread : /\ pc[t] # "dead" /\ slpret[t] \in {"OK", "INVAL"}
                       /\ pc[t] = "send" => sendobj[t] # None
                       /\ pc[t] = "recv" => recvobj[t] # None
  /\ broken \subseteq {"object"}

\* Who names whom: a received message has a sleeping sender, and a handler that
\* does not receive.
Matched ==
  /\ \A t, s \in Thread : sender[t] = s <=> receiver[s] = t
  /\ \A c \in Thread : receiver[c] # None =>
       /\ c \in asleep /\ pc[c] = "send" /\ pc[receiver[c]] # "recv"
       /\ recvobj[receiver[c]] = sendobj[c]

PlacedBoth ==
  \A c \in asleep : /\ pc[c] = "send" /\ receiver[c] = None => sendobj[c] \in valid
                    /\ pc[c] = "recv" => recvobj[c] \in valid

Queues ==
  \A o \in valid : /\ Holds(links, Sendq(o), Thread, Unreceived(o))
                   /\ Holds(links, Recvq(o), Thread, Listening(o))

CallInv == CallRoles /\ Matched /\ PlacedBoth /\ Queues

\* While somebody listens, a receiver is on its way for every message.
NoIdle ==
  \A o \in valid : Listening(o) # {} => Cardinality(Unreceived(o)) <= Cardinality(Coming(o))

LEMMA CallInit ==
  ASSUME Init
  PROVE  CallInv /\ NoIdle
<1>1. TypeOK
  <2>1. links \in [next : [Links -> Links], prev : [Links -> Links]]
    BY LinkFacts DEF Init
  <2>. QED
    BY <2>1 DEF Init, TypeOK
<1>. QED
  BY <1>1, LinkFacts DEF Init, CallInv, CallRoles, Matched, PlacedBoth, Queues, NoIdle

LEMMA HoldsElsewhere ==
  ASSUME NEW L, NEW M, NEW Y, Agree(M, L, Links \ Y), NEW g, NEW S, Holds(L, g, Thread, S),
         {g} \cup S \subseteq Links \ Y
  PROVE  Holds(M, g, Thread, S)
<1>1. Agree(M, L, {g} \cup S)
  BY DEF Agree
<1>. QED
  BY <1>1, HoldsFrame

\* The queue with the head h holds S, is sound, and can be walked.
WalkHolds(h, S) ==
  /\ h \in Links /\ h \notin Thread /\ S \subseteq Thread
  /\ Holds(links, h, Thread, S)
  /\ IsRing(links, h, Thread) /\ Items(Queued(h)) = S
  /\ IsFiniteSet(S) /\ Cardinality(S) = Len(Queued(h))
  /\ IsEmptyQueue(links, h) <=> S = {}
  /\ WalkBreaks(h) = {} /\ EnqueueBreaks(h) = {}
  /\ S # {} => Top(h) \in S

LEMMA CallFacts ==
  ASSUME CallInv
  PROVE  /\ TypeOK /\ IsMemory(Links, links) /\ valid \subseteq Object
         /\ \A o \in valid : /\ WalkHolds(Sendq(o), Unreceived(o))
                             /\ WalkHolds(Recvq(o), Listening(o))
         /\ \A S : UseBreaks(S) = {}
<1>1. TypeOK /\ valid \subseteq Object
  BY DEF CallInv, CallRoles, TypeOK
<1>2. IsMemory(Links, links)
  BY <1>1 DEF TypeOK, IsMemory
<1>3. \A S : UseBreaks(S) = {}
  BY DEF UseBreaks, CallInv, CallRoles
<1>4. ASSUME NEW h \in Links, h \notin Thread, NEW S, Holds(links, h, Thread, S)
      PROVE  WalkHolds(h, S)
  <2>1. Thread \subseteq Links /\ IsFiniteSet(Links)
    BY LinkFacts, LinksFinite
  <2>2. /\ Walk(links, h) \in Seq(Thread) /\ Distinct(Walk(links, h)) /\ Items(Walk(links, h)) = S
        /\ IsFiniteSet(S) /\ Cardinality(S) = Len(Walk(links, h))
        /\ \A B : Thread \subseteq B => IsRing(links, h, B)
        /\ IsEmptyQueue(links, h) <=> S = {}
        /\ links.prev[h] \in {h} \cup S
        /\ S \subseteq Thread /\ h \notin S
    BY <1>2, <1>4, <2>1, HoldsWalk
  <2>. DEFINE w == Queued(h)
  <2>3. w \in Seq(Thread) /\ Items(w) = S
    BY <2>2 DEF Queued
  <2>4. WalkBreaks(h) = {} /\ EnqueueBreaks(h) = {}
    BY <1>3, <2>2 DEF WalkBreaks, EnqueueBreaks
  <2>. HIDE DEF w
  <2>5. S # {} => Top(h) \in S
    <3>1. S # {} => w # <<>>
      BY <2>3 DEF Items
    <3>2. w # <<>> => FirstBest(w, Priority) \in Items(w)
      BY <2>3, IpcAssumption, FirstBestItem
    <3>. QED
      BY <2>3, <3>1, <3>2 DEF Top, w
  <2>. QED
    BY <1>4, <2>2, <2>3, <2>4, <2>5 DEF WalkHolds, Queued
<1>5. ASSUME NEW o \in valid
      PROVE  WalkHolds(Sendq(o), Unreceived(o)) /\ WalkHolds(Recvq(o), Listening(o))
  BY <1>1, <1>4, LinkFacts DEF CallInv, Queues
<1>. QED
  BY <1>1, <1>2, <1>3, <1>5

\* The senders and receivers of all the queues are different threads.
LEMMA QueuesApart ==
  ASSUME NEW o, NEW p
  PROVE  /\ Unreceived(o) \cap Listening(p) = {}
         /\ o # p => Unreceived(o) \cap Unreceived(p) = {} /\ Listening(o) \cap Listening(p) = {}
BY DEF Unreceived, Listening

LEMMA CountsFinite ==
  ASSUME TypeOK, NEW o
  PROVE  /\ Unreceived(o) \subseteq Thread /\ Listening(o) \subseteq Thread /\ Coming(o) \subseteq Thread
         /\ IsFiniteSet(Unreceived(o)) /\ IsFiniteSet(Coming(o))
         /\ Cardinality(Unreceived(o)) \in Nat /\ Cardinality(Coming(o)) \in Nat
<1>1. Unreceived(o) \subseteq Thread /\ Listening(o) \subseteq Thread /\ Coming(o) \subseteq Thread
  BY DEF TypeOK, Unreceived, Listening, Coming
<1>. QED
  BY <1>1, IpcFinite, FS_Subset, FS_CardinalityType
-----------------------------------------------------------------------------
LEMMA CallCreate ==
  ASSUME CallInv, NEW t \in Thread, NEW o \in Object, ObjectCreate(t, o)
  PROVE  CallInv' /\ (NoIdle => NoIdle')
<1>. DEFINE L1 == Emptied(links, Sendq(o))
            L2 == Emptied(L1, Recvq(o))
<1>0. /\ o \notin valid /\ valid' = valid \cup {o} /\ links' = L2
      /\ UNCHANGED <<pc, asleep, slpret, sendobj, recvobj, sender, receiver, progress, broken>>
  BY DEF ObjectCreate, Calls, partners
<1>1. /\ CallRoles /\ Matched /\ PlacedBoth /\ Queues
      /\ TypeOK /\ IsMemory(Links, links) /\ valid \subseteq Object
  BY CallFacts DEF CallInv
<1>2. /\ IsMemory(Links, L1) /\ Holds(L1, Sendq(o), Thread, {})
      /\ Agree(L1, links, Links \ {Sendq(o)})
  BY <1>1, LinkFacts, MemoryKept, HoldsNone
<1>3. /\ IsMemory(Links, L2) /\ Holds(L2, Recvq(o), Thread, {})
      /\ Agree(L2, L1, Links \ {Recvq(o)})
  BY <1>2, LinkFacts, MemoryKept, HoldsNone
<1>4. \A p : /\ Unreceived(p)' = Unreceived(p) /\ Listening(p)' = Listening(p)
             /\ Coming(p)' = Coming(p)
  BY <1>0 DEF Unreceived, Listening, Coming
<1>5. Unreceived(o) = {} /\ Listening(o) = {}
  BY <1>0, <1>1 DEF PlacedBoth, Unreceived, Listening
<1>6. TypeOK'
  <2>1. links' \in [next : [Links -> Links], prev : [Links -> Links]]
    BY <1>0, <1>1, LinkFacts DEF TypeOK, Emptied
  <2>. QED
    BY <1>0, <1>1, <2>1 DEF TypeOK
<1>. HIDE DEF L1, L2
<1>7. Queues'
  <2>1. ASSUME NEW p \in valid
        PROVE  Holds(L2, Sendq(p), Thread, Unreceived(p)) /\ Holds(L2, Recvq(p), Thread, Listening(p))
    <3>1. /\ Holds(links, Sendq(p), Thread, Unreceived(p)) /\ Holds(links, Recvq(p), Thread, Listening(p))
          /\ Unreceived(p) \subseteq Thread /\ Listening(p) \subseteq Thread
      BY <1>1, CountsFinite DEF Queues
    <3>2. /\ {Sendq(p)} \cup Unreceived(p) \subseteq Links \ {Sendq(o)}
          /\ {Sendq(p)} \cup Unreceived(p) \subseteq Links \ {Recvq(o)}
          /\ {Recvq(p)} \cup Listening(p) \subseteq Links \ {Sendq(o)}
          /\ {Recvq(p)} \cup Listening(p) \subseteq Links \ {Recvq(o)}
      BY <1>0, <1>1, <3>1, LinkFacts
    <3>3. Holds(L1, Sendq(p), Thread, Unreceived(p)) /\ Holds(L1, Recvq(p), Thread, Listening(p))
      BY <1>2, <3>1, <3>2, HoldsElsewhere
    <3>. QED
      BY <1>3, <3>2, <3>3, HoldsElsewhere
  <2>2. Holds(L2, Sendq(o), Thread, {})
    <3>1. {Sendq(o)} \cup {} \subseteq Links \ {Recvq(o)}
      BY LinkFacts
    <3>. QED
      BY <1>2, <1>3, <3>1, HoldsElsewhere
  <2>. QED
    BY <1>0, <1>3, <1>4, <1>5, <2>1, <2>2 DEF Queues
<1>8. CallRoles' /\ Matched' /\ PlacedBoth'
  BY <1>0, <1>1, <1>6 DEF CallRoles, Matched, PlacedBoth
<1>9. ASSUME NoIdle PROVE NoIdle'
  BY <1>0, <1>4, <1>5, <1>9 DEF NoIdle
<1>. QED
  BY <1>7, <1>8, <1>9 DEF CallInv

LEMMA CallDestroy ==
  ASSUME CallInv, NEW t \in Thread, NEW o \in Object, ObjectDestroy(t, o)
  PROVE  CallInv' /\ (NoIdle => NoIdle')
<1>. DEFINE L1 == Aborted(links, Sendq(o))
            L2 == Aborted(L1, Recvq(o))
            W == Unreceived(o) \cup Listening(o)
<1>1. /\ CallRoles /\ Matched /\ PlacedBoth /\ Queues
      /\ TypeOK /\ IsMemory(Links, links) /\ valid \subseteq Object
  BY CallFacts DEF CallInv
<1>2. o \in valid /\ WalkHolds(Sendq(o), Unreceived(o)) /\ WalkHolds(Recvq(o), Listening(o))
  BY CallFacts DEF ObjectDestroy
<1>0. /\ valid' = valid \ {o} /\ links' = L2 /\ asleep' = asleep \ W /\ broken' = {}
      /\ slpret' = [u \in Thread |-> IF u \in W \cap asleep THEN "INVAL" ELSE slpret[u]]
      /\ UNCHANGED <<pc, sendobj, recvobj, sender, receiver, progress>>
  BY <1>2 DEF ObjectDestroy, partners, Unsleep, AbortWakes, WalkHolds
<1>3. IsMemory(Links, L1) /\ Agree(L1, links, Links \ ({Sendq(o)} \cup Unreceived(o)))
  <2>1. Items(Walk(links, Sendq(o))) = Unreceived(o) /\ Sendq(o) \in Links
    BY <1>2 DEF Queued, WalkHolds
  <2>. QED
    BY <1>1, <2>1, AbortedLinks
<1>4. Holds(L1, Recvq(o), Thread, Listening(o))
  <2>1. {Recvq(o)} \cup Listening(o) \subseteq Links \ ({Sendq(o)} \cup Unreceived(o))
    BY <1>2, LinkFacts, QueuesApart DEF WalkHolds
  <2>2. Holds(links, Recvq(o), Thread, Listening(o))
    BY <1>2 DEF WalkHolds
  <2>. QED
    BY <1>3, <2>1, <2>2, HoldsElsewhere
<1>5. IsMemory(Links, L2) /\ Agree(L2, L1, Links \ ({Recvq(o)} \cup Listening(o)))
  <2>1. Recvq(o) \in Links /\ Thread \subseteq Links
    BY LinkFacts
  <2>2. Items(Walk(L1, Recvq(o))) = Listening(o)
    <3>1. /\ Walk(L1, Recvq(o)) \in Seq(Thread) /\ Distinct(Walk(L1, Recvq(o)))
          /\ Items(Walk(L1, Recvq(o))) = Listening(o)
          /\ IsFiniteSet(Listening(o)) /\ Cardinality(Listening(o)) = Len(Walk(L1, Recvq(o)))
          /\ \A B : Thread \subseteq B => IsRing(L1, Recvq(o), B)
          /\ IsEmptyQueue(L1, Recvq(o)) <=> Listening(o) = {}
          /\ L1.prev[Recvq(o)] \in {Recvq(o)} \cup Listening(o)
          /\ Listening(o) \subseteq Thread /\ Recvq(o) \notin Listening(o)
      BY <1>3, <1>4, <2>1, LinksFinite, HoldsWalk
    <3>. QED
      BY <3>1
  <2>. QED
    BY <1>3, <2>1, <2>2, AbortedLinks
<1>6. TypeOK'
  <2>1. links' = [next |-> links'.next, prev |-> links'.prev]
    BY <1>0 DEF Aborted
  <2>. HIDE DEF L2
  <2>2. links' \in [next : [Links -> Links], prev : [Links -> Links]]
    BY <1>0, <1>5, <2>1 DEF IsMemory
  <2>. QED
    BY <1>0, <1>1, <2>2 DEF TypeOK
<1>. HIDE DEF L1, L2
<1>7. ASSUME NEW p \in valid'
      PROVE  /\ p \in valid /\ p # o
             /\ Unreceived(p)' = Unreceived(p) /\ Listening(p)' = Listening(p) /\ Coming(p)' = Coming(p)
             /\ Unreceived(p) \subseteq Thread /\ Listening(p) \subseteq Thread
  <2>1. p \in valid /\ p # o /\ Unreceived(p) \cap W = {} /\ Listening(p) \cap W = {}
    BY <1>0, QueuesApart
  <2>2. Unreceived(p)' = Unreceived(p) /\ Listening(p)' = Listening(p)
    BY <1>0, <2>1 DEF Unreceived, Listening
  <2>3. Coming(p)' = Coming(p)
    BY <1>0, <1>1, <2>1 DEF Coming, Unreceived, Listening, TypeOK
  <2>. QED
    BY <1>1, <2>1, <2>2, <2>3, CountsFinite
<1>8. Queues'
  <2>1. ASSUME NEW p \in valid'
        PROVE  Holds(L2, Sendq(p), Thread, Unreceived(p)) /\ Holds(L2, Recvq(p), Thread, Listening(p))
    <3>1. Holds(links, Sendq(p), Thread, Unreceived(p)) /\ Holds(links, Recvq(p), Thread, Listening(p))
      BY <1>1, <1>7 DEF Queues
    <3>2. /\ {Sendq(p)} \cup Unreceived(p) \subseteq Links \ ({Sendq(o)} \cup Unreceived(o))
          /\ {Sendq(p)} \cup Unreceived(p) \subseteq Links \ ({Recvq(o)} \cup Listening(o))
          /\ {Recvq(p)} \cup Listening(p) \subseteq Links \ ({Sendq(o)} \cup Unreceived(o))
          /\ {Recvq(p)} \cup Listening(p) \subseteq Links \ ({Recvq(o)} \cup Listening(o))
      BY <1>1, <1>2, <1>7, LinkFacts, QueuesApart DEF WalkHolds
    <3>3. Holds(L1, Sendq(p), Thread, Unreceived(p)) /\ Holds(L1, Recvq(p), Thread, Listening(p))
      BY <1>3, <3>1, <3>2, HoldsElsewhere
    <3>. QED
      BY <1>5, <3>2, <3>3, HoldsElsewhere
  <2>. QED
    BY <1>0, <1>7, <2>1 DEF Queues
<1>9. CallRoles'
  BY <1>0, <1>1, <1>6 DEF CallRoles, TypeOK
<1>10. Matched'
  <2>1. \A c \in Thread : receiver[c] # None => c \notin W
    BY <1>1 DEF Unreceived, Listening, Matched
  <2>. QED
    BY <1>0, <1>1, <2>1 DEF Matched
<1>11. PlacedBoth'
  BY <1>0, <1>1 DEF PlacedBoth, Unreceived, Listening
<1>12. ASSUME NoIdle PROVE NoIdle'
  BY <1>7, <1>12 DEF NoIdle
<1>. QED
  BY <1>8, <1>9, <1>10, <1>11, <1>12 DEF CallInv

LEMMA CallSend ==
  ASSUME CallInv, NEW t \in Thread, NEW o \in Object, Send(t, o)
  PROVE  CallInv' /\ (NoIdle => NoIdle')
<1>. DEFINE W == Woken(o)
            L == IF W = {} THEN links ELSE Removed(links, Top(Recvq(o)))
            M == Enqueued(L, Sendq(o), t)
<1>1. /\ CallRoles /\ Matched /\ PlacedBoth /\ Queues
      /\ TypeOK /\ IsMemory(Links, links) /\ valid \subseteq Object
  BY CallFacts DEF CallInv
<1>2. o \in valid /\ WalkHolds(Sendq(o), Unreceived(o)) /\ WalkHolds(Recvq(o), Listening(o))
  BY CallFacts DEF Send
<1>0. /\ pc[t] = "user" /\ links' = M /\ asleep' = (asleep \ W) \cup {t} /\ broken' = {}
      /\ slpret' = [u \in Thread |-> IF u \in W \cap asleep THEN "OK" ELSE slpret[u]]
      /\ sendobj' = [sendobj EXCEPT ![t] = o]
      /\ pc' = [pc EXCEPT ![t] = "send"]
      /\ progress' = [progress EXCEPT ![t] = "queued"]
      /\ UNCHANGED <<valid, recvobj, sender, receiver>>
  BY <1>2 DEF Send, Calls, partners, WalkHolds
<1>3. t \notin asleep /\ receiver[t] = None
  BY <1>0, <1>1 DEF CallRoles, Matched
<1>4. /\ W \subseteq Listening(o) /\ (Listening(o) # {} => W # {})
      /\ (W # {} => W = {Top(Recvq(o))})
  BY <1>2 DEF Woken, WalkHolds
<1>5. /\ IsMemory(Links, L) /\ Holds(L, Recvq(o), Thread, Listening(o) \ W)
      /\ Agree(L, links, Links \ ({Recvq(o)} \cup Listening(o)))
  <2>1. CASE W = {}
    <3>1. Listening(o) \ W = Listening(o)
      BY <2>1
    <3>. QED
      BY <1>1, <1>2, <2>1, <3>1 DEF WalkHolds, Agree
  <2>2. CASE W # {}
    <3>. DEFINE x == Top(Recvq(o))
    <3>1. W = {x} /\ x \in Listening(o)
      BY <1>4, <2>2
    <3>2. L = Removed(links, x)
      BY <2>2
    <3>. HIDE DEF x, L, W
    <3>3. /\ Holds(Removed(links, x), Recvq(o), Thread, Listening(o) \ {x})
          /\ Agree(Removed(links, x), links, Links \ ({Recvq(o)} \cup Listening(o)))
      BY <1>1, <1>2, <3>1, LinkFacts, HoldsLess DEF WalkHolds
    <3>4. x \in Links
      BY <1>2, <3>1, LinkFacts DEF WalkHolds
    <3>5. IsMemory(Links, Removed(links, x))
      BY <1>1, <3>4, MemoryKept
    <3>. QED
      BY <3>1, <3>2, <3>3, <3>5
  <2>. QED
    BY <2>1, <2>2
<1>. HIDE DEF W, L
<1>6. t \notin Unreceived(o) /\ t \notin Listening(o) /\ t \notin W /\ t # Sendq(o) /\ t # Recvq(o)
      /\ t \in Links /\ Thread \subseteq Links /\ Sendq(o) \in Links
  BY <1>3, <1>4, LinkFacts DEF Unreceived, Listening
<1>7. Holds(L, Sendq(o), Thread, Unreceived(o))
  <2>1. {Sendq(o)} \cup Unreceived(o) \subseteq Links \ ({Recvq(o)} \cup Listening(o))
    BY <1>2, LinkFacts, QueuesApart DEF WalkHolds
  <2>2. Holds(links, Sendq(o), Thread, Unreceived(o))
    BY <1>2 DEF WalkHolds
  <2>. QED
    BY <1>5, <2>1, <2>2, HoldsElsewhere
<1>8. /\ Holds(M, Sendq(o), Thread, Unreceived(o) \cup {t}) /\ IsMemory(Links, M)
      /\ Agree(M, L, Links \ ({Sendq(o), t} \cup Unreceived(o)))
  <2>1. t \notin {Sendq(o)} \cup Unreceived(o)
    BY <1>6
  <2>. QED
    BY <1>5, <1>6, <1>7, <2>1, HoldsMore, MemoryKept
<1>9. TypeOK'
  <2>1. links' = [next |-> links'.next, prev |-> links'.prev]
    BY <1>0 DEF Enqueued
  <2>. HIDE DEF M
  <2>2. links' \in [next : [Links -> Links], prev : [Links -> Links]]
    BY <1>0, <1>8, <2>1 DEF IsMemory
  <2>3. asleep' \subseteq Thread
    BY <1>0, <1>1 DEF TypeOK
  <2>. QED
    BY <1>0, <1>1, <2>2, <2>3 DEF TypeOK
<1>. HIDE DEF M
<1>10. Unreceived(o)' = Unreceived(o) \cup {t} /\ Listening(o)' = Listening(o) \ W
  <2>1. \A u \in asleep : u # t /\ u \in Thread /\ pc'[u] = pc[u] /\ sendobj'[u] = sendobj[u]
    BY <1>0, <1>1, <1>3 DEF TypeOK
  <2>2. pc'[t] = "send" /\ sendobj'[t] = o /\ t \in asleep'
    BY <1>0, <1>1 DEF TypeOK
  <2>3. W \cap Unreceived(o) = {}
    BY <1>4, QueuesApart
  <2>. QED
    BY <1>0, <1>3, <1>6, <2>1, <2>2, <2>3 DEF Unreceived, Listening
<1>11. ASSUME NEW p \in valid, p # o
       PROVE  Unreceived(p)' = Unreceived(p) /\ Listening(p)' = Listening(p) /\ Coming(p)' = Coming(p)
  <2>1. \A u \in asleep : u # t /\ u \in Thread /\ pc'[u] = pc[u] /\ sendobj'[u] = sendobj[u]
    BY <1>0, <1>1, <1>3 DEF TypeOK
  <2>2. pc'[t] = "send" /\ sendobj'[t] = o /\ t \in asleep' /\ pc[t] # "recv"
    BY <1>0, <1>1 DEF TypeOK
  <2>3. W \cap Unreceived(p) = {} /\ W \cap Listening(p) = {}
    BY <1>4, <1>11, QueuesApart
  <2>4. \A u \in W : u \in asleep /\ u \in Thread /\ recvobj[u] = o
    BY <1>1, <1>4 DEF Listening, TypeOK
  <2>5. Unreceived(p)' = Unreceived(p) /\ Listening(p)' = Listening(p)
    BY <1>0, <1>11, <2>1, <2>2, <2>3 DEF Unreceived, Listening
  <2>6. Coming(p)' = Coming(p)
    BY <1>0, <1>1, <1>11, <2>2, <2>4 DEF Coming, TypeOK
  <2>. QED
    BY <2>5, <2>6
<1>12. Queues'
  <2>1. Holds(M, Recvq(o), Thread, Listening(o) \ W)
    <3>1. {Recvq(o)} \cup (Listening(o) \ W) \subseteq Links \ ({Sendq(o), t} \cup Unreceived(o))
      BY <1>2, <1>6, LinkFacts, QueuesApart DEF WalkHolds
    <3>. QED
      BY <1>5, <1>8, <3>1, HoldsElsewhere
  <2>2. ASSUME NEW p \in valid, p # o
        PROVE  Holds(M, Sendq(p), Thread, Unreceived(p)) /\ Holds(M, Recvq(p), Thread, Listening(p))
    <3>1. /\ Holds(links, Sendq(p), Thread, Unreceived(p)) /\ Holds(links, Recvq(p), Thread, Listening(p))
          /\ Unreceived(p) \subseteq Thread /\ Listening(p) \subseteq Thread
      BY <1>1, CountsFinite DEF Queues
    <3>2. t \notin Unreceived(p) /\ t \notin Listening(p) /\ p \in Object
      BY <1>1, <1>3 DEF Unreceived, Listening
    <3>3. /\ {Sendq(p)} \cup Unreceived(p) \subseteq Links \ ({Sendq(o), t} \cup Unreceived(o))
          /\ {Sendq(p)} \cup Unreceived(p) \subseteq Links \ ({Recvq(o)} \cup Listening(o))
          /\ {Recvq(p)} \cup Listening(p) \subseteq Links \ ({Sendq(o), t} \cup Unreceived(o))
          /\ {Recvq(p)} \cup Listening(p) \subseteq Links \ ({Recvq(o)} \cup Listening(o))
      BY <1>2, <2>2, <3>1, <3>2, LinkFacts, QueuesApart DEF WalkHolds
    <3>4. Holds(L, Sendq(p), Thread, Unreceived(p)) /\ Holds(L, Recvq(p), Thread, Listening(p))
      BY <1>5, <3>1, <3>3, HoldsElsewhere
    <3>. QED
      BY <1>8, <3>3, <3>4, HoldsElsewhere, ZenonT(30)
  <2>. QED
    BY <1>0, <1>8, <1>10, <1>11, <2>1, <2>2 DEF Queues
<1>13. CallRoles'
  BY <1>0, <1>1, <1>2, <1>9, LinkFacts DEF CallRoles, TypeOK
<1>14. Matched'
  <2>1. \A c \in Thread : receiver[c] # None => c \notin W /\ c # t
    BY <1>1, <1>3, <1>4 DEF Listening, Matched
  <2>. QED
    BY <1>0, <1>1, <2>1 DEF Matched, TypeOK
<1>15. PlacedBoth'
  BY <1>0, <1>1, <1>2 DEF PlacedBoth, TypeOK
<1>16. ASSUME NoIdle PROVE NoIdle'
  <2>1. ASSUME Listening(o)' # {} PROVE Cardinality(Unreceived(o)') <= Cardinality(Coming(o)')
    <3>. DEFINE x == Top(Recvq(o))
    <3>1. Listening(o) # {} /\ W = {x} /\ x \in Listening(o)
      BY <1>4, <1>10, <2>1
    <3>2. Cardinality(Unreceived(o)) <= Cardinality(Coming(o))
      BY <1>2, <1>16, <3>1 DEF NoIdle
    <3>3. x \in asleep /\ x \in Thread /\ pc[x] = "recv" /\ recvobj[x] = o /\ x # t
      BY <1>1, <1>3, <3>1 DEF Listening, TypeOK
    <3>. HIDE DEF x
    <3>4. Coming(o)' = Coming(o) \cup {x} /\ x \notin Coming(o)
      BY <1>0, <1>1, <3>1, <3>3 DEF Coming, TypeOK
    <3>5. /\ Cardinality(Unreceived(o) \cup {t}) = Cardinality(Unreceived(o)) + 1
          /\ Cardinality(Coming(o) \cup {x}) = Cardinality(Coming(o)) + 1
      BY <1>1, <1>6, <3>4, CountsFinite, FS_AddElement
    <3>6. Cardinality(Unreceived(o)) \in Nat /\ Cardinality(Coming(o)) \in Nat
      BY <1>1, CountsFinite
    <3>. QED
      BY <1>10, <3>2, <3>4, <3>5, <3>6
  <2>. QED
    BY <1>0, <1>11, <1>16, <2>1 DEF NoIdle
<1>. QED
  BY <1>12, <1>13, <1>14, <1>15, <1>16 DEF CallInv

LEMMA CallSendReturn ==
  ASSUME CallInv, NEW t \in Thread, SendReturn(t)
  PROVE  CallInv' /\ (NoIdle => NoIdle')
<1>1. /\ CallRoles /\ Matched /\ PlacedBoth /\ Queues
      /\ TypeOK /\ IsMemory(Links, links) /\ valid \subseteq Object
  BY CallFacts DEF CallInv
<1>0. /\ pc[t] = "send" /\ t \notin asleep
      /\ sendobj' = [sendobj EXCEPT ![t] = None]
      /\ pc' = [pc EXCEPT ![t] = "user"]
      /\ UNCHANGED <<valid, links, asleep, slpret, recvobj, sender, receiver, progress, broken>>
  BY <1>1 DEF SendReturn, Returns, partners, LeaveIfInterrupted, CallRoles
<1>2. CallRoles' /\ Matched' /\ PlacedBoth'
  BY <1>0, <1>1 DEF CallRoles, Matched, PlacedBoth, TypeOK
<1>3. \A p : /\ Unreceived(p)' = Unreceived(p) /\ Listening(p)' = Listening(p)
             /\ Coming(p)' = Coming(p)
  BY <1>0, <1>1 DEF Unreceived, Listening, Coming, TypeOK
<1>4. Queues' /\ (NoIdle => NoIdle')
  BY <1>0, <1>1, <1>3 DEF Queues, NoIdle
<1>. QED
  BY <1>2, <1>4 DEF CallInv

\* t is at the top of the loop of msg_receive(o), and was not turned away.
Ready(t, o) ==
  /\ broken = {} /\ o \in valid /\ t \notin asleep
  /\ \/ pc[t] = "user" /\ recvobj[t] = None
     \/ pc[t] = "recv" /\ recvobj[t] = o

\* It handles no message and is in no queue.
LEMMA ReadyFacts ==
  ASSUME CallInv, NEW t \in Thread, NEW o \in Object, Ready(t, o)
  PROVE  /\ sender[t] = None /\ receiver[t] = None /\ pc[t] # "send"
         /\ \A c \in Thread : receiver[c] # t
         /\ \A p : t \notin Unreceived(p) /\ t \notin Listening(p) /\ (p # o => t \notin Coming(p))
         /\ WalkHolds(Sendq(o), Unreceived(o)) /\ WalkHolds(Recvq(o), Listening(o))
<1>1. CallRoles /\ Matched /\ TypeOK
  BY CallFacts DEF CallInv
<1>2. ASSUME NEW c \in Thread, receiver[c] = t PROVE FALSE
  <2>1. pc[c] = "send" /\ pc[t] # "recv" /\ recvobj[t] = sendobj[c]
    BY <1>1, <1>2, LinkFacts DEF Matched
  <2>2. sendobj[c] # None
    BY <1>1, <2>1 DEF CallRoles
  <2>. QED
    BY <2>1, <2>2 DEF Ready
<1>3. sender[t] = None
  <2>1. sender[t] \in Thread => receiver[sender[t]] = t
    BY <1>1 DEF Matched
  <2>. QED
    BY <1>1, <1>2, <2>1 DEF TypeOK
<1>4. receiver[t] = None
  BY <1>1 DEF Matched, Ready
<1>5. \A p : t \notin Unreceived(p) /\ t \notin Listening(p) /\ (p # o => t \notin Coming(p))
  BY DEF Unreceived, Listening, Coming, Ready
<1>6. WalkHolds(Sendq(o), Unreceived(o)) /\ WalkHolds(Recvq(o), Listening(o))
  BY CallFacts DEF Ready
<1>. QED
  BY <1>2, <1>3, <1>4, <1>5, <1>6 DEF Ready

LEMMA CallAwait ==
  ASSUME CallInv, NEW t \in Thread, NEW o \in Object, Ready(t, o),
         AwaitMessage(t, o), UNCHANGED <<valid, slpret, sendobj>>
  PROVE  CallInv' /\ (NoIdle => NoIdle')
<1>. DEFINE M == Enqueued(links, Recvq(o), t)
<1>1. /\ CallRoles /\ Matched /\ PlacedBoth /\ Queues
      /\ TypeOK /\ IsMemory(Links, links) /\ valid \subseteq Object
  BY CallFacts DEF CallInv
<1>2. /\ sender[t] = None /\ receiver[t] = None /\ pc[t] # "send"
      /\ \A c \in Thread : receiver[c] # t
      /\ \A p : t \notin Unreceived(p) /\ t \notin Listening(p) /\ (p # o => t \notin Coming(p))
      /\ WalkHolds(Sendq(o), Unreceived(o)) /\ WalkHolds(Recvq(o), Listening(o))
  BY ReadyFacts
<1>0. /\ o \in valid /\ t \notin asleep /\ links' = M /\ asleep' = asleep \cup {t} /\ broken' = {}
      /\ pc' = [pc EXCEPT ![t] = "recv"]
      /\ recvobj' = [recvobj EXCEPT ![t] = o]
      /\ UNCHANGED <<valid, slpret, sendobj, sender, receiver, progress>>
      /\ Unreceived(o) = {}
  BY <1>2 DEF AwaitMessage, partners, Ready, WalkHolds
<1>3. /\ Holds(M, Recvq(o), Thread, Listening(o) \cup {t}) /\ IsMemory(Links, M)
      /\ Agree(M, links, Links \ ({Recvq(o), t} \cup Listening(o)))
  <2>1. t \notin {Recvq(o)} \cup Listening(o) /\ t \in Links /\ Thread \subseteq Links /\ Recvq(o) \in Links
    BY <1>2, LinkFacts
  <2>2. Holds(links, Recvq(o), Thread, Listening(o))
    BY <1>2 DEF WalkHolds
  <2>. QED
    BY <1>1, <2>1, <2>2, HoldsMore, MemoryKept
<1>4. TypeOK'
  <2>1. links' = [next |-> links'.next, prev |-> links'.prev]
    BY <1>0 DEF Enqueued
  <2>. HIDE DEF M
  <2>2. links' \in [next : [Links -> Links], prev : [Links -> Links]]
    BY <1>0, <1>3, <2>1 DEF IsMemory
  <2>3. asleep' \subseteq Thread
    BY <1>0, <1>1 DEF TypeOK
  <2>. QED
    BY <1>0, <1>1, <2>2, <2>3 DEF TypeOK
<1>. HIDE DEF M
<1>5. \A u \in Thread : u # t => pc'[u] = pc[u] /\ recvobj'[u] = recvobj[u]
  BY <1>0, <1>1 DEF TypeOK
<1>6. pc'[t] = "recv" /\ recvobj'[t] = o
  BY <1>0, <1>1 DEF TypeOK
<1>7. /\ \A p : Unreceived(p)' = Unreceived(p)
      /\ Listening(o)' = Listening(o) \cup {t}
      /\ \A p : p # o => Listening(p)' = Listening(p) /\ Coming(p)' = Coming(p)
  <2>1. asleep \subseteq Thread
    BY <1>1 DEF TypeOK
  <2>2. \A p : Unreceived(p)' = Unreceived(p)
    BY <1>0, <1>5, <1>6, <2>1 DEF Unreceived
  <2>3. Listening(o)' = Listening(o) \cup {t}
    BY <1>0, <1>5, <1>6, <2>1 DEF Listening
  <2>4. \A p : p # o => Listening(p)' = Listening(p)
    BY <1>0, <1>5, <1>6, <2>1 DEF Listening
  <2>5. \A p : p # o => Coming(p)' = Coming(p)
    BY <1>0, <1>2, <1>5, <1>6, <2>1 DEF Coming
  <2>. QED
    BY <2>2, <2>3, <2>4, <2>5
<1>8. Queues'
  <2>1. ASSUME NEW p \in valid
        PROVE  /\ Holds(M, Sendq(p), Thread, Unreceived(p))
               /\ p # o => Holds(M, Recvq(p), Thread, Listening(p))
    <3>1. /\ Holds(links, Sendq(p), Thread, Unreceived(p)) /\ Holds(links, Recvq(p), Thread, Listening(p))
          /\ Unreceived(p) \subseteq Thread /\ Listening(p) \subseteq Thread
      BY <1>1, CountsFinite DEF Queues
    <3>2. /\ {Sendq(p)} \cup Unreceived(p) \subseteq Links \ ({Recvq(o), t} \cup Listening(o))
          /\ p # o => {Recvq(p)} \cup Listening(p) \subseteq Links \ ({Recvq(o), t} \cup Listening(o))
      BY <1>1, <1>2, <3>1, LinkFacts, QueuesApart DEF WalkHolds
    <3>. QED
      BY <1>3, <3>1, <3>2, HoldsElsewhere
  <2>. QED
    BY <1>0, <1>3, <1>7, <2>1 DEF Queues
<1>9. CallRoles'
  BY <1>0, <1>1, <1>4, LinkFacts DEF CallRoles, TypeOK
<1>10. Matched'
  BY <1>0, <1>1, <1>2, <1>5 DEF Matched, TypeOK
<1>11. PlacedBoth'
  BY <1>0, <1>1, <1>5, <1>6 DEF PlacedBoth, TypeOK
<1>12. ASSUME NoIdle PROVE NoIdle'
  <2>1. Cardinality(Unreceived(o)') <= Cardinality(Coming(o)')
    <3>1. Cardinality(Unreceived(o)') = 0
      BY <1>0, <1>7, FS_EmptySet
    <3>2. Coming(o)' \subseteq Thread
      BY DEF Coming
    <3>3. Cardinality(Coming(o)') \in Nat
      BY <3>2, IpcFinite, FS_Subset, FS_CardinalityType
    <3>. QED
      BY <3>1, <3>3
  <2>. QED
    BY <1>0, <1>7, <1>12, <2>1 DEF NoIdle
<1>. QED
  BY <1>8, <1>9, <1>10, <1>11, <1>12 DEF CallInv

LEMMA CallTake ==
  ASSUME CallInv, NEW t \in Thread, NEW o \in Object, Ready(t, o),
         TakeMessage(t, o), UNCHANGED <<valid, slpret, sendobj>>
  PROVE  CallInv' /\ (NoIdle => NoIdle')
<1>. DEFINE s == Top(Sendq(o))
            M == Removed(links, s)
<1>1. /\ CallRoles /\ Matched /\ PlacedBoth /\ Queues
      /\ TypeOK /\ IsMemory(Links, links) /\ valid \subseteq Object
  BY CallFacts DEF CallInv
<1>2. /\ sender[t] = None /\ receiver[t] = None /\ pc[t] # "send"
      /\ \A c \in Thread : receiver[c] # t
      /\ \A p : t \notin Unreceived(p) /\ t \notin Listening(p) /\ (p # o => t \notin Coming(p))
      /\ WalkHolds(Sendq(o), Unreceived(o)) /\ WalkHolds(Recvq(o), Listening(o))
  BY ReadyFacts
<1>0. /\ o \in valid /\ t \notin asleep /\ links' = M /\ broken' = {}
      /\ sender' = [sender EXCEPT ![t] = s]
      /\ receiver' = [receiver EXCEPT ![s] = t]
      /\ progress' = [progress EXCEPT ![s] = t]
      /\ pc' = [pc EXCEPT ![t] = "user"]
      /\ recvobj' = [recvobj EXCEPT ![t] = o]
      /\ UNCHANGED <<valid, slpret, sendobj, asleep>>
  BY <1>2 DEF TakeMessage, Ready, WalkHolds
<1>3. s \in Unreceived(o)
  BY <1>2 DEF TakeMessage, WalkHolds
<1>. HIDE DEF s
<1>4. /\ s \in asleep /\ pc[s] = "send" /\ sendobj[s] = o /\ receiver[s] = None
      /\ s \in Thread /\ s # t /\ s # None /\ t # None
  BY <1>1, <1>2, <1>3, LinkFacts DEF Unreceived, TypeOK
<1>5. /\ Holds(M, Sendq(o), Thread, Unreceived(o) \ {s})
      /\ Agree(M, links, Links \ ({Sendq(o)} \cup Unreceived(o)))
      /\ IsMemory(Links, M)
  <2>1. Thread \subseteq Links /\ Sendq(o) \in Links /\ s \in Links
    BY <1>4, LinkFacts
  <2>2. Holds(links, Sendq(o), Thread, Unreceived(o))
    BY <1>2 DEF WalkHolds
  <2>. QED
    BY <1>1, <1>3, <2>1, <2>2, HoldsLess, MemoryKept
<1>6. TypeOK'
  <2>1. links' = [next |-> links'.next, prev |-> links'.prev]
    BY <1>0 DEF Removed
  <2>. HIDE DEF M
  <2>2. links' \in [next : [Links -> Links], prev : [Links -> Links]]
    BY <1>0, <1>5, <2>1 DEF IsMemory
  <2>. QED
    BY <1>0, <1>1, <1>4, <2>2 DEF TypeOK
<1>. HIDE DEF M
<1>7. /\ \A u \in Thread : u # t => pc'[u] = pc[u] /\ recvobj'[u] = recvobj[u] /\ sender'[u] = sender[u]
      /\ \A u \in Thread : u # s => receiver'[u] = receiver[u]
      /\ pc'[t] = "user" /\ recvobj'[t] = o /\ sender'[t] = s /\ receiver'[s] = t
      /\ asleep \subseteq Thread
  BY <1>0, <1>1, <1>4 DEF TypeOK
<1>8. /\ Unreceived(o)' = Unreceived(o) \ {s}
      /\ \A p : p # o => Unreceived(p)' = Unreceived(p)
      /\ \A p : Listening(p)' = Listening(p)
      /\ \A p : Coming(p)' = Coming(p) \ {t}
  <2>1. Unreceived(o)' = Unreceived(o) \ {s}
    BY <1>0, <1>4, <1>7 DEF Unreceived
  <2>2. \A p : p # o => Unreceived(p)' = Unreceived(p)
    BY <1>0, <1>4, <1>7 DEF Unreceived
  <2>3. \A p : Listening(p)' = Listening(p)
    BY <1>0, <1>7 DEF Listening
  <2>4. \A p : Coming(p)' = Coming(p) \ {t}
    BY <1>0, <1>7 DEF Coming
  <2>. QED
    BY <2>1, <2>2, <2>3, <2>4
<1>9. Queues'
  <2>1. ASSUME NEW p \in valid
        PROVE  /\ p # o => Holds(M, Sendq(p), Thread, Unreceived(p))
               /\ Holds(M, Recvq(p), Thread, Listening(p))
    <3>1. /\ Holds(links, Sendq(p), Thread, Unreceived(p)) /\ Holds(links, Recvq(p), Thread, Listening(p))
          /\ Unreceived(p) \subseteq Thread /\ Listening(p) \subseteq Thread
      BY <1>1, CountsFinite DEF Queues
    <3>2. /\ p # o => {Sendq(p)} \cup Unreceived(p) \subseteq Links \ ({Sendq(o)} \cup Unreceived(o))
          /\ {Recvq(p)} \cup Listening(p) \subseteq Links \ ({Sendq(o)} \cup Unreceived(o))
      BY <1>1, <1>2, <3>1, LinkFacts, QueuesApart DEF WalkHolds
    <3>. QED
      BY <1>5, <3>1, <3>2, HoldsElsewhere
  <2>. QED
    BY <1>0, <1>5, <1>8, <2>1 DEF Queues
<1>10. CallRoles'
  BY <1>0, <1>1, <1>6, <1>7, <1>4 DEF CallRoles
<1>11. Matched'
  <2>1. ASSUME NEW u \in Thread, NEW c \in Thread
        PROVE  sender'[u] = c <=> receiver'[c] = u
    <3>1. sender[u] = c <=> receiver[c] = u
      BY <1>1 DEF Matched
    <3>2. receiver[s] # u /\ sender[t] # c
      BY <1>2, <1>4, LinkFacts
    <3>3. receiver[c] # t /\ sender[u] # s
      BY <1>1, <1>2, <1>4, LinkFacts DEF Matched
    <3>. QED
      BY <1>7, <3>1, <3>2, <3>3
  <2>2. ASSUME NEW c \in Thread, receiver'[c] # None
        PROVE  /\ c \in asleep /\ pc'[c] = "send" /\ pc'[receiver'[c]] # "recv"
               /\ recvobj'[receiver'[c]] = sendobj[c]
    <3>1. CASE c = s
      BY <1>4, <1>7, <3>1
    <3>2. CASE c # s
      <4>1. receiver'[c] = receiver[c] /\ receiver[c] # t /\ receiver[c] \in Thread /\ c # t
        BY <1>1, <1>2, <1>7, <2>2, <3>2 DEF TypeOK
      <4>. QED
        BY <1>1, <1>7, <2>2, <4>1 DEF Matched
    <3>. QED
      BY <3>1, <3>2
  <2>. QED
    BY <1>0, <2>1, <2>2 DEF Matched
<1>12. PlacedBoth'
  BY <1>0, <1>1, <1>4, <1>7 DEF PlacedBoth
<1>13. ASSUME NoIdle PROVE NoIdle'
  <2>1. ASSUME Listening(o)' # {} PROVE Cardinality(Unreceived(o)') <= Cardinality(Coming(o)')
    <3>1. Cardinality(Unreceived(o)) <= Cardinality(Coming(o))
      BY <1>0, <1>8, <1>13, <2>1 DEF NoIdle
    <3>2. Cardinality(Unreceived(o) \ {s}) = Cardinality(Unreceived(o)) - 1
      BY <1>1, <1>3, CountsFinite, FS_RemoveElement
    <3>3. Cardinality(Coming(o) \ {t}) >= Cardinality(Coming(o)) - 1
      <4>1. CASE t \in Coming(o)
        <5>1. Cardinality(Coming(o) \ {t}) = Cardinality(Coming(o)) - 1
          BY <1>1, <4>1, CountsFinite, FS_RemoveElement
        <5>2. Cardinality(Coming(o)) \in Nat
          BY <1>1, CountsFinite
        <5>. QED
          BY <5>1, <5>2
      <4>2. CASE t \notin Coming(o)
        <5>1. Coming(o) \ {t} = Coming(o)
          BY <4>2
        <5>2. Cardinality(Coming(o) \ {t}) = Cardinality(Coming(o))
          BY <5>1
        <5>3. Cardinality(Coming(o)) \in Nat
          BY <1>1, CountsFinite
        <5>. QED
          BY <5>2, <5>3
      <4>. QED
        BY <4>1, <4>2
    <3>4. Cardinality(Unreceived(o)) \in Nat /\ Cardinality(Coming(o)) \in Nat
      BY <1>1, CountsFinite
    <3>5. Cardinality(Coming(o) \ {t}) \in Nat
      BY <1>1, CountsFinite, FS_Subset, FS_CardinalityType
    <3>. QED
      BY <1>8, <3>1, <3>2, <3>3, <3>4, <3>5
  <2>2. ASSUME NEW p, p # o PROVE Coming(p)' = Coming(p)
    BY <1>2, <1>8, <2>2
  <2>. QED
    BY <1>0, <1>8, <1>13, <2>1, <2>2 DEF NoIdle
<1>. QED
  BY <1>9, <1>10, <1>11, <1>12, <1>13 DEF CallInv

LEMMA CallPutBack ==
  ASSUME CallInv, NEW t \in Thread, NEW o \in Object, Ready(t, o),
         PutBack(t, o), UNCHANGED <<valid, slpret, sendobj>>
  PROVE  CallInv'
<1>. DEFINE s == Top(Sendq(o))
            L == Removed(links, s)
            M == Enqueued(L, Sendq(o), s)
<1>1. /\ CallRoles /\ Matched /\ PlacedBoth /\ Queues
      /\ TypeOK /\ IsMemory(Links, links) /\ valid \subseteq Object
  BY CallFacts DEF CallInv
<1>2. /\ sender[t] = None /\ receiver[t] = None /\ pc[t] # "send"
      /\ \A c \in Thread : receiver[c] # t
      /\ \A p : t \notin Unreceived(p) /\ t \notin Listening(p) /\ (p # o => t \notin Coming(p))
      /\ WalkHolds(Sendq(o), Unreceived(o)) /\ WalkHolds(Recvq(o), Listening(o))
  BY ReadyFacts
<1>0. /\ o \in valid /\ t \notin asleep /\ links' = M
      /\ pc' = [pc EXCEPT ![t] = "user"]
      /\ recvobj' = [recvobj EXCEPT ![t] = None]
      /\ UNCHANGED <<valid, slpret, sendobj, asleep, sender, receiver, progress, broken>>
  BY DEF PutBack, partners, Ready
<1>3. s \in Unreceived(o)
  BY <1>2 DEF PutBack, WalkHolds
<1>. HIDE DEF s
<1>4. s \in Thread /\ s \in Links /\ s # Sendq(o) /\ Thread \subseteq Links /\ Sendq(o) \in Links
  BY <1>1, <1>3, CountsFinite, LinkFacts
<1>5. /\ Holds(L, Sendq(o), Thread, Unreceived(o) \ {s})
      /\ Agree(L, links, Links \ ({Sendq(o)} \cup Unreceived(o)))
      /\ IsMemory(Links, L)
  <2>1. Holds(links, Sendq(o), Thread, Unreceived(o))
    BY <1>2 DEF WalkHolds
  <2>. QED
    BY <1>1, <1>3, <1>4, <2>1, HoldsLess, MemoryKept
<1>. HIDE DEF L
<1>6. /\ Holds(M, Sendq(o), Thread, (Unreceived(o) \ {s}) \cup {s})
      /\ Agree(M, L, Links \ ({Sendq(o), s} \cup (Unreceived(o) \ {s})))
      /\ IsMemory(Links, M)
  <2>1. s \notin {Sendq(o)} \cup (Unreceived(o) \ {s})
    BY <1>4
  <2>. QED
    BY <1>4, <1>5, <2>1, HoldsMore, MemoryKept
<1>7. TypeOK'
  <2>1. links' = [next |-> links'.next, prev |-> links'.prev]
    BY <1>0 DEF Enqueued
  <2>. HIDE DEF M
  <2>2. links' \in [next : [Links -> Links], prev : [Links -> Links]]
    BY <1>0, <1>6, <2>1 DEF IsMemory
  <2>. QED
    BY <1>0, <1>1, <1>4, <2>2 DEF TypeOK
<1>. HIDE DEF M
<1>8. /\ Holds(M, Sendq(o), Thread, Unreceived(o))
      /\ Agree(M, links, Links \ ({Sendq(o)} \cup Unreceived(o)))
  <2>1. (Unreceived(o) \ {s}) \cup {s} = Unreceived(o)
    BY <1>3
  <2>2. Links \ ({Sendq(o), s} \cup (Unreceived(o) \ {s})) = Links \ ({Sendq(o)} \cup Unreceived(o))
    BY <1>3
  <2>3. Agree(M, L, Links \ ({Sendq(o)} \cup Unreceived(o)))
    BY <1>6, <2>2
  <2>. QED
    BY <1>5, <1>6, <2>1, <2>3 DEF Agree
<1>9. /\ \A u \in Thread : u # t => pc'[u] = pc[u] /\ recvobj'[u] = recvobj[u]
      /\ pc'[t] = "user" /\ asleep \subseteq Thread
  BY <1>0, <1>1 DEF TypeOK
<1>10. \A p : Unreceived(p)' = Unreceived(p) /\ Listening(p)' = Listening(p)
  <2>1. \A p : Unreceived(p)' = Unreceived(p)
    BY <1>0, <1>2, <1>9 DEF Unreceived
  <2>2. \A p : Listening(p)' = Listening(p)
    BY <1>0, <1>9 DEF Listening
  <2>. QED
    BY <2>1, <2>2
<1>11. Queues'
  <2>1. ASSUME NEW p \in valid
        PROVE  /\ p # o => Holds(M, Sendq(p), Thread, Unreceived(p))
               /\ Holds(M, Recvq(p), Thread, Listening(p))
    <3>1. /\ Holds(links, Sendq(p), Thread, Unreceived(p)) /\ Holds(links, Recvq(p), Thread, Listening(p))
          /\ Unreceived(p) \subseteq Thread /\ Listening(p) \subseteq Thread
      BY <1>1, CountsFinite DEF Queues
    <3>2. /\ p # o => {Sendq(p)} \cup Unreceived(p) \subseteq Links \ ({Sendq(o)} \cup Unreceived(o))
          /\ {Recvq(p)} \cup Listening(p) \subseteq Links \ ({Sendq(o)} \cup Unreceived(o))
      BY <1>1, <1>2, <3>1, LinkFacts, QueuesApart DEF WalkHolds
    <3>. QED
      BY <1>8, <3>1, <3>2, HoldsElsewhere
  <2>. QED
    BY <1>0, <1>8, <1>10, <2>1 DEF Queues
<1>12. CallRoles'
  BY <1>0, <1>1, <1>7, <1>9 DEF CallRoles
<1>13. Matched'
  <2>1. ASSUME NEW c \in Thread, receiver[c] # None
        PROVE  /\ c \in asleep /\ pc'[c] = "send" /\ pc'[receiver[c]] # "recv"
               /\ recvobj'[receiver[c]] = sendobj[c]
    <3>1. c # t /\ receiver[c] # t /\ receiver[c] \in Thread
      BY <1>1, <1>2, <2>1 DEF TypeOK
    <3>. QED
      BY <1>1, <1>9, <2>1, <3>1 DEF Matched
  <2>. QED
    BY <1>0, <1>1, <2>1 DEF Matched
<1>14. PlacedBoth'
  BY <1>0, <1>1, <1>9 DEF PlacedBoth
<1>. QED
  BY <1>11, <1>12, <1>13, <1>14 DEF CallInv

LEMMA CallReceive ==
  ASSUME CallInv, NEW t \in Thread, NEW o \in Object, Receive(t, o)
  PROVE  CallInv' /\ ("fault" \notin Ops => (NoIdle => NoIdle'))
<1>1. Ready(t, o)
  <2>1. t \notin asleep
    BY DEF CallInv, CallRoles, Receive, Calls
  <2>. QED
    BY <2>1 DEF Receive, Calls, Ready
<1>2. "fault" \in Ops \/ ~PutBack(t, o)
  BY DEF PutBack
<1>. QED
  BY <1>1, <1>2, CallAwait, CallTake, CallPutBack DEF Receive

LEMMA CallReceiveWoken ==
  ASSUME CallInv, NEW t \in Thread, ReceiveWoken(t)
  PROVE  CallInv' /\ ("fault" \notin Ops => (NoIdle => NoIdle'))
<1>0. broken = {} /\ pc[t] = "recv" /\ t \notin asleep /\ UNCHANGED <<valid, slpret, sendobj>>
  BY DEF ReceiveWoken, Returns
<1>1. CallRoles /\ Matched /\ PlacedBoth /\ Queues /\ TypeOK
  BY CallFacts DEF CallInv
<1>2. CASE recvobj[t] \in valid
  <2>. DEFINE o == recvobj[t]
  <2>1. o \in Object /\ Ready(t, o)
    BY <1>0, <1>1, <1>2 DEF Ready, TypeOK
  <2>2. AwaitMessage(t, o) \/ TakeMessage(t, o) \/ PutBack(t, o)
    BY <1>2 DEF ReceiveWoken
  <2>. HIDE DEF o
  <2>3. "fault" \in Ops \/ ~PutBack(t, o)
    BY DEF PutBack
  <2>. QED
    BY <1>0, <2>1, <2>2, <2>3, CallAwait, CallTake, CallPutBack
<1>3. CASE recvobj[t] \notin valid
  <2>1. /\ broken' = {"object"}
        /\ UNCHANGED <<links, pc, asleep, recvobj, sender, receiver, progress>>
    BY <1>3 DEF ReceiveWoken, partners
  <2>2. CallRoles' /\ Matched' /\ PlacedBoth'
    BY <1>0, <1>1, <2>1 DEF CallRoles, TypeOK, Matched, PlacedBoth
  <2>3. \A p : /\ Unreceived(p)' = Unreceived(p) /\ Listening(p)' = Listening(p)
               /\ Coming(p)' = Coming(p)
    BY <1>0, <2>1 DEF Unreceived, Listening, Coming
  <2>4. Queues' /\ (NoIdle => NoIdle')
    BY <1>0, <1>1, <2>1, <2>3 DEF Queues, NoIdle
  <2>. QED
    BY <2>2, <2>4 DEF CallInv
<1>. QED
  BY <1>2, <1>3

LEMMA CallReceiveFails ==
  ASSUME CallInv, NEW t \in Thread, ReceiveFails(t)
  PROVE  CallInv' /\ (NoIdle => NoIdle')
<1>1. CallRoles /\ Matched /\ PlacedBoth /\ Queues /\ TypeOK
  BY CallFacts DEF CallInv
<1>0. /\ pc[t] = "recv" /\ t \notin asleep /\ slpret[t] = "INVAL"
      /\ recvobj' = [recvobj EXCEPT ![t] = None]
      /\ pc' = [pc EXCEPT ![t] = "user"]
      /\ UNCHANGED <<valid, links, asleep, slpret, sendobj, sender, receiver, progress, broken>>
  BY <1>1 DEF ReceiveFails, Returns, partners, LeaveIfInterrupted, CallRoles
<1>2. /\ \A u \in Thread : u # t => pc'[u] = pc[u] /\ recvobj'[u] = recvobj[u]
      /\ pc'[t] = "user" /\ recvobj'[t] = None /\ asleep \subseteq Thread
  BY <1>0, <1>1 DEF TypeOK
<1>3. CallRoles'
  BY <1>0, <1>1, LinkFacts DEF CallRoles, TypeOK
<1>4. Matched'
  <2>1. ASSUME NEW c \in Thread, receiver[c] # None
        PROVE  c # t /\ receiver[c] # t /\ receiver[c] \in Thread
    BY <1>0, <1>1, <2>1 DEF Matched, TypeOK
  <2>. QED
    BY <1>0, <1>1, <1>2, <2>1 DEF Matched
<1>5. PlacedBoth'
  BY <1>0, <1>1, <1>2 DEF PlacedBoth
<1>6. \A p : /\ Unreceived(p)' = Unreceived(p) /\ Listening(p)' = Listening(p)
             /\ Coming(p)' = Coming(p)
  <2>1. \A p : Unreceived(p)' = Unreceived(p)
    BY <1>0, <1>2 DEF Unreceived
  <2>2. \A p : Listening(p)' = Listening(p)
    BY <1>0, <1>2 DEF Listening
  <2>3. \A p : Coming(p)' = Coming(p)
    BY <1>0, <1>2 DEF Coming
  <2>. QED
    BY <2>1, <2>2, <2>3
<1>7. Queues' /\ (NoIdle => NoIdle')
  BY <1>0, <1>1, <1>6 DEF Queues, NoIdle
<1>. QED
  BY <1>3, <1>4, <1>5, <1>7 DEF CallInv

LEMMA CallReply ==
  ASSUME CallInv, NEW t \in Thread, Reply(t)
  PROVE  CallInv' /\ (NoIdle => NoIdle')
<1>. DEFINE s == sender[t]
<1>1. CallRoles /\ Matched /\ PlacedBoth /\ Queues /\ TypeOK
  BY CallFacts DEF CallInv
<1>0. /\ pc[t] = "user" /\ t \notin asleep
      /\ sender' = [sender EXCEPT ![t] = None]
      /\ recvobj' = [recvobj EXCEPT ![t] = None]
      /\ UNCHANGED <<valid, links, pc, sendobj>>
  BY <1>1 DEF Reply, Calls, CallRoles
<1>2. /\ \A u \in Thread : u # t => recvobj'[u] = recvobj[u] /\ sender'[u] = sender[u]
      /\ recvobj'[t] = None /\ sender'[t] = None /\ asleep \subseteq Thread
  BY <1>0, <1>1 DEF TypeOK
<1>3. CASE s = None
  <2>1. UNCHANGED <<asleep, slpret, receiver, progress, broken>>
    BY <1>3 DEF Reply
  <2>2. \A c \in Thread : receiver[c] # t
    BY <1>1, <1>3, LinkFacts DEF Matched
  <2>3. CallRoles'
    BY <1>0, <1>1, <1>2, <2>1 DEF CallRoles, TypeOK
  <2>4. Matched'
    <3>1. \A c \in Thread : receiver[c] # None => receiver[c] # t /\ receiver[c] \in Thread
      BY <1>1, <2>2 DEF TypeOK
    <3>2. \A c \in Thread : sender[t] # c
      BY <1>3, LinkFacts
    <3>. QED
      BY <1>0, <1>1, <1>2, <2>1, <2>2, <3>1, <3>2, LinkFacts DEF Matched
  <2>5. PlacedBoth'
    BY <1>0, <1>1, <1>2, <2>1 DEF PlacedBoth
  <2>6. \A p : /\ Unreceived(p)' = Unreceived(p) /\ Listening(p)' = Listening(p)
               /\ Coming(p)' = Coming(p)
    <3>1. \A p : Unreceived(p)' = Unreceived(p)
      BY <1>0, <2>1 DEF Unreceived
    <3>2. \A p : Listening(p)' = Listening(p)
      BY <1>0, <1>2, <2>1 DEF Listening
    <3>3. \A p : Coming(p)' = Coming(p)
      BY <1>0, <1>2, <2>1 DEF Coming
    <3>. QED
      BY <3>1, <3>2, <3>3
  <2>7. Queues' /\ (NoIdle => NoIdle')
    BY <1>0, <1>1, <2>1, <2>6 DEF Queues, NoIdle
  <2>. QED
    BY <2>3, <2>4, <2>5, <2>7 DEF CallInv
<1>4. CASE s # None
  <2>1. /\ s \in asleep /\ pc[s] = "send" /\ receiver[s] = t /\ s \in Thread /\ s # t
    BY <1>0, <1>1, <1>4, LinkFacts DEF Matched, TypeOK
  <2>2. /\ asleep' = asleep \ {s}
        /\ slpret' = [u \in Thread |-> IF u \in {s} \cap asleep THEN "OK" ELSE slpret[u]]
        /\ receiver' = [receiver EXCEPT ![s] = None]
        /\ progress' = [progress EXCEPT ![s] = IF @ = t THEN "replied" ELSE @]
        /\ broken' = {}
    BY <1>4, CallFacts DEF Reply, Unsleep
  <2>. HIDE DEF s
  <2>3. TypeOK'
    <3>1. progress' \in [Thread -> {"queued", "replied"} \cup Thread]
      BY <1>1, <2>1, <2>2 DEF TypeOK
    <3>. QED
      BY <1>0, <1>1, <2>1, <2>2, <3>1 DEF TypeOK
  <2>4. /\ \A u \in Thread : u # s => receiver'[u] = receiver[u] /\ slpret'[u] = slpret[u]
        /\ receiver'[s] = None /\ slpret'[s] = "OK"
    BY <1>1, <2>1, <2>2 DEF TypeOK
  <2>5. CallRoles'
    BY <1>0, <1>1, <1>2, <2>1, <2>2, <2>3, <2>4 DEF CallRoles
  <2>6. Matched'
    <3>1. ASSUME NEW u \in Thread, NEW c \in Thread
          PROVE  sender'[u] = c <=> receiver'[c] = u
      <4>1. sender[u] = c <=> receiver[c] = u
        BY <1>1 DEF Matched
      <4>2. sender[u] = s <=> u = t
        BY <1>1, <2>1, LinkFacts DEF Matched
      <4>3. c # None /\ u # None
        BY LinkFacts
      <4>4. sender[t] = s
        BY DEF s
      <4>. QED
        BY <1>2, <2>1, <2>4, <4>1, <4>2, <4>3, <4>4
    <3>2. ASSUME NEW c \in Thread, receiver'[c] # None
          PROVE  /\ c \in asleep' /\ pc[c] = "send" /\ pc[receiver'[c]] # "recv"
                 /\ recvobj'[receiver'[c]] = sendobj[c]
      <4>1. c # s /\ receiver'[c] = receiver[c] /\ receiver[c] \in Thread
        BY <1>1, <2>4, <3>2 DEF TypeOK
      <4>2. sender[receiver[c]] = c
        BY <1>1, <4>1 DEF Matched
      <4>3. receiver[c] # t
        BY <4>1, <4>2 DEF s
      <4>. QED
        BY <1>1, <1>2, <2>2, <3>2, <4>1, <4>3 DEF Matched
    <3>. QED
      BY <1>0, <3>1, <3>2 DEF Matched
  <2>7. PlacedBoth'
    BY <1>0, <1>1, <1>2, <2>1, <2>2, <2>4 DEF PlacedBoth
  <2>8. \A p : /\ Unreceived(p)' = Unreceived(p) /\ Listening(p)' = Listening(p)
               /\ Coming(p)' = Coming(p)
    <3>1. \A p : Unreceived(p)' = Unreceived(p)
      BY <1>0, <1>1, <2>1, <2>2, <2>4, LinkFacts DEF Unreceived, TypeOK
    <3>2. \A p : Listening(p)' = Listening(p)
      BY <1>0, <1>2, <2>1, <2>2 DEF Listening
    <3>3. \A p : Coming(p)' = Coming(p)
      BY <1>0, <1>2, <2>1, <2>2, <2>4 DEF Coming
    <3>. QED
      BY <3>1, <3>2, <3>3
  <2>9. Queues' /\ (NoIdle => NoIdle')
    BY <1>0, <1>1, <2>8 DEF Queues, NoIdle
  <2>. QED
    BY <2>5, <2>6, <2>7, <2>9 DEF CallInv
<1>. QED
  BY <1>3, <1>4

LEMMA CallNext ==
  ASSUME Undisturbed, CallInv, [Next]_vars
  PROVE  CallInv' /\ ("fault" \notin Ops => (NoIdle => NoIdle'))
<1>1. ASSUME NEW t \in Thread
      PROVE  ~Interrupt(t) /\ ~Kill(t)
  BY DEF Undisturbed, Interrupt, Kill
<1>2. CASE UNCHANGED vars
  <2>1. CallInv'
    <3>1. /\ UNCHANGED <<valid, links, pc, asleep, slpret, sendobj, recvobj>>
          /\ UNCHANGED <<sender, receiver, progress, broken>>
      BY <1>2 DEF vars
    <3>2. CallRoles' /\ Matched' /\ PlacedBoth'
      BY <3>1 DEF CallInv, CallRoles, TypeOK, Matched, PlacedBoth
    <3>3. Queues'
      BY <3>1 DEF CallInv, Queues, Unreceived, Listening
    <3>. QED
      BY <3>2, <3>3 DEF CallInv
  <2>2. NoIdle => NoIdle'
    BY <1>2 DEF NoIdle, vars, Unreceived, Listening, Coming
  <2>. QED
    BY <2>1, <2>2
<1>. QED
  BY <1>1, <1>2, CallCreate, CallDestroy, CallSend, CallSendReturn, CallReceive, CallReceiveWoken,
     CallReceiveFails, CallReply DEF Next

LEMMA CallMeans ==
  ASSUME CallInv
  PROVE  PartnersMatch /\ LinksIntact /\ (NoIdle => NoIdleReceiver)
<1>1. PartnersMatch
  BY DEF CallInv, Matched, PartnersMatch
<1>2. LinksIntact
  BY DEF CallInv, CallRoles, LinksIntact
<1>3. ASSUME NoIdle PROVE NoIdleReceiver
  <2>1. ASSUME NEW o \in valid, \E t \in asleep : pc[t] = "recv" /\ recvobj[t] = o
        PROVE  Len(Queued(Sendq(o)))
                 <= Cardinality({t \in Thread \ asleep : /\ pc[t] = "recv" /\ recvobj[t] = o
                                                         /\ slpret[t] = "OK"})
    <3>1. Listening(o) # {}
      BY <2>1 DEF Listening
    <3>2. Cardinality(Unreceived(o)) = Len(Queued(Sendq(o)))
      BY CallFacts DEF WalkHolds
    <3>. QED
      BY <1>3, <3>1, <3>2 DEF NoIdle, Coming
  <2>. QED
    BY <2>1 DEF NoIdleReceiver
<1>. QED
  BY <1>1, <1>2, <1>3

LEMMA CallInvariant ==
  ASSUME Undisturbed
  PROVE  Spec => []CallInv
<1>1. Init => CallInv
  BY CallInit
<1>2. CallInv /\ [Next]_vars => CallInv'
  BY CallNext
<1>. QED
  BY <1>1, <1>2, PTL DEF Spec

\* Between threads that are neither interrupted nor terminated, sender and
\* receiver name each other: a reply finds the thread that sent the message.
THEOREM PartnersAgree ==
  ASSUME Undisturbed
  PROVE  Spec => []PartnersMatch
<1>1. CallInv => PartnersMatch
  BY CallMeans
<1>. QED
  BY <1>1, CallInvariant, PTL

\* However objects are created and destroyed under the sleepers, and whatever
\* faults make msg_receive() put a message back, no link leads astray.
THEOREM QueuesSound ==
  ASSUME Undisturbed
  PROVE  Spec => []LinksIntact
<1>1. CallInv => LinksIntact
  BY CallMeans
<1>. QED
  BY <1>1, CallInvariant, PTL

\* No receiver sleeps beside a message nobody is coming for: a message put back
\* is the one way there, so no buffer is bad here.
THEOREM ReceiversAwake ==
  ASSUME Undisturbed, "fault" \notin Ops
  PROVE  Spec => []NoIdleReceiver
<1>1. Init => CallInv /\ NoIdle
  BY CallInit
<1>2. CallInv /\ NoIdle /\ [Next]_vars => CallInv' /\ NoIdle'
  BY CallNext
<1>3. CallInv /\ NoIdle => NoIdleReceiver
  BY CallMeans
<1>. QED
  BY <1>1, <1>2, <1>3, PTL DEF Spec
=============================================================================
