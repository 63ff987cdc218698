-------------------------------- MODULE Ipc --------------------------------
(***************************************************************************)
(* Synchronous messages between threads, sys/ipc/msg.c, through objects,   *)
(* sys/ipc/object.c: msg_send() blocks until another thread has received   *)
(* the message and replied.                                                *)
(*                                                                         *)
(* A system call holds the scheduler lock, so it is one step up to its     *)
(* sched_sleep() and one step from there on.  A thread is linked in the    *)
(* send queue or the receive queue of an object through its one ipc_link,  *)
(* and sleeps on an event all of IPC shares: sched_unsleep() wakes it, but *)
(* leaves it in the object's queue.  The links are modelled with their     *)
(* pointers, since msg.c removes a link that may be out of its queue.      *)
(***************************************************************************)
EXTENDS Integers, Sequences, FiniteSets, PrexQueue, PrexLinks

CONSTANTS
  Thread,         \* threads that use IPC
  Server,         \* those of the task that creates the objects
  Client,         \* the threads that call msg_send()
  Object,         \* addresses of struct object
  None,           \* the NULL pointer
  Priority,       \* t->priority, smaller is better
  Interruptible,  \* threads that receive exceptions
  Killable,       \* threads that are terminated
  Ops             \* "destroy", "fault": may objects be destroyed, and may
                  \* the buffers passed to msg_receive() be bad

ASSUME IpcAssumption ==
  /\ Server \subseteq Thread
  /\ Client \subseteq Thread
  /\ None \notin Thread \cup Object
  /\ Priority \in [Thread -> Nat]
  /\ Interruptible \subseteq Thread
  /\ Killable \subseteq Thread
  /\ Ops \subseteq {"destroy", "fault"}

ASSUME IpcFinite == IsFiniteSet(Thread) /\ IsFiniteSet(Object)

\* The heads of the two queues of an object.
Sendq(o) == <<o, "sendq">>
Recvq(o) == <<o, "recvq">>
Heads == {Sendq(o) : o \in Object} \cup {Recvq(o) : o \in Object}
Links == Thread \cup Heads \cup {None}

ASSUME IpcLinks == Thread \cap Heads = {} /\ None \notin Heads

VARIABLES
  valid,     \* the objects on object_list
  links,     \* ipc_link of every thread, sendq and recvq of every object
  pc,        \* user, send in msg_send(), recv in msg_receive(), dead
  asleep,    \* the threads asleep on ipc_event
  slpret,    \* t->slpret
  sendobj,   \* t->sendobj
  recvobj,   \* t->recvobj
  sender,    \* t->sender
  receiver,  \* t->receiver
  progress,  \* history: what became of t's message: it is "queued", the
             \* thread named has received it, it is "replied"
  broken     \* history: "link" once a link was used that is NULL or on no
             \* ring, "object" or "thread" once a freed structure was used,
             \* "panic" once msg_receive() panicked; the kernel's memory is
             \* garbage, or it stops, from then on

vars == <<valid, links, pc, asleep, slpret, sendobj, recvobj, sender,
          receiver, progress, broken>>

partners == <<sender, receiver>>

TypeOK ==
  /\ valid \in SUBSET Object
  /\ links \in [next : [Links -> Links], prev : [Links -> Links]]
  /\ pc \in [Thread -> {"user", "send", "recv", "dead"}]
  /\ asleep \in SUBSET Thread
  /\ slpret \in [Thread -> {"OK", "BREAK", "INVAL", "INTR"}]
  /\ sendobj \in [Thread -> Object \cup {None}]
  /\ recvobj \in [Thread -> Object \cup {None}]
  /\ sender \in [Thread -> Thread \cup {None}]
  /\ receiver \in [Thread -> Thread \cup {None}]
  /\ progress \in [Thread -> {"queued", "replied"} \cup Thread]
  /\ broken \in SUBSET {"link", "object", "thread", "panic"}

Init ==
  /\ valid = {}
  /\ links = [next |-> [x \in Links |-> None], prev |-> [x \in Links |-> None]]
  /\ pc = [t \in Thread |-> "user"]
  /\ asleep = {}
  /\ slpret = [t \in Thread |-> "OK"]
  /\ sendobj = [t \in Thread |-> None]
  /\ recvobj = [t \in Thread |-> None]
  /\ sender = [t \in Thread |-> None]
  /\ receiver = [t \in Thread |-> None]
  /\ progress = [t \in Thread |-> "replied"]
  /\ broken = {}
-----------------------------------------------------------------------------
\* A "mutant" is a wrong version of the definition after it, used nowhere else.

\* t runs in the kernel, whose memory is sound.
Calls(t) == pc[t] = "user" /\ broken = {}
Returns(t, call) == pc[t] = call /\ t \notin asleep /\ broken = {}

\* The threads that msg_dequeue() finds in the queue h, and its choice: the
\* first of the best.
Queued(h) == Walk(links, h)

TopNewest(h) == links.prev[h]                                       \* mutant

Top(h) == FirstBest(Queued(h), Priority)

\* What it breaks to use the threads of S, to walk the queue h, to append to
\* it, and to remove the link of t.
UseBreaks(S) == IF \E u \in S \cap Thread : pc[u] = "dead" THEN {"thread"} ELSE {}
WalkBreaks(h) == IF IsRing(links, h, Thread) THEN UseBreaks(Items(Queued(h))) ELSE {"link"}
EnqueueBreaks(h) == UseBreaks({links.prev[h]})
RemoveBreaks(t) ==
  LET around == {links.next[t], links.prev[t]}
  IN  UseBreaks(around)
      \cup (IF None \in around THEN {"link"} ELSE {})
      \cup (IF \E o \in Object \ valid : around \cap {Sendq(o), Recvq(o)} # {}
            THEN {"object"} ELSE {})

\* sched_unsleep(t, r) for every t of S, a no-op for those awake (IPC is used
\* by threads, so a woken thread has left TS_SLEEP: see Sched).
UnsleepKeepsResult(S, r) == asleep' = asleep \ S /\ UNCHANGED slpret \* mutant

Unsleep(S, r) ==
  /\ asleep' = asleep \ S
  /\ slpret' = [t \in Thread |-> IF t \in S \cap asleep THEN r ELSE slpret[t]]
-----------------------------------------------------------------------------
\* object_create(); a freed address may be used again.
ObjectCreate(t, o) ==
  /\ Calls(t) /\ t \in Server /\ o \notin valid
  /\ valid' = valid \cup {o}
  /\ links' = Emptied(Emptied(links, Sendq(o)), Recvq(o))
  /\ UNCHANGED <<pc, asleep, slpret, sendobj, recvobj, partners, progress,
                 broken>>

\* msg_abort(o) empties the queue h: every link loses its predecessor.
Aborted(L, h) ==
  [next |-> [L.next EXCEPT ![h] = h],
   prev |-> [x \in Links |-> IF x = h \/ InQueue(x, Walk(L, h)) THEN h ELSE L.prev[x]]]

\* The threads that msg_abort(o) wakes.
AbortWakes(o) == Items(Queued(Sendq(o))) \cup Items(Queued(Recvq(o)))

\* object_destroy(): msg_abort() wakes everybody in the two queues.
ObjectDestroy(t, o) ==
  /\ "destroy" \in Ops
  /\ Calls(t) /\ t \in Server /\ o \in valid
  /\ valid' = valid \ {o}
  /\ broken' = WalkBreaks(Sendq(o)) \cup WalkBreaks(Recvq(o))
  /\ IF broken' # {} THEN UNCHANGED <<links, asleep, slpret>>
     ELSE /\ links' = Aborted(Aborted(links, Sendq(o)), Recvq(o))
          /\ Unsleep(AbortWakes(o), "INVAL")
  /\ UNCHANGED <<pc, sendobj, recvobj, partners, progress>>

WokenForFirst(o) ==                                                 \* mutant
  IF IsEmptyQueue(links, Recvq(o)) \/ ~IsEmptyQueue(links, Sendq(o))
  THEN {} ELSE {Top(Recvq(o))}

\* The receiver that msg_send() wakes, if there is one.
Woken(o) == IF IsEmptyQueue(links, Recvq(o)) THEN {} ELSE {Top(Recvq(o))}

\* msg_send() up to sched_sleep(): wake the best receiver, join the queue.
Send(t, o) ==
  /\ Calls(t) /\ t \in Client /\ o \in valid
  /\ recvobj[t] # o
  /\ broken' = WalkBreaks(Recvq(o)) \cup EnqueueBreaks(Sendq(o))
  /\ IF broken' # {} THEN UNCHANGED <<links, asleep, slpret>>
     ELSE LET woken == Woken(o)
              L == IF woken = {} THEN links ELSE Removed(links, Top(Recvq(o)))
          IN  /\ links' = Enqueued(L, Sendq(o), t)
              /\ asleep' = (asleep \ woken) \cup {t}
              /\ slpret' = [u \in Thread |-> IF u \in woken \cap asleep THEN "OK"
                                             ELSE slpret[u]]
  /\ sendobj' = [sendobj EXCEPT ![t] = o]
  /\ pc' = [pc EXCEPT ![t] = "send"]
  /\ progress' = [progress EXCEPT ![t] = "queued"]
  /\ UNCHANGED <<valid, recvobj, partners>>

\* queue_remove() of t's link when its sleep was interrupted.
LeaveIfInterrupted(t) ==
  IF slpret[t] = "INTR"
  THEN links' = Removed(links, t) /\ broken' = RemoveBreaks(t)
  ELSE UNCHANGED <<links, broken>>

\* The rest of msg_send().
SendReturn(t) ==
  /\ Returns(t, "send")
  /\ LeaveIfInterrupted(t)
  /\ sendobj' = [sendobj EXCEPT ![t] = None]
  /\ pc' = [pc EXCEPT ![t] = "user"]
  /\ UNCHANGED <<valid, asleep, slpret, recvobj, partners, progress>>

\* msg_receive() from the top of its loop on, for the object o and a buffer
\* that is good or bad: wait for a message; or take the message of the best
\* sender; or put it back at the tail of the queue.
AwaitMessage(t, o) ==
  /\ IsEmptyQueue(links, Sendq(o))
  /\ broken' = EnqueueBreaks(Recvq(o))
  /\ links' = Enqueued(links, Recvq(o), t)
  /\ asleep' = asleep \cup {t}
  /\ pc' = [pc EXCEPT ![t] = "recv"]
  /\ recvobj' = [recvobj EXCEPT ![t] = o]
  /\ UNCHANGED <<partners, progress>>

TakeMessage(t, o) ==
  /\ ~IsEmptyQueue(links, Sendq(o))
  /\ broken' = WalkBreaks(Sendq(o))
  /\ IF broken' # {} THEN UNCHANGED <<links, partners, progress>>
     ELSE LET s == Top(Sendq(o))
          IN  /\ links' = Removed(links, s)
              /\ sender' = [sender EXCEPT ![t] = s]
              /\ receiver' = [receiver EXCEPT ![s] = t]
              /\ progress' = [progress EXCEPT ![s] = t]
  /\ pc' = [pc EXCEPT ![t] = "user"]
  /\ recvobj' = [recvobj EXCEPT ![t] = o]
  /\ UNCHANGED asleep

PutBackForgets(t, o) ==                                             \* mutant
  /\ "fault" \in Ops
  /\ ~IsEmptyQueue(links, Sendq(o)) /\ WalkBreaks(Sendq(o)) = {}
  /\ links' = Removed(links, Top(Sendq(o)))
  /\ pc' = [pc EXCEPT ![t] = "user"]
  /\ recvobj' = [recvobj EXCEPT ![t] = None]
  /\ UNCHANGED <<asleep, partners, progress, broken>>

PutBack(t, o) ==
  /\ "fault" \in Ops
  /\ ~IsEmptyQueue(links, Sendq(o)) /\ WalkBreaks(Sendq(o)) = {}
  /\ LET s == Top(Sendq(o)) IN links' = Enqueued(Removed(links, s), Sendq(o), s)
  /\ pc' = [pc EXCEPT ![t] = "user"]
  /\ recvobj' = [recvobj EXCEPT ![t] = None]
  /\ UNCHANGED <<asleep, partners, progress, broken>>

\* msg_receive() of a thread that handles no message.
Receive(t, o) ==
  /\ Calls(t) /\ t \in Server /\ o \in valid
  /\ recvobj[t] = None
  /\ AwaitMessage(t, o) \/ TakeMessage(t, o) \/ PutBack(t, o)
  /\ UNCHANGED <<valid, slpret, sendobj>>

\* It wakes up, by a message as it believes, and looks at the queue again.
ReceiveWoken(t) ==
  /\ Returns(t, "recv") /\ slpret[t] = "OK"
  /\ LET o == recvobj[t]
     IN  IF o \in valid
         THEN AwaitMessage(t, o) \/ TakeMessage(t, o) \/ PutBack(t, o)
         ELSE /\ broken' = {"object"}
              /\ UNCHANGED <<links, pc, asleep, recvobj, partners, progress>>
  /\ UNCHANGED <<valid, slpret, sendobj>>

\* It leaves with an error.  SLP_BREAK is not for receivers: panic().
ReceiveFails(t) ==
  /\ Returns(t, "recv") /\ slpret[t] # "OK"
  /\ IF slpret[t] = "BREAK" THEN broken' = {"panic"} /\ UNCHANGED links
     ELSE LeaveIfInterrupted(t)
  /\ recvobj' = [recvobj EXCEPT ![t] = None]
  /\ pc' = [pc EXCEPT ![t] = "user"]
  /\ UNCHANGED <<valid, asleep, slpret, sendobj, partners, progress>>

ReplyKeepsReceiver(t) ==                                            \* mutant
  /\ Calls(t) /\ recvobj[t] \in valid
  /\ Unsleep({sender[t]}, "OK")
  /\ sender' = [sender EXCEPT ![t] = None]
  /\ recvobj' = [recvobj EXCEPT ![t] = None]
  /\ UNCHANGED <<valid, links, pc, sendobj, receiver, progress, broken>>

\* msg_reply(): wake the sender, if it still exists.
Reply(t) ==
  /\ Calls(t) /\ recvobj[t] \in valid
  /\ LET s == sender[t]
     IN  IF s = None
         THEN UNCHANGED <<asleep, slpret, receiver, progress, broken>>
         ELSE /\ Unsleep({s}, "OK")
              /\ receiver' = [receiver EXCEPT ![s] = None]
              /\ progress' = [progress EXCEPT ![s] = IF @ = t THEN "replied" ELSE @]
              /\ broken' = UseBreaks({s})
  /\ sender' = [sender EXCEPT ![t] = None]
  /\ recvobj' = [recvobj EXCEPT ![t] = None]
  /\ UNCHANGED <<valid, links, pc, sendobj>>
-----------------------------------------------------------------------------
\* exception_post() to a thread asleep in IPC: sched_unsleep(t, SLP_INTR).
Interrupt(t) ==
  /\ t \in Interruptible /\ t \in asleep /\ broken = {}
  /\ Unsleep({t}, "INTR")
  /\ UNCHANGED <<valid, links, pc, sendobj, recvobj, partners, progress, broken>>

\* The two ends of t's message operations, as msg_cancel(t) sees them.
ReceiverOf(t) == IF sendobj[t] = None THEN None ELSE receiver[t]

SenderOfNobody(t) == None                                           \* mutant

SenderOf(t) == IF recvobj[t] = None THEN None ELSE sender[t]

\* thread_terminate(t): msg_cancel(t), then sched_stop() and the end of t.
\* msg_cancel() unlinks t when it sends and has no receiver, and when it
\* receives and has no sender.  (t's own slpret is never read again.)
Kill(t) ==
  /\ t \in Killable /\ pc[t] # "dead" /\ broken = {}
  /\ LET r == ReceiverOf(t)
         s == SenderOf(t)
         unlinks == \/ sendobj[t] # None /\ r = None
                    \/ recvobj[t] # None /\ s = None
     IN  /\ sender' = [u \in Thread |-> IF u = r THEN None ELSE sender[u]]
         /\ receiver' = [u \in Thread |-> IF u = s THEN None ELSE receiver[u]]
         /\ Unsleep({s, t}, "BREAK")
         /\ links' = IF unlinks THEN Removed(links, t) ELSE links
         /\ broken' = UseBreaks({s, r}) \cup (IF unlinks THEN RemoveBreaks(t) ELSE {})
  /\ pc' = [pc EXCEPT ![t] = "dead"]
  /\ UNCHANGED <<valid, sendobj, recvobj, progress>>
-----------------------------------------------------------------------------
Next ==
  \E t \in Thread :
    \/ \E o \in Object : \/ ObjectCreate(t, o) \/ ObjectDestroy(t, o)
                         \/ Send(t, o) \/ Receive(t, o)
    \/ SendReturn(t) \/ ReceiveWoken(t) \/ ReceiveFails(t)
    \/ Reply(t) \/ Interrupt(t) \/ Kill(t)

Spec == Init /\ [][Next]_vars
-----------------------------------------------------------------------------
\* sender and receiver name each other, so a message is handled by one thread
\* and its reply finds the thread that sent it.
PartnersMatch ==
  \A t, s \in Thread :
    pc[t] # "dead" /\ pc[s] # "dead" => (sender[t] = s <=> receiver[s] = t)

\* A sender whose message was received sleeps only while a live thread handles
\* it: "The sender thread will wait for reply forever" is what msg_cancel()
\* is there to prevent.
HandledByLive ==
  \A t \in asleep : pc[t] = "send" /\ receiver[t] # None =>
    /\ pc[receiver[t]] # "dead" /\ sender[receiver[t]] = t
    /\ recvobj[receiver[t]] = sendobj[t]

\* A sender whose message was not received yet is in the queue of its object,
\* once, and no other thread is.
QueuedUntilReceived ==
  \A o \in valid : broken = {} =>
    /\ IsRing(links, Sendq(o), Thread) /\ Distinct(Queued(Sendq(o)))
    /\ Items(Queued(Sendq(o))) \cap asleep =
         {t \in asleep : pc[t] = "send" /\ sendobj[t] = o /\ receiver[t] = None}

\* "The current thread will be blocked until any other thread receives and
\* reply the message" (msg_send()): success means that this happened.
SuccessMeansReplied ==
  \A t \in Thread :
    Returns(t, "send") /\ slpret[t] = "OK" => progress[t] = "replied"

\* While receivers of an object sleep, every message in its send queue has a
\* receiver on its way to take it ("it blocks until any message comes in",
\* msg_receive()).
NoIdleReceiver ==
  \A o \in valid :
    (\E t \in asleep : pc[t] = "recv" /\ recvobj[t] = o) /\ broken = {} =>
      Len(Queued(Sendq(o)))
        <= Cardinality({t \in Thread \ asleep : /\ pc[t] = "recv" /\ recvobj[t] = o
                                                /\ slpret[t] = "OK"})

\* msg.c never follows or removes a link that is NULL or that leads astray, as
\* long as no receiver is interrupted or terminated after msg_send() took it out
\* of its queue: then it removes itself a second time.
LinksIntact == TypeOK /\ "link" \notin broken

\* Servers serve: the loop of msg_receive() and msg_reply() of every server
\* program, on the objects that exist.
Fairness ==
  /\ \A t \in Client : WF_vars(SendReturn(t))
  /\ \A t \in Server : /\ WF_vars(ReceiveWoken(t)) /\ SF_vars(Reply(t))
                      /\ \A o \in Object : SF_vars(Receive(t, o))

FairSpec == Spec /\ Fairness

\* The clients no client is better than.
BestClients == {t \in Client : \A u \in Client : Priority[t] <= Priority[u]}

\* A msg_send() of the best clients comes to an end, unless all servers sleep:
\* each waits for a message to another object, or for a reply.  Worse clients
\* can be overtaken for ever.
SendReturns ==
  \A t \in BestClients : pc[t] = "send" ~> pc[t] # "send" \/ Server \subseteq asleep
=============================================================================
