-------------------------------- MODULE Timer --------------------------------
(***************************************************************************)
(* Timers, sys/kern/timer.c: the sorted list of active timers, the list of *)
(* expired ones, the clock interrupt that moves timers from the first to   *)
(* the second, and the timer thread that calls their functions.            *)
(*                                                                         *)
(* Every routine disables interrupts around its work, so it is one step.   *)
(* The timer thread locks the scheduler before it enables interrupts for a *)
(* callout: then only interrupt service routines can touch a timer.  The   *)
(* lists have their pointers, since timer_periodic() may link a timer that *)
(* is linked.  The tick counter wraps.  What a timer that is not active     *)
(* holds is never read: the model clears it, to have fewer states.          *)
(***************************************************************************)
EXTENDS Integers, PrexLinks

CONSTANTS
  Callout,   \* one-shot timers: of a sleep, an alarm, a driver
  Periodic,  \* timers of timer_periodic(), one for each thread that has one
  IsrTimer,  \* the callouts that interrupt service routines use
  MaxDelay,  \* the longest delay, in ticks
  Wrap,      \* 2 to the width of lbolt
  TimerOps   \* "again": timer_periodic() is called for an active timer, too

Tmr == Callout \cup Periodic

ASSUME TimerAssumption ==
  /\ IsrTimer \subseteq Callout /\ Callout \cap Periodic = {}
  /\ MaxDelay \in Nat \ {0} /\ Wrap \in Nat /\ Wrap % 2 = 0
  /\ 2 * MaxDelay < Wrap
  /\ TimerOps \subseteq {"again"}

ASSUME TimerFinite ==
  /\ IsFiniteSet(Tmr)
  /\ Tmr \cap {"timer_list", "expire_list", "NULL", "sleep", "drain"} = {}

VARIABLES
  lbolt,      \* ticks since boot
  tlinks,     \* the links of timer_list, expire_list and the timers
  tactive,    \* the timers in TM_ACTIVE
  texpire,    \* tmr->expire
  tinterval,  \* tmr->interval
  tpc,        \* the timer thread is in "sleep", on its way to the next timer
              \* of expire_list ("drain"), or about to call a timer
  twait,      \* threads in timer_waitperiod(), by their timers: "no", has
              \* compared the ticks ("late"), or "asleep"
  left,       \* history: the ticks a timer has left to run, really
  due         \* history: timers that expired and were not stopped since

timerVars == <<lbolt, tlinks, tactive, texpire, tinterval, tpc, twait, left, due>>

TimerList == "timer_list"
ExpireList == "expire_list"

TimerInit ==
  LET nodes == Tmr \cup {TimerList, ExpireList, "NULL"}
      null == [x \in nodes |-> "NULL"]
  IN  /\ tlinks = Emptied(Emptied([next |-> null, prev |-> null], TimerList), ExpireList)
      /\ lbolt = 0 /\ tactive = {} /\ due = {} /\ tpc = "sleep"
      /\ texpire = [x \in Tmr |-> 0] /\ tinterval = [x \in Tmr |-> 0]
      /\ left = [x \in Tmr |-> 0] /\ twait = [x \in Periodic |-> "no"]

\* Both lists can be walked.  If not, the clock interrupt does not return.
ListsSound == IsRing(tlinks, TimerList, Tmr) /\ IsRing(tlinks, ExpireList, Tmr)

\* Threads run, unless the timer thread is about to call a timer.
ThreadsRun == ListsSound /\ tpc \in {"sleep", "drain"}
-----------------------------------------------------------------------------
Unwrapped(x, y) == x < y                                            \* mutant

\* time_before(x, y): the signed difference is negative.
TimeBefore(x, y) == (x - y) % Wrap >= Wrap \div 2

\* time_remain(expire) at the time now.
TimeRemain(now, expire) == IF TimeBefore(now, expire) THEN (expire - now) % Wrap ELSE 0

\* list_insert(p, x).
ListInserted(L, p, x) ==
  [next |-> [L.next EXCEPT ![x] = L.next[p], ![p] = x],
   prev |-> [L.prev EXCEPT ![L.next[p]] = x, ![x] = p]]

\* The list element in front of which timer_add() puts a timer that expires
\* at e: the first that expires later.
InsertBefore(L, expire, e) ==
  LET q == Walk(L, TimerList)
      later == {i \in DOMAIN q : TimeBefore(e, expire[q[i]])}
  IN  IF later = {} THEN TimerList
      ELSE q[CHOOSE i \in later : \A j \in later : i <= j]

\* timer_add(x, ticks) at the time now, applied to the lists and expiry times.
Added(s, now, x, ticks) ==
  LET e == (now + IF ticks = 0 THEN 1 ELSE ticks) % Wrap
      expire == [s.expire EXCEPT ![x] = e]
      n == InsertBefore(s.links, expire, e)
  IN  [links |-> ListInserted(s.links, s.links.prev[n], x), expire |-> expire]

Lists == [links |-> tlinks, expire |-> texpire]

\* x is programmed to expire in ticks, from the list s on.
Program(s, x, ticks) ==
  LET a == Added(s, lbolt, x, ticks)
  IN  /\ tlinks' = a.links /\ texpire' = a.expire
      /\ tactive' = tactive \cup {x}
      /\ left' = [left EXCEPT ![x] = IF ticks = 0 THEN 1 ELSE ticks]

\* list_remove(x).
ListRemoved(L, x) ==
  LET r == Removed(L, x)
  IN  [next |-> [r.next EXCEPT ![x] = "NULL"], prev |-> [r.prev EXCEPT ![x] = "NULL"]]

\* x leaves the list it is in, if it is active.
Delisted(x) == IF x \in tactive THEN ListRemoved(tlinks, x) ELSE tlinks

Cleared(f, x) == [f EXCEPT ![x] = 0]
-----------------------------------------------------------------------------
\* timer_callout() from a thread or from an interrupt service routine.
TimerCallout(x, ticks) ==
  /\ ThreadsRun \/ (ListsSound /\ x \in IsrTimer)
  /\ Program([Lists EXCEPT !.links = Delisted(x)], x, ticks)
  /\ tinterval' = [tinterval EXCEPT ![x] = 0]
  /\ due' = due \ {x}
  /\ UNCHANGED <<lbolt, tpc, twait>>

\* timer_stop(), timer_alarm(0), and timer_periodic(0).
TimerStop(x) ==
  /\ ThreadsRun \/ (ListsSound /\ x \in IsrTimer)
  /\ tlinks' = Delisted(x)
  /\ tactive' = tactive \ {x}
  /\ due' = due \ {x}
  /\ texpire' = Cleared(texpire, x) /\ tinterval' = Cleared(tinterval, x)
  /\ left' = Cleared(left, x)
  /\ UNCHANGED <<lbolt, tpc, twait>>

\* timer_periodic(): nobody looks whether the timer is active.
TimerPeriodic(x, start, period) ==
  /\ ThreadsRun
  /\ x \notin tactive \/ "again" \in TimerOps
  /\ Program(Lists, x, start)
  /\ tinterval' = [tinterval EXCEPT ![x] = IF period = 0 THEN 1 ELSE period]
  /\ UNCHANGED <<lbolt, tpc, twait, due>>

\* timer_waitperiod() compares the ticks ...
WaitPeriod(x) ==
  /\ ThreadsRun /\ twait[x] = "no"
  /\ x \in tactive /\ TimeBefore(lbolt, texpire[x])
  /\ twait' = [twait EXCEPT ![x] = "late"]
  /\ UNCHANGED <<lbolt, tlinks, tactive, texpire, tinterval, tpc, left, due>>

\* ... and sleeps; a period that ends in between is lost.
WaitPeriodSleep(x) ==
  /\ ThreadsRun /\ twait[x] = "late"
  /\ twait' = [twait EXCEPT ![x] = "asleep"]
  /\ UNCHANGED <<lbolt, tlinks, tactive, texpire, tinterval, tpc, left, due>>

\* timer_handler() for one timer whose time has come.
TickFor(s, now, x) ==
  LET r == [s EXCEPT !.links = Removed(s.links, x)]
  IN  IF tinterval[x] # 0
      THEN Added(r, now, x, TimeRemain(now, (s.expire[x] + tinterval[x]) % Wrap))
      ELSE [links |-> ListInserted(r.links, ExpireList, x), expire |-> Cleared(s.expire, x)]

\* The timers timer_handler() takes off the list at the time now.
Expired(now) ==
  LET q == Walk(tlinks, TimerList)
      k == CHOOSE n \in 0..Len(q) :
             /\ \A i \in 1..n : ~TimeBefore(now, texpire[q[i]])
             /\ n < Len(q) => TimeBefore(now, texpire[q[n + 1]])
  IN  SubSeq(q, 1, k)

\* timer_handler() for the timers of q, one after the other.
TickAll(now, q) ==
  LET step[i \in 0..Len(q)] == IF i = 0 THEN Lists ELSE TickFor(step[i - 1], now, q[i])
  IN  step[Len(q)]

\* The clock interrupt, timer_handler(), at any time.
TimerHandler ==
  LET now == (lbolt + 1) % Wrap
      q == Expired(now)
      expired == {q[i] : i \in DOMAIN q}
      oneshot == {x \in expired : tinterval[x] = 0}
  IN  /\ ListsSound
      /\ lbolt' = now
      /\ tlinks' = TickAll(now, q).links /\ texpire' = TickAll(now, q).expire
      /\ tpc' = IF oneshot # {} /\ tpc = "sleep" THEN "drain" ELSE tpc
      /\ twait' = [x \in Periodic |-> IF x \in expired /\ twait[x] = "asleep"
                                      THEN "no" ELSE twait[x]]
      /\ left' = [x \in Tmr |-> IF left[x] = 1 /\ tinterval[x] # 0 THEN tinterval[x]
                                ELSE IF left[x] > 0 THEN left[x] - 1 ELSE 0]
      /\ due' = due \cup oneshot
      /\ UNCHANGED <<tactive, tinterval>>

TimerThreadOnce ==                                                  \* mutant
  /\ tpc = "drain" /\ ListsSound /\ ~IsEmptyQueue(tlinks, ExpireList)
  /\ LET x == tlinks.next[ExpireList]
     IN  tlinks' = ListRemoved(tlinks, x) /\ tactive' = tactive \ {x} /\ tpc' = "sleep"
  /\ UNCHANGED <<lbolt, texpire, tinterval, twait, left, due>>

\* timer_thread() with interrupts disabled: it takes the first expired timer,
\* or sleeps.
TimerThread ==
  /\ tpc = "drain" /\ ListsSound
  /\ IF IsEmptyQueue(tlinks, ExpireList)
     THEN tpc' = "sleep" /\ UNCHANGED <<tlinks, tactive>>
     ELSE LET x == tlinks.next[ExpireList]
          IN  tlinks' = ListRemoved(tlinks, x) /\ tactive' = tactive \ {x} /\ tpc' = x
  /\ UNCHANGED <<lbolt, texpire, tinterval, twait, left, due>>

\* It calls the function.  (One that programs its timer again does what
\* TimerCallout does after this step.)
TimerCall ==
  /\ tpc \in Tmr /\ ListsSound
  /\ tpc' = "drain"
  /\ due' = due \ {tpc}
  /\ UNCHANGED <<lbolt, tlinks, tactive, texpire, tinterval, twait, left>>

TimerNext ==
  \/ \E x \in Callout, d \in 0..MaxDelay : TimerCallout(x, d)
  \/ \E x \in Tmr : TimerStop(x)
  \/ \E x \in Periodic, d, p \in 1..MaxDelay : TimerPeriodic(x, d, p)
  \/ \E x \in Periodic : WaitPeriod(x) \/ WaitPeriodSleep(x)
  \/ TimerHandler \/ TimerThread \/ TimerCall

TimerSpec == TimerInit /\ [][TimerNext]_timerVars
-----------------------------------------------------------------------------
\* "The timer list ... is sorted by expiration time" (timer_add()): the two
\* lists hold the active timers, each once, and the one that expires first is
\* at the head.
TimerListSorted ==
  /\ ListsSound
  /\ LET q == Walk(tlinks, TimerList)
         x == Walk(tlinks, ExpireList)
     IN  /\ {q[i] : i \in DOMAIN q} \cup {x[i] : i \in DOMAIN x} = tactive
         /\ Len(q) + Len(x) = Cardinality(tactive)
         /\ \A i, j \in DOMAIN q : i < j => left[q[i]] <= left[q[j]]

\* Timers expire on time, whatever the tick counter wraps to: a timer that
\* waits has as many ticks to go as were asked for, a timer that is periodic
\* starts over when its last period ends, and an expired timer was due.
Punctual ==
  ListsSound =>
    LET q == Walk(tlinks, TimerList)
    IN  \A i \in DOMAIN q : /\ left[q[i]] > 0
                            /\ (texpire[q[i]] - lbolt) % Wrap = left[q[i]]

\* Every expired timer is called and only those: the timer thread sleeps only when
\* none is left, and calls a function for a timer that expired and that nobody
\* stopped or programmed again; only interrupt service routines may come too late.
ExpiredAreCalled ==
  /\ tpc = "sleep" => IsEmptyQueue(tlinks, ExpireList)
  /\ tpc \in Tmr \ IsrTimer => tpc \in due
=============================================================================
