------------------------------- MODULE Device -------------------------------
(***************************************************************************)
(* Device objects, sys/kern/device.c.  A call into a driver sleeps as long *)
(* as it likes, with the scheduler unlocked, and holds a reference to its  *)
(* device meanwhile; device_destroy() takes effect with the last of them.  *)
(* A handle is an address: it may be stale, and the address used again.    *)
(***************************************************************************)
EXTENDS Integers, FiniteSets

CONSTANTS
  DevId,      \* addresses of struct device
  DevName,    \* names of devices
  DevThread,  \* threads that call drivers
  NoDev       \* the NULL pointer, and no name

ASSUME DeviceAssumption == NoDev \notin DevId /\ NoDev \notin DevName

ASSUME DeviceFinite == IsFiniteSet(DevThread)

VARIABLES
  devname,  \* the name of each device on device_list, NoDev for the others
  active,   \* the devices with dev->active
  devref,   \* dev->refcnt
  incall,   \* the device whose driver a thread is in, or NoDev
  devdead   \* terminated threads

deviceVars == <<devname, active, devref, incall, devdead>>

DeviceInit ==
  /\ devname = [d \in DevId |-> NoDev]
  /\ active = {}
  /\ devref = [d \in DevId |-> 0]
  /\ incall = [t \in DevThread |-> NoDev]
  /\ devdead = {}

OnList(d) == devname[d] # NoDev
CallsDevice(t) == t \notin devdead /\ incall[t] = NoDev
-----------------------------------------------------------------------------
\* device_create(), with a new name: another one is a panic.
DeviceCreate(d, n) ==
  /\ ~OnList(d) /\ \A e \in DevId : devname[e] # n
  /\ devname' = [devname EXCEPT ![d] = n]
  /\ active' = active \cup {d}
  /\ devref' = [devref EXCEPT ![d] = 1]
  /\ UNCHANGED <<incall, devdead>>

ReleaseEarly(d) ==                                                  \* mutant
  /\ devref' = [devref EXCEPT ![d] = @ - 1]
  /\ devname' = IF devref[d] > 2 THEN devname ELSE [devname EXCEPT ![d] = NoDev]

\* device_release(): the last one takes the device off the list and frees it.
Release(d) ==
  /\ devref' = [devref EXCEPT ![d] = @ - 1]
  /\ devname' = IF devref[d] > 1 THEN devname ELSE [devname EXCEPT ![d] = NoDev]

\* device_destroy(), of a device that device_valid() knows.
DeviceDestroy(d) ==
  /\ OnList(d) /\ d \in active
  /\ active' = active \ {d}
  /\ Release(d)
  /\ UNCHANGED <<incall, devdead>>

\* device_reference(): the thread t enters the driver of d.
EnterDriver(t, d) ==
  /\ OnList(d) /\ d \in active
  /\ devref' = [devref EXCEPT ![d] = @ + 1]
  /\ incall' = [incall EXCEPT ![t] = d]
  /\ UNCHANGED <<devname, active, devdead>>

\* device_open(), which looks the name up, up to the driver's own routine.
DeviceOpen(t, n) ==
  /\ CallsDevice(t)
  /\ \E d \in DevId : devname[d] = n /\ EnterDriver(t, d)

\* device_close(), device_read(), device_write() and device_ioctl(), with a
\* handle that some device_open() returned.
DeviceCall(t, d) == CallsDevice(t) /\ EnterDriver(t, d)

\* The rest of those calls.
DeviceReturn(t) ==
  /\ t \notin devdead /\ incall[t] # NoDev
  /\ Release(incall[t])
  /\ incall' = [incall EXCEPT ![t] = NoDev]
  /\ UNCHANGED <<active, devdead>>

\* thread_terminate(), maybe inside a driver: the reference is never dropped.
DeviceKill(t) ==
  /\ t \notin devdead
  /\ devdead' = devdead \cup {t}
  /\ UNCHANGED <<devname, active, devref, incall>>

DeviceNext ==
  \/ \E d \in DevId : \/ \E n \in DevName : DeviceCreate(d, n)
                      \/ DeviceDestroy(d)
                      \/ \E t \in DevThread : DeviceCall(t, d)
  \/ \E t \in DevThread : \/ \E n \in DevName : DeviceOpen(t, n)
                          \/ DeviceReturn(t) \/ DeviceKill(t)

DeviceSpec == DeviceInit /\ [][DeviceNext]_deviceVars
-----------------------------------------------------------------------------
DeviceTypeOK ==
  /\ devname \in [DevId -> DevName \cup {NoDev}]
  /\ active \subseteq DevId
  /\ devref \in [DevId -> Nat]
  /\ incall \in [DevThread -> DevId \cup {NoDev}]
  /\ devdead \subseteq DevThread

\* The threads inside the driver of d, those that died there included.
InsideDriver(d) == {t \in DevThread : incall[t] = d}

\* "If some other threads still refer the target device, the destroy operation
\* will be pending until its reference count becomes 0" (device_destroy()): a
\* device is on the list, and not freed, exactly as long as it is active or
\* has threads in its driver, which its reference count counts.
DeviceHeld ==
  \A d \in DevId :
    LET users == Cardinality(InsideDriver(d)) + IF d \in active THEN 1 ELSE 0
    IN  /\ OnList(d) <=> users > 0
        /\ OnList(d) => devref[d] = users
=============================================================================
