-------------------------------- MODULE Vnode --------------------------------
(***************************************************************************)
(* Vnodes of the file system server, usr/server/fs/vfs: path names, the    *)
(* table of active vnodes, their locks and reference counts, under the     *)
(* requests open, close, stat and unlink that several server threads work  *)
(* on at once.                                                             *)
(*                                                                         *)
(* What VNODE_LOCK covers is one step.  vput() counts down without it: its *)
(* load and its store are two.  One file system is mounted, every file has *)
(* one descriptor, and nothing is created; a vnode's lock is not taken     *)
(* twice by one thread except in vcount().  VOP_LOOKUP() is external: it   *)
(* finds a name in a directory, and none in anything else.                 *)
(***************************************************************************)
EXTENDS Integers, FiniteSets, Sequences

CONSTANTS
  FsThread,  \* threads of the server
  VnodeId,   \* addresses of struct vnode that malloc() returns
  rootvp,    \* mp->m_root
  NoVnode,   \* the NULL pointer
  NoThread,  \* nobody
  ParentOf,  \* for every path but "/" the path up to its last name
  Directory, \* the paths whose files, if they exist, are of type VDIR
  Asked,     \* the paths that requests name
  MaxOpen    \* bound on the open files of a vnode

ASSUME VnodeAssumption ==
  /\ rootvp \notin VnodeId /\ NoVnode \notin VnodeId \cup {rootvp}
  /\ NoThread \notin FsThread /\ "/" \notin DOMAIN ParentOf /\ "/" \in Directory
  /\ Asked \subseteq DOMAIN ParentOf \cup {"/"}
  /\ MaxOpen \in Nat \ {0}

ASSUME VnodeFinite == IsFiniteSet(FsThread)

Vnodes == VnodeId \cup {rootvp}
Path == DOMAIN ParentOf \cup {"/"}

VARIABLES
  vn_table,  \* the active vnodes, in vnode_table
  v_path,    \* "" in a vnode that is not allocated
  v_refcnt,
  v_lock,    \* the thread that has locked the vnode, or NoThread
  files,     \* the file structures that refer to a vnode
  unclosed,  \* those of them for which VOP_CLOSE() has failed
  exists,    \* the paths that the file system has
  th,        \* what a thread works on (see Idle)
  raced      \* history: the first step that went wrong, "no" before

vnodeVars == <<vn_table, v_path, v_refcnt, v_lock, files, unclosed, exists, th, raced>>

\* pc:   "idle", or before vn_lookup() of the path ("find"), mutex_lock() in it
\*       ("lock"), vn_lock(dvp) ("dirlock"), the second vn_lookup() ("look"),
\*       VOP_LOOKUP() ("fs"), or with the vnode locked ("got")
\* op:   the request; "remove" is the second namei() of unlink
\* vp, dvp: the variables of namei(); held: vp in sys_unlink()
\* puts: vnodes that are vput() before anything else, the first one is in the
\*       step "put" of vput(), which has loaded the count n
Idle == [pc |-> "idle", op |-> "stat", path |-> "/", vp |-> NoVnode, dvp |-> NoVnode,
         held |-> NoVnode, puts |-> <<>>, put |-> "load", n |-> 0]

\* The file of every path but "/" is in a directory.
FileTree(E) == "/" \in E /\ \A p \in E \ {"/"} : ParentOf[p] \in E \cap Directory

VnodeInit ==
  /\ vn_table = {rootvp}
  /\ v_path = [v \in Vnodes |-> IF v = rootvp THEN "/" ELSE ""]
  /\ v_refcnt = [v \in Vnodes |-> IF v = rootvp THEN 1 ELSE 0]
  /\ v_lock = [v \in Vnodes |-> NoThread]
  /\ files = [v \in Vnodes |-> 0]
  /\ unclosed = [v \in Vnodes |-> 0]
  /\ exists \in {E \in SUBSET Path : FileTree(E)}
  /\ th = [t \in FsThread |-> Idle]
  /\ raced = "no"

Ready(t, pc) == raced = "no" /\ th[t].puts = <<>> /\ th[t].pc = pc

\* The vnode that vn_lookup() finds for a path, if any.
Cached(p) == {v \in vn_table : v_path[v] = p}

\* The next path on the way from the directory d down to p.
Below(d, p) ==
  LET up[q \in Path] == IF ParentOf[q] = d THEN q ELSE up[ParentOf[q]]
  IN  up[p]

\* free(vp), after list_remove().
Freed(v) ==
  /\ vn_table' = vn_table \ {v}
  /\ v_path' = [v_path EXCEPT ![v] = ""]
  /\ v_refcnt' = [v_refcnt EXCEPT ![v] = 0]
  /\ v_lock' = [v_lock EXCEPT ![v] = NoThread]
-----------------------------------------------------------------------------
\* A request starts with namei() of its path.
Request(t, op, p) ==
  /\ Ready(t, "idle")
  /\ th' = [th EXCEPT ![t] = [Idle EXCEPT !.pc = "find", !.op = op, !.path = p]]
  /\ UNCHANGED <<vn_table, v_path, v_refcnt, v_lock, files, unclosed, exists, raced>>

\* sys_close() of the last descriptor of an open file: vn_lock() first.
Close(t, v) ==
  /\ Ready(t, "idle") /\ files[v] > 0 /\ files[v] # unclosed[v]
  /\ files' = [files EXCEPT ![v] = @ - 1]
  /\ th' = [th EXCEPT ![t] = [Idle EXCEPT !.pc = "lock", !.op = "close",
                                         !.path = v_path[v], !.vp = v]]
  /\ UNCHANGED <<vn_table, v_path, v_refcnt, v_lock, unclosed, exists, raced>>

\* namei(): the vnode is active, or the walk starts at the root.
Find(t) ==
  /\ Ready(t, "find")
  /\ LET found == Cached(th[t].path)
         v == IF found = {} THEN rootvp ELSE CHOOSE x \in found : TRUE
     IN  /\ v_refcnt' = [v_refcnt EXCEPT ![v] = @ + 1]
         /\ th' = IF found = {} THEN [th EXCEPT ![t] = [@ EXCEPT !.pc = "dirlock", !.dvp = v]]
                  ELSE [th EXCEPT ![t] = [@ EXCEPT !.pc = "lock", !.vp = v]]
  /\ UNCHANGED <<vn_table, v_path, v_lock, files, unclosed, exists, raced>>

\* The walk has the vnode v locked: vput(dvp), and one level down.
Stepped(t, v) ==
  IF v_path[v] = th[t].path
  THEN [th EXCEPT ![t] = [@ EXCEPT !.pc = "got", !.vp = v, !.dvp = NoVnode, !.puts = <<th[t].dvp>>]]
  ELSE [th EXCEPT ![t] = [@ EXCEPT !.pc = "look", !.vp = NoVnode, !.dvp = v,
                                   !.puts = <<th[t].dvp>>]]

\* namei() fails: the vnodes of q are put, and sys_unlink() puts vp.
Failed(t, q) ==
  [th EXCEPT ![t] = [Idle EXCEPT !.puts = IF th[t].held = NoVnode THEN q
                                          ELSE Append(q, th[t].held)]]

\* mutex_lock() in vn_lookup() or vn_lock().
Lock(t) ==
  /\ Ready(t, "lock") /\ v_lock[th[t].vp] = NoThread
  /\ v_lock' = [v_lock EXCEPT ![th[t].vp] = t]
  /\ th' = IF th[t].dvp = NoVnode THEN [th EXCEPT ![t] = [@ EXCEPT !.pc = "got"]]
           ELSE Stepped(t, th[t].vp)
  /\ UNCHANGED <<vn_table, v_path, v_refcnt, files, unclosed, exists, raced>>

DirLock(t) ==
  /\ Ready(t, "dirlock") /\ v_lock[th[t].dvp] = NoThread
  /\ v_lock' = [v_lock EXCEPT ![th[t].dvp] = t]
  /\ th' = [th EXCEPT ![t] = [@ EXCEPT !.pc = "look"]]
  /\ UNCHANGED <<vn_table, v_path, v_refcnt, files, unclosed, exists, raced>>

\* The thread u holds the lock that t wants next.
BlockedBy(t, u) ==
  \/ Ready(t, "lock") /\ v_lock[th[t].vp] = u
  \/ Ready(t, "dirlock") /\ v_lock[th[t].dvp] = u

\* mutex_lock() fails with EDEADLK in a circle of any length, and nobody looks:
\* t goes on without the lock.
LockRefused(t) ==
  /\ \E circle \in SUBSET FsThread :
       /\ t \in circle
       /\ \A u \in circle : /\ \E w \in circle : BlockedBy(u, w)
                            /\ \E w \in circle : BlockedBy(w, u)
  /\ raced' = "not locked"
  /\ UNCHANGED <<vn_table, v_path, v_refcnt, v_lock, files, unclosed, exists, th>>

CachedNever(p) == {}                                                \* mutant

\* With the directory locked, vn_lookup() again.
CachedNow(p) == Cached(p)

\* In namei(), for the next name: the vnode is active by now, or vget().
Look(t) ==
  LET p == Below(v_path[th[t].dvp], th[t].path)
  IN  /\ Ready(t, "look")
      /\ \/ \E v \in CachedNow(p) :
              /\ v_refcnt' = [v_refcnt EXCEPT ![v] = @ + 1]
              /\ th' = [th EXCEPT ![t] = [@ EXCEPT !.pc = "lock", !.vp = v]]
              /\ UNCHANGED <<vn_table, v_path, v_lock>>
         \/ \E v \in VnodeId \ vn_table :
              /\ CachedNow(p) = {}
              /\ vn_table' = vn_table \cup {v}
              /\ v_path' = [v_path EXCEPT ![v] = p]
              /\ v_refcnt' = [v_refcnt EXCEPT ![v] = 1]
              /\ v_lock' = [v_lock EXCEPT ![v] = t]
              /\ th' = [th EXCEPT ![t] = [@ EXCEPT !.pc = "fs", !.vp = v]]
         \/ /\ CachedNow(p) = {}              \* vget() gets no memory
            /\ th' = Failed(t, <<th[t].dvp>>)
            /\ UNCHANGED <<vn_table, v_path, v_refcnt, v_lock>>
      /\ UNCHANGED <<files, unclosed, exists, raced>>

\* VOP_LOOKUP().  For a name in the middle of the path that is not a directory
\* namei() puts the vnodes as for one that is not found, but returns 0 and no
\* vnode, and the request goes on with what *vpp was.
Fs(t) ==
  LET v == th[t].vp
      found == v_path[v] \in exists
  IN  /\ Ready(t, "fs")
      /\ IF found /\ v_path[v] # th[t].path /\ v_path[v] \notin Directory
         THEN raced' = "no vnode" /\ UNCHANGED th
         ELSE /\ th' = IF found THEN Stepped(t, v) ELSE Failed(t, <<v, th[t].dvp>>)
              /\ UNCHANGED raced
      /\ UNCHANGED <<vn_table, v_path, v_refcnt, v_lock, files, unclosed, exists>>
-----------------------------------------------------------------------------
\* The rest of sys_open(), with vn_unlock().
Open(t) ==
  LET v == th[t].vp
  IN  /\ Ready(t, "got") /\ th[t].op = "open" /\ files[v] < MaxOpen
      /\ files' = [files EXCEPT ![v] = @ + 1]
      /\ v_lock' = [v_lock EXCEPT ![v] = NoThread]
      /\ th' = [th EXCEPT ![t] = Idle]
      /\ UNCHANGED <<vn_table, v_path, v_refcnt, unclosed, exists, raced>>

\* The rest of sys_stat() and sys_close(), and of sys_open() and sys_unlink() when
\* they fail: for want of permission or memory, in the file system, or as below.
Put(t) ==
  /\ Ready(t, "got") /\ th[t].op # "remove"
  /\ th' = [th EXCEPT ![t] = [Idle EXCEPT !.puts = <<th[t].vp>>]]
  /\ UNCHANGED <<vn_table, v_path, v_refcnt, v_lock, files, unclosed, exists, raced>>

\* VOP_CLOSE() fails: sys_close() leaves the file with a count of zero, and its
\* reference to the vnode, which only a second close would give back, and that
\* panics.
CloseFails(t) ==
  LET v == th[t].vp
  IN  /\ Ready(t, "got") /\ th[t].op = "close"
      /\ files' = [files EXCEPT ![v] = @ + 1]
      /\ unclosed' = [unclosed EXCEPT ![v] = @ + 1]
      /\ v_lock' = [v_lock EXCEPT ![v] = NoThread]
      /\ th' = [th EXCEPT ![t] = Idle]
      /\ UNCHANGED <<vn_table, v_path, v_refcnt, exists, raced>>

\* What sys_unlink() refuses.
Busy(v) == v_path[v] \in Directory \/ v_refcnt[v] >= 2

\* sys_unlink() looks for the directory, with the file locked ...
Unlink(t) ==
  LET v == th[t].vp
  IN  /\ Ready(t, "got") /\ th[t].op = "unlink" /\ ~Busy(v)
      /\ th' = [th EXCEPT ![t] = [Idle EXCEPT !.pc = "find", !.op = "remove", !.held = v,
                                             !.path = ParentOf[v_path[v]]]]
      /\ UNCHANGED <<vn_table, v_path, v_refcnt, v_lock, files, unclosed, exists, raced>>

\* ... and removes the file: VOP_REMOVE(), vn_unlock(), vgone(), vput(dvp).  (What
\* namei() finds for the directory of a file is one, so lookup() goes on.)
RemoveFile(t) ==
  LET v == th[t].held
  IN  /\ Ready(t, "got") /\ th[t].op = "remove"
      /\ exists' = exists \ {v_path[v]}
      /\ raced' = IF v_refcnt[v] = 1 THEN "no" ELSE "gone while used"
      /\ Freed(v)
      /\ th' = [th EXCEPT ![t] = [Idle EXCEPT !.puts = <<th[t].vp>>]]
      /\ UNCHANGED <<files, unclosed>>
-----------------------------------------------------------------------------
Putting(t, put) == raced = "no" /\ th[t].puts # <<>> /\ th[t].put = put

\* vput(): vp->v_refcnt-- reads ...
PutLoad(t) ==
  /\ Putting(t, "load")
  /\ th' = [th EXCEPT ![t] = [@ EXCEPT !.put = "store", !.n = v_refcnt[Head(th[t].puts)]]]
  /\ UNCHANGED <<vn_table, v_path, v_refcnt, v_lock, files, unclosed, exists, raced>>

\* ... and writes; when it is not the last reference, vn_unlock().  A vnode for
\* which VOP_LOOKUP() failed should have no other.
PutStore(t) ==
  LET v == Head(th[t].puts)
      n == th[t].n - 1
      rest == Tail(th[t].puts)
  IN  /\ Putting(t, "store")
      /\ v_refcnt' = [v_refcnt EXCEPT ![v] = n]
      /\ raced' = IF v_refcnt[v] # th[t].n THEN "lost a count"
                  ELSE IF n > 0 /\ v_path[v] \notin exists THEN "found half-made"
                  ELSE "no"
      /\ IF n > 0
         THEN /\ v_lock' = [v_lock EXCEPT ![v] = NoThread]
              /\ th' = [th EXCEPT ![t] = [@ EXCEPT !.puts = rest, !.put = "load", !.n = 0]]
         ELSE th' = [th EXCEPT ![t] = [@ EXCEPT !.put = "free", !.n = 0]] /\ UNCHANGED v_lock
      /\ UNCHANGED <<vn_table, v_path, files, unclosed, exists>>

\* The last one is gone: list_remove(), and from then on the vnode is t's own.
PutFree(t) ==
  LET v == Head(th[t].puts)
      rest == Tail(th[t].puts)
  IN  /\ Putting(t, "free")
      /\ raced' = IF v_refcnt[v] = 0 THEN "no" ELSE "found too late"
      /\ Freed(v)
      /\ th' = [th EXCEPT ![t] = [@ EXCEPT !.puts = rest, !.put = "load"]]
      /\ UNCHANGED <<files, unclosed, exists>>

VnodeNext ==
  \E t \in FsThread :
    \/ \E op \in {"open", "stat", "unlink"}, p \in Asked : Request(t, op, p)
    \/ \E v \in Vnodes : Close(t, v)
    \/ Find(t) \/ Lock(t) \/ DirLock(t) \/ LockRefused(t) \/ Look(t) \/ Fs(t)
    \/ Open(t) \/ Put(t) \/ CloseFails(t) \/ Unlink(t) \/ RemoveFile(t)
    \/ PutLoad(t) \/ PutStore(t) \/ PutFree(t)

VnodeSpec == VnodeInit /\ [][VnodeNext]_vnodeVars
-----------------------------------------------------------------------------
\* What a thread with the work r has still to count down.
Owed(r) == IF r.put = "free" THEN Tail(r.puts) ELSE r.puts

\* The references that it has to v.
Bit(holds) == IF holds THEN 1 ELSE 0
Times(q, v) == Cardinality({i \in DOMAIN q : q[i] = v})
UsesOf(r, v) == Bit(r.vp = v) + Bit(r.dvp = v) + Bit(r.held = v) + Times(Owed(r), v)

\* The references of all threads, those of the mount and of file structures.
References(v) == UNION {{t} \X (1..UsesOf(th[t], v)) : t \in FsThread}
Uses(v) == files[v] + Bit(v = rootvp)

\* Until one of the steps that raced names, a path has one vnode, whoever looks
\* it up at the same time; the reference count is the number of open files, of
\* those that failed to close and of threads that use the vnode, so that it is
\* freed after the last of them and not before; whoever has it locked uses it;
\* and no file that is open is removed.
VnodesCounted ==
  raced = "no" =>
    /\ \A v \in vn_table : v_refcnt[v] = Uses(v) + Cardinality(References(v))
    /\ \A v \in Vnodes \ vn_table : files[v] = 0 /\ \A t \in FsThread : UsesOf(th[t], v) = 0
    /\ \A v, w \in vn_table : v # w => v_path[v] # v_path[w]
    /\ \A v \in vn_table : \A t \in FsThread : v_lock[v] = t =>
         \/ UsesOf(th[t], v) > 0
         \/ th[t].puts # <<>> /\ v = Head(th[t].puts)
    /\ \A v \in vn_table : files[v] > 0 => v_path[v] \in exists
=============================================================================
