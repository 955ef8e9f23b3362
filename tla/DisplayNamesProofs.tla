------------------------- MODULE DisplayNamesProofs -------------------------
(***************************************************************************)
(* Proofs about DisplayNames for any finite set of processes, any pids and *)
(* kernels, and any number of names, starts and attempts.                  *)
(***************************************************************************)
EXTENDS DisplayNames, FiniteSetTheorems, TLAPS

-----------------------------------------------------------------------------
(* wl_socket: the lock is held from flock() to close(), paths are set only *)
(* together with it once flock() was called, and flock() is exclusive.     *)
LockInv ==
    /\ \A p \in Procs :
        LET s == socket[p]
        IN  /\ s.locked => s.pc \in {"stat", "bind", "listen", "ready", "destroy", "unlock", "close"}
            /\ s.pc \in {"stat", "bind", "listen", "ready"} => s.locked
            /\ s.pc \in {"destroy", "unlock"} /\ (s.path \/ s.lockPath) => s.locked
            /\ s.pc = "name" => ~s.path /\ ~s.lockPath
            /\ s.pc = "flock" \/ s.locked => s.fdLock # 0
    /\ \A p, q \in Procs :
        socket[p].locked /\ socket[q].locked /\ p # q => socket[p].fdLock # socket[q].fdLock

(* Unless a process locked a file that had been unlinked, the file that a  *)
(* process has locked is the one at the path, until it unlinks it; and the *)
(* socket that it bound is its own.                                        *)
Owns(p) == socket[p].locked /\ socket[p].pc # "close"
NameInv ==
    ~raced => \A p \in Procs :
        /\ Owns(p) => lockFile[socket[p].n] = socket[p].fdLock
        /\ socket[p].pc \in {"listen", "ready"} => sockFile[socket[p].n] = p

SocketInv == SocketTypeOK /\ LockInv /\ NameInv

-----------------------------------------------------------------------------
(* X displays: processes that run have different pids. A process that has  *)
(* created a lock file is the only one with that display until it removes  *)
(* it, unless a lock was taken away from its owner; the file is empty at   *)
(* first, then holds the pid, and the socket that it bound is its own.     *)
Claims(p) == xs[p].pc \in {"write", "unlink", "bind", "listen", "unlock", "ready"}
PidInv ==
    /\ \A p \in XProcs : xs[p].pc # "off" => xs[p].self \in Pids
    /\ \A p, q \in XProcs : xs[p].pc # "off" /\ xs[q].pc # "off" /\ p # q => xs[p].self # xs[q].self
ClaimInv ==
    ~taken =>
        /\ \A p \in XProcs :
            /\ xs[p].pc = "write" => xlock[xs[p].display] = "empty"
            /\ Claims(p) /\ xs[p].pc # "write" => xlock[xs[p].display] = xs[p].self
            /\ xs[p].pc \in {"listen", "ready"} => xsock[xs[p].display] = p
        /\ \A p, q \in XProcs : Claims(p) /\ Claims(q) /\ p # q => xs[p].display # xs[q].display

(* Before the first attempt to start Xwayland, only the pipes may be       *)
(* inherited and nothing was opened for an attempt.                        *)
FdsInv ==
    \A p \in XProcs : xs[p].tries = 0 =>
        /\ xs[p].child # "pid"
        /\ \A fd \in fds[p] : fd.try = 0 /\ (~fd.cloexec => fd \in MakePipe)

XInv == XTypeOK /\ PidInv /\ ClaimInv /\ FdsInv /\ ServerInherits

NamesInv == SocketInv /\ XInv

-----------------------------------------------------------------------------
(* There is always an inode that neither a path nor a descriptor refers    *)
(* to, so open() has one to create.                                        *)
LEMMA FreeInodeExists ==
  ASSUME SocketTypeOK
  PROVE  FreeInode \in Nat \ {0}
<1> DEFINE paths == {lockFile[n] : n \in Numbers}
           open == {socket[p].fdLock : p \in Procs}
           bound == Cardinality(Procs) + Cardinality(Numbers) + 1
<1>1. IsFiniteSet(Numbers) /\ Cardinality(Numbers) \in Nat
  <2>1. IsFiniteSet(0 .. MaxDisplayno)
    <3>1. 0 \in Int /\ MaxDisplayno \in Int
      BY WaylandSocketAssumption
    <3> QED BY <3>1, FS_Interval
  <2> QED BY <2>1, FS_CardinalityType DEF Numbers
<1>2. IsFiniteSet(Procs) /\ Cardinality(Procs) \in Nat
  BY WaylandSocketAssumption, FS_CardinalityType
<1>3. IsFiniteSet(paths) /\ Cardinality(paths) <= Cardinality(Numbers)
  <2>1. lockFile \in Surjection(Numbers, paths)
    BY DEF SocketTypeOK, Surjection
  <2> QED BY <1>1, <2>1, FS_Surjection
<1>4. IsFiniteSet(open) /\ Cardinality(open) <= Cardinality(Procs)
  <2> DEFINE f == [p \in Procs |-> socket[p].fdLock]
  <2>1. f \in Surjection(Procs, open)
    BY DEF Surjection
  <2> QED BY <1>2, <2>1, FS_Surjection
<1> HIDE DEF paths, open
<1>5. IsFiniteSet(paths \cup open) /\ Cardinality(paths \cup open) < bound
  <2>1. /\ IsFiniteSet(paths \cup open)
        /\ Cardinality(paths \cup open) =
             Cardinality(paths) + Cardinality(open) - Cardinality(paths \cap open)
    BY <1>3, <1>4, FS_Union
  <2>2. Cardinality(paths) \in Nat /\ Cardinality(open) \in Nat /\ Cardinality(paths \cap open) \in Nat
    <3>1. IsFiniteSet(paths \cap open)
      BY <1>3, FS_Subset
    <3> QED BY <1>3, <1>4, <3>1, FS_CardinalityType
  <2> QED BY <1>1, <1>2, <1>3, <1>4, <2>1, <2>2
<1>6. PICK i \in 1 .. bound : i \notin paths \cup open
  <2> SUFFICES ASSUME 1 .. bound \subseteq paths \cup open PROVE FALSE
    OBVIOUS
  <2>1. Cardinality(1 .. bound) <= Cardinality(paths \cup open)
    BY <1>5, FS_Subset
  <2>2. bound \in Nat /\ bound >= 1
    BY <1>1, <1>2
  <2>3. Cardinality(1 .. bound) = bound
    BY <2>2, FS_Interval
  <2>4. Cardinality(paths \cup open) \in Nat
    BY <1>5, FS_CardinalityType
  <2> QED BY <1>5, <2>1, <2>2, <2>3, <2>4
<1>7. /\ \A n \in Numbers : lockFile[n] # i
      /\ \A p \in Procs : socket[p].fdLock # i
  BY <1>6 DEF paths, open
<1>8. FreeInode \in 1 .. bound
  BY <1>6, <1>7 DEF FreeInode
<1> QED BY <1>1, <1>2, <1>8

(* Two processes never own the same name.                                  *)
LEMMA OneOwner ==
  ASSUME SocketInv, ~raced, NEW p \in Procs, NEW q \in Procs, p # q, Owns(p), Owns(q)
  PROVE  socket[p].n # socket[q].n
<1>1. /\ lockFile[socket[p].n] = socket[p].fdLock
      /\ lockFile[socket[q].n] = socket[q].fdLock
  BY DEF SocketInv, NameInv
<1>2. socket[p].fdLock # socket[q].fdLock
  BY DEF SocketInv, LockInv, Owns
<1> QED BY <1>1, <1>2

(* What giving up a number does to the process, and only to it.            *)
LEMMA NextNumberEffect ==
  ASSUME SocketTypeOK, NEW p \in Procs, NextNumber(p)
  PROVE  /\ socket' \in [Procs -> Sockets]
         /\ socket'[p].pc \in {"name", "destroy"}
         /\ ~socket'[p].path /\ ~socket'[p].lockPath /\ ~socket'[p].locked
         /\ \A q \in Procs : q # p => socket'[q] = socket[q]
<1> DEFINE new == IF socket[p].n < MaxDisplayno
                  THEN [socket[p] EXCEPT !.path = FALSE, !.lockPath = FALSE, !.fdLock = 0, !.locked = FALSE,
                                         !.n = @ + 1, !.pc = "name"]
                  ELSE [socket[p] EXCEPT !.path = FALSE, !.lockPath = FALSE, !.fdLock = 0, !.locked = FALSE,
                                         !.pc = "destroy"]
<1>1. socket' = [socket EXCEPT ![p] = new]
  BY DEF NextNumber, Unlocked, SocketTypeOK
<1>2. new \in Sockets /\ new.pc \in {"name", "destroy"} /\ ~new.path /\ ~new.lockPath /\ ~new.locked
  <2>1. socket[p] \in Sockets /\ MaxDisplayno \in Nat
    BY WaylandSocketAssumption DEF SocketTypeOK
  <2>2. CASE socket[p].n < MaxDisplayno
    <3>1. socket[p].n + 1 \in Numbers
      BY <2>1, <2>2 DEF Sockets, Numbers
    <3> QED BY <2>1, <2>2, <3>1 DEF Sockets
  <2>3. CASE ~(socket[p].n < MaxDisplayno)
    BY <2>1, <2>3 DEF Sockets
  <2> QED BY <2>2, <2>3
<1> QED BY <1>1, <1>2 DEF SocketTypeOK

(* A process that gives up a number owns none.                             *)
LEMMA NextNumberStep ==
  ASSUME SocketInv, NEW p \in Procs, NextNumber(p), UNCHANGED <<lockFile, sockFile, raced, starts>>
  PROVE  SocketInv'
<1>1. SocketTypeOK
  BY DEF SocketInv
<1>2. SocketTypeOK'
  BY <1>1, NextNumberEffect DEF SocketTypeOK
<1>3. /\ socket'[p].pc \in {"name", "destroy"}
      /\ ~socket'[p].path /\ ~socket'[p].lockPath /\ ~socket'[p].locked
      /\ \A q \in Procs : q # p => socket'[q] = socket[q]
  BY <1>1, NextNumberEffect
<1>4. LockInv'
  BY <1>3 DEF SocketInv, LockInv
<1>5. NameInv'
  BY <1>3 DEF SocketInv, NameInv, Owns
<1> QED BY <1>2, <1>4, <1>5 DEF SocketInv

(* What going on with another step does to the process, and only to it.    *)
LEMMA GoesEffect ==
  ASSUME SocketTypeOK, NEW p \in Procs, NEW pc, Goes(p, pc),
         pc \in {"bind", "listen", "ready", "destroy", "unlock", "close"}
  PROVE  /\ socket' \in [Procs -> Sockets]
         /\ socket'[p] = [socket[p] EXCEPT !.pc = pc]
         /\ socket'[p].pc = pc /\ socket'[p].n = socket[p].n
         /\ socket'[p].path = socket[p].path /\ socket'[p].lockPath = socket[p].lockPath
         /\ socket'[p].fdLock = socket[p].fdLock /\ socket'[p].locked = socket[p].locked
         /\ \A q \in Procs : q # p => socket'[q] = socket[q]
<1>1. socket[p] \in Sockets
  BY DEF SocketTypeOK
<1>2. [socket[p] EXCEPT !.pc = pc] \in Sockets
  BY <1>1 DEF Sockets
<1> QED BY <1>1, <1>2 DEF Goes, SocketTypeOK, Sockets

(* A process that goes on while it has its lock keeps LockInv.             *)
LEMMA GoesLock ==
  ASSUME SocketTypeOK, LockInv, NEW p \in Procs, NEW pc, Goes(p, pc),
         \/ pc \in {"bind", "listen", "ready"} /\ socket[p].locked
         \/ pc = "destroy" /\ (socket[p].locked \/ socket[p].pc = "name")
         \/ pc = "unlock" /\ socket[p].pc = "destroy"
         \/ pc = "close" /\ socket[p].pc = "unlock"
  PROVE  LockInv'
<1>1. pc \in {"bind", "listen", "ready", "destroy", "unlock", "close"}
  OBVIOUS
<1>2. /\ socket'[p].pc = pc
      /\ socket'[p].path = socket[p].path /\ socket'[p].lockPath = socket[p].lockPath
      /\ socket'[p].fdLock = socket[p].fdLock /\ socket'[p].locked = socket[p].locked
      /\ \A q \in Procs : q # p => socket'[q] = socket[q]
  BY <1>1, GoesEffect
<1> QED BY <1>2 DEF LockInv

(* A new socket owns nothing.                                              *)
LEMMA AddSocketAutoStep ==
  ASSUME SocketInv, NEW p \in Procs, AddSocketAuto(p)
  PROVE  SocketInv'
<1> DEFINE new == [NoSocket EXCEPT !.pc = "name"]
<1>1. /\ socket' = [socket EXCEPT ![p] = new] /\ starts' = starts + 1 /\ starts < MaxStarts
      /\ UNCHANGED <<lockFile, sockFile, raced>>
  BY DEF AddSocketAuto
<1>2. new \in Sockets /\ new.pc = "name" /\ ~new.path /\ ~new.lockPath /\ ~new.locked
  <2>1. NoSocket \in Sockets /\ ~NoSocket.path /\ ~NoSocket.lockPath /\ ~NoSocket.locked
    BY WaylandSocketAssumption DEF NoSocket, Sockets, Numbers
  <2> QED BY <2>1 DEF Sockets
<1> HIDE DEF new
<1>3. /\ socket' \in [Procs -> Sockets] /\ socket'[p] = new
      /\ \A q \in Procs : q # p => socket'[q] = socket[q]
  BY <1>1, <1>2 DEF SocketInv, SocketTypeOK
<1>4. SocketTypeOK'
  BY <1>1, <1>3, WaylandSocketAssumption DEF SocketInv, SocketTypeOK
<1>5. LockInv'
  <2>1. /\ socket'[p].pc = "name" /\ ~socket'[p].path /\ ~socket'[p].lockPath /\ ~socket'[p].locked
        /\ \A q \in Procs : q # p => socket'[q] = socket[q]
    BY <1>2, <1>3
  <2> QED BY <2>1 DEF SocketInv, LockInv
<1>6. NameInv'
  BY <1>1, <1>2, <1>3 DEF SocketInv, NameInv, Owns
<1> QED BY <1>4, <1>5, <1>6 DEF SocketInv

(* The paths are set before the lock is taken.                             *)
LEMMA InitForDisplayNameStep ==
  ASSUME SocketInv, NEW p \in Procs, InitForDisplayName(p)
  PROVE  SocketInv'
<1>1. socket[p].pc = "name" /\ UNCHANGED <<lockFile, sockFile, raced, starts>>
      /\ SocketTypeOK /\ socket[p] \in Sockets /\ ~socket[p].locked
  BY DEF InitForDisplayName, SocketInv, SocketTypeOK, LockInv
<1>2. CASE Goes(p, "destroy")
  <2>1. /\ socket' \in [Procs -> Sockets] /\ socket'[p].pc = "destroy" /\ socket'[p].locked = socket[p].locked
        /\ \A q \in Procs : q # p => socket'[q] = socket[q]
    BY <1>1, <1>2, GoesEffect
  <2>2. LockInv'
    BY <1>1, <1>2, GoesLock DEF SocketInv
  <2>3. SocketTypeOK' /\ NameInv'
    BY <1>1, <2>1 DEF SocketInv, SocketTypeOK, NameInv, Owns
  <2> QED BY <2>2, <2>3 DEF SocketInv
<1>3. CASE socket' = [socket EXCEPT ![p].path = TRUE, ![p].pc = "open"]
  <2>1. /\ socket' \in [Procs -> Sockets] /\ socket'[p].pc = "open" /\ socket'[p].locked = socket[p].locked
        /\ \A q \in Procs : q # p => socket'[q] = socket[q]
    BY <1>1, <1>3 DEF SocketTypeOK, Sockets
  <2>2. LockInv'
    BY <1>1, <2>1 DEF SocketInv, LockInv
  <2>3. SocketTypeOK' /\ NameInv'
    BY <1>1, <2>1 DEF SocketInv, SocketTypeOK, NameInv, Owns
  <2> QED BY <2>2, <2>3 DEF SocketInv
<1> QED BY <1>2, <1>3 DEF InitForDisplayName

(* open() creates a lock file only where there is none, so no owner loses  *)
(* its file.                                                               *)
LEMMA OpenLockStep ==
  ASSUME SocketInv, NEW p \in Procs, OpenLock(p)
  PROVE  SocketInv'
<1>1. socket[p].pc = "open" /\ UNCHANGED <<sockFile, raced, starts>>
      /\ SocketTypeOK /\ socket[p] \in Sockets /\ socket[p].n \in Numbers
  BY DEF OpenLock, SocketInv, SocketTypeOK, Sockets
<1>2. CASE NextNumber(p) /\ UNCHANGED lockFile
  BY <1>1, <1>2, NextNumberStep
<1> DEFINE inode == IF lockFile[socket[p].n] # 0 THEN lockFile[socket[p].n] ELSE FreeInode
<1>3. CASE /\ lockFile' = [lockFile EXCEPT ![socket[p].n] = inode]
           /\ socket' = [socket EXCEPT ![p].lockPath = TRUE, ![p].fdLock = inode, ![p].pc = "flock"]
  <2>1. inode \in Nat \ {0}
    BY <1>1, FreeInodeExists DEF SocketTypeOK
  <2>2. \A n \in Numbers : lockFile[n] # 0 => lockFile'[n] = lockFile[n]
    BY <1>1, <1>3 DEF SocketTypeOK
  <2> HIDE DEF inode
  <2>3. lockFile' \in [Numbers -> Nat]
    BY <1>1, <1>3, <2>1 DEF SocketTypeOK
  <2>4. ~socket[p].locked
    BY <1>1 DEF SocketInv, LockInv
  <2>5. /\ socket' \in [Procs -> Sockets] /\ socket'[p].pc = "flock" /\ ~socket'[p].locked
        /\ socket'[p].fdLock = inode
        /\ \A q \in Procs : q # p => socket'[q] = socket[q]
    BY <1>1, <1>3, <2>1, <2>4 DEF SocketTypeOK, Sockets
  <2>6. SocketTypeOK'
    BY <1>1, <2>3, <2>5 DEF SocketTypeOK
  <2>7. LockInv'
    BY <2>1, <2>5 DEF SocketInv, LockInv
  <2>8. NameInv'
    <3> SUFFICES ASSUME ~raced, NEW q \in Procs
                 PROVE  /\ Owns(q)' => lockFile'[socket'[q].n] = socket'[q].fdLock
                        /\ socket'[q].pc \in {"listen", "ready"} => sockFile[socket'[q].n] = q
      BY <1>1 DEF NameInv
    <3>1. CASE q = p
      BY <2>5, <3>1 DEF Owns
    <3>2. CASE q # p
      <4>1. Owns(q)' <=> Owns(q)
        BY <2>5, <3>2 DEF Owns
      <4>2. Owns(q) => socket[q].fdLock # 0 /\ socket[q].n \in Numbers
        BY <1>1 DEF SocketInv, LockInv, Owns, SocketTypeOK, Sockets
      <4> QED BY <2>2, <2>5, <3>2, <4>1, <4>2 DEF SocketInv, NameInv
    <3> QED BY <3>1, <3>2
  <2> QED BY <2>6, <2>7, <2>8 DEF SocketInv
<1> QED BY <1>2, <1>3 DEF OpenLock

(* flock() succeeds for one process only; it races if the file it got is   *)
(* not at the path any more.                                               *)
LEMMA FlockStep ==
  ASSUME SocketInv, NEW p \in Procs, Flock(p)
  PROVE  SocketInv'
<1>1. socket[p].pc = "flock" /\ UNCHANGED <<lockFile, sockFile, starts>>
      /\ SocketTypeOK /\ socket[p] \in Sockets
  BY DEF Flock, SocketInv, SocketTypeOK
<1>2. CASE NextNumber(p) /\ UNCHANGED raced
  BY <1>1, <1>2, NextNumberStep
<1>3. CASE /\ ~\E q \in Procs : socket[q].locked /\ socket[q].fdLock = socket[p].fdLock
           /\ socket' = [socket EXCEPT ![p].locked = TRUE, ![p].pc = "stat"]
           /\ raced' = (raced \/ lockFile[socket[p].n] # socket[p].fdLock)
  <2>1. /\ socket' \in [Procs -> Sockets] /\ socket'[p].pc = "stat" /\ socket'[p].locked
        /\ socket'[p].fdLock = socket[p].fdLock /\ socket'[p].n = socket[p].n
        /\ \A q \in Procs : q # p => socket'[q] = socket[q]
    BY <1>1, <1>3 DEF SocketTypeOK, Sockets
  <2>2. raced' \in BOOLEAN
    BY <1>3
  <2>3. SocketTypeOK'
    BY <1>1, <2>1, <2>2 DEF SocketTypeOK
  <2>4. LockInv'
    BY <1>1, <1>3, <2>1 DEF SocketInv, LockInv
  <2>5. NameInv'
    <3> SUFFICES ASSUME ~raced, lockFile[socket[p].n] = socket[p].fdLock, NEW q \in Procs
                 PROVE  /\ Owns(q)' => lockFile[socket'[q].n] = socket'[q].fdLock
                        /\ socket'[q].pc \in {"listen", "ready"} => sockFile[socket'[q].n] = q
      BY <1>1, <1>3 DEF NameInv
    <3>1. CASE q = p
      BY <2>1, <3>1
    <3>2. CASE q # p
      BY <2>1, <3>2 DEF SocketInv, NameInv, Owns
    <3> QED BY <3>1, <3>2
  <2> QED BY <2>3, <2>4, <2>5 DEF SocketInv
<1> QED BY <1>2, <1>3 DEF Flock

(* Only an owner of a name touches the socket there, and no other process  *)
(* owns it.                                                                *)
LEMMA SocketTouched ==
  ASSUME SocketInv, NEW p \in Procs, Owns(p), NEW pc, Goes(p, pc),
         pc \in {"bind", "listen", "ready", "destroy", "unlock"},
         NEW whose \in Procs \cup {"none", "stale"},
         sockFile' \in {sockFile, [sockFile EXCEPT ![socket[p].n] = whose]},
         pc \in {"listen", "ready"} => sockFile'[socket[p].n] = p,
         UNCHANGED <<lockFile, raced, starts>>
  PROVE  SocketTypeOK' /\ NameInv'
<1>1. SocketTypeOK /\ socket[p].n \in Numbers
  BY DEF SocketInv, SocketTypeOK, Sockets
<1>2. /\ socket' \in [Procs -> Sockets] /\ socket'[p].pc = pc /\ socket'[p].n = socket[p].n
      /\ socket'[p].fdLock = socket[p].fdLock /\ socket'[p].locked = socket[p].locked
      /\ \A q \in Procs : q # p => socket'[q] = socket[q]
  BY ZenonT(60), <1>1, GoesEffect
<1>3. SocketTypeOK'
  BY <1>1, <1>2 DEF SocketTypeOK
<1>4. NameInv'
  <2> SUFFICES ASSUME ~raced, NEW q \in Procs
               PROVE  /\ Owns(q)' => lockFile[socket'[q].n] = socket'[q].fdLock
                      /\ socket'[q].pc \in {"listen", "ready"} => sockFile'[socket'[q].n] = q
    BY DEF NameInv
  <2>1. CASE q = p
    BY <1>2, <2>1 DEF SocketInv, NameInv, Owns
  <2>2. CASE q # p
    <3>1. Owns(q)' <=> Owns(q)
      BY <1>2, <2>2 DEF Owns
    <3>2. ASSUME socket[q].pc \in {"listen", "ready"} PROVE sockFile'[socket[q].n] = q
      <4>1. Owns(q)
        BY <3>2 DEF SocketInv, LockInv, Owns
      <4>2. socket[q].n # socket[p].n /\ socket[q].n \in Numbers
        BY <1>1, <2>2, <4>1, OneOwner DEF SocketTypeOK, Sockets
      <4>3. sockFile'[socket[q].n] = sockFile[socket[q].n]
        BY <1>1, <4>2 DEF SocketTypeOK
      <4> QED BY <3>2, <4>3 DEF SocketInv, NameInv
    <3> QED BY <1>2, <2>2, <3>1, <3>2 DEF SocketInv, NameInv
  <2> QED BY <2>1, <2>2
<1> QED BY <1>3, <1>4

(* A process that has the lock owns its name.                              *)
LEMMA LockedOwns ==
  ASSUME SocketInv, NEW p \in Procs,
         \/ socket[p].pc \in {"stat", "bind", "listen", "ready"}
         \/ socket[p].pc \in {"destroy", "unlock"} /\ (socket[p].path \/ socket[p].lockPath)
  PROVE  Owns(p) /\ socket[p].locked
  BY DEF SocketInv, LockInv, Owns

(* lstat() and unlink() of what is at the path.                            *)
LEMMA StatSocketStep ==
  ASSUME SocketInv, NEW p \in Procs, StatSocket(p)
  PROVE  SocketInv'
<1>1. /\ socket[p].pc = "stat" /\ UNCHANGED <<lockFile, raced, starts>>
      /\ SocketTypeOK /\ LockInv
  BY DEF StatSocket, SocketInv
<1>2. Owns(p) /\ socket[p].locked
  BY <1>1, LockedOwns
<1>3. CASE NextNumber(p) /\ UNCHANGED sockFile
  BY <1>1, <1>3, NextNumberStep
<1>4. CASE Goes(p, "bind") /\ sockFile' \in {sockFile, [sockFile EXCEPT ![socket[p].n] = "none"]}
  <2>1. LockInv'
    BY <1>1, <1>2, <1>4, GoesLock
  <2>2. SocketTypeOK' /\ NameInv'
    BY <1>1, <1>2, <1>4, SocketTouched
  <2> QED BY <2>1, <2>2 DEF SocketInv
<1> QED BY <1>3, <1>4 DEF StatSocket

(* bind() makes the socket of the process.                                 *)
LEMMA BindSocketStep ==
  ASSUME SocketInv, NEW p \in Procs, BindSocket(p)
  PROVE  SocketInv'
<1>1. /\ socket[p].pc = "bind" /\ UNCHANGED <<lockFile, raced, starts>>
      /\ SocketTypeOK /\ LockInv
  BY DEF BindSocket, SocketInv
<1>2. Owns(p) /\ socket[p].locked
  BY <1>1, LockedOwns
<1>3. CASE Goes(p, "destroy") /\ UNCHANGED sockFile
  <2>1. LockInv'
    BY <1>1, <1>2, <1>3, GoesLock
  <2>2. SocketTypeOK' /\ NameInv'
    BY <1>1, <1>2, <1>3, SocketTouched
  <2> QED BY <2>1, <2>2 DEF SocketInv
<1>4. CASE Goes(p, "listen") /\ sockFile' = [sockFile EXCEPT ![socket[p].n] = p]
  <2>1. LockInv'
    BY <1>1, <1>2, <1>4, GoesLock
  <2>2. sockFile'[socket[p].n] = p
    BY <1>1, <1>4 DEF SocketTypeOK, Sockets
  <2>3. SocketTypeOK' /\ NameInv'
    BY <1>1, <1>2, <1>4, <2>2, SocketTouched
  <2> QED BY <2>1, <2>3 DEF SocketInv
<1> QED BY <1>3, <1>4 DEF BindSocket

(* listen(), and wl_display_destroy() later on.                            *)
LEMMA ListenDestroyStep ==
  ASSUME SocketInv, NEW p \in Procs, ListenSocket(p) \/ DestroySocket(p)
  PROVE  SocketInv'
<1>1. /\ socket[p].pc \in {"listen", "ready"} /\ UNCHANGED <<lockFile, sockFile, raced, starts>>
      /\ SocketTypeOK /\ LockInv /\ NameInv
  BY DEF ListenSocket, DestroySocket, SocketInv
<1>2. Owns(p) /\ socket[p].locked
  BY <1>1, LockedOwns
<1>3. ASSUME NEW pc \in {"ready", "destroy"}, Goes(p, pc) PROVE SocketInv'
  <2>1. LockInv'
    BY <1>1, <1>2, <1>3, GoesLock
  <2>2. CASE raced
    <3>1. socket' \in [Procs -> Sockets]
      BY <1>1, <1>3, GoesEffect
    <3> QED BY <1>1, <2>1, <2>2, <3>1 DEF SocketInv, SocketTypeOK, NameInv
  <2>3. CASE ~raced
    <3>1. sockFile[socket[p].n] = p
      BY <1>1, <2>3 DEF NameInv
    <3>2. SocketTypeOK' /\ NameInv'
      BY <1>1, <1>2, <1>3, <3>1, SocketTouched
    <3> QED BY <2>1, <3>2 DEF SocketInv
  <2> QED BY <2>2, <2>3
<1> QED BY <1>3 DEF ListenSocket, DestroySocket

(* wl_socket_destroy(): the socket goes if its path is set, which it is    *)
(* only for an owner.                                                      *)
LEMMA UnlinkSocketStep ==
  ASSUME SocketInv, NEW p \in Procs, UnlinkSocket(p)
  PROVE  SocketInv'
<1>1. /\ socket[p].pc = "destroy" /\ Goes(p, "unlock") /\ UNCHANGED <<lockFile, raced, starts>>
      /\ sockFile' = IF socket[p].path THEN [sockFile EXCEPT ![socket[p].n] = "none"] ELSE sockFile
      /\ SocketTypeOK /\ LockInv /\ NameInv
  BY DEF UnlinkSocket, SocketInv
<1>2. LockInv'
  BY <1>1, GoesLock
<1>3. CASE Owns(p)
  <2>1. SocketTypeOK' /\ NameInv'
    BY <1>1, <1>3, SocketTouched
  <2> QED BY <1>2, <2>1 DEF SocketInv
<1>4. CASE ~Owns(p)
  <2>1. sockFile' = sockFile
    BY <1>1, <1>4, LockedOwns
  <2>2. /\ socket' \in [Procs -> Sockets] /\ socket'[p].pc = "unlock" /\ socket'[p].locked = socket[p].locked
        /\ \A q \in Procs : q # p => socket'[q] = socket[q]
    BY <1>1, GoesEffect
  <2>3. SocketTypeOK' /\ NameInv'
    BY ZenonT(60), <1>1, <1>4, <2>1, <2>2 DEF SocketTypeOK, NameInv, Owns
  <2> QED BY <1>2, <2>3 DEF SocketInv
<1> QED BY <1>3, <1>4

(* wl_socket_destroy(): so does the lock file, which the process then does *)
(* not own any more.                                                       *)
LEMMA UnlinkLockStep ==
  ASSUME SocketInv, NEW p \in Procs, UnlinkLock(p)
  PROVE  SocketInv'
<1>1. /\ socket[p].pc = "unlock" /\ Goes(p, "close") /\ UNCHANGED <<sockFile, raced, starts>>
      /\ lockFile' = IF socket[p].lockPath THEN [lockFile EXCEPT ![socket[p].n] = 0] ELSE lockFile
      /\ SocketTypeOK /\ LockInv /\ NameInv
  BY DEF UnlinkLock, SocketInv
<1>2. LockInv'
  BY <1>1, GoesLock
<1>3. /\ socket' \in [Procs -> Sockets] /\ socket'[p].pc = "close"
      /\ \A q \in Procs : q # p => socket'[q] = socket[q]
  BY <1>1, GoesEffect
<1>4. SocketTypeOK'
  BY <1>1, <1>3 DEF SocketTypeOK
<1>5. NameInv'
  <2> SUFFICES ASSUME ~raced, NEW q \in Procs
               PROVE  /\ Owns(q)' => lockFile'[socket'[q].n] = socket'[q].fdLock
                      /\ socket'[q].pc \in {"listen", "ready"} => sockFile[socket'[q].n] = q
    BY <1>1 DEF NameInv
  <2>1. CASE q = p
    BY <1>3, <2>1 DEF Owns
  <2>2. CASE q # p
    <3>1. Owns(q)' <=> Owns(q)
      BY <1>3, <2>2 DEF Owns
    <3>2. ASSUME Owns(q) PROVE lockFile'[socket[q].n] = lockFile[socket[q].n]
      <4>1. CASE socket[p].lockPath
        <5>1. socket[q].n # socket[p].n /\ socket[q].n \in Numbers
          BY <1>1, <2>2, <3>2, <4>1, LockedOwns, OneOwner DEF SocketTypeOK, Sockets
        <5> QED BY <1>1, <5>1 DEF SocketTypeOK
      <4>2. CASE ~socket[p].lockPath
        BY <1>1, <4>2
      <4> QED BY <4>1, <4>2
    <3> QED BY <1>1, <1>3, <2>2, <3>1, <3>2 DEF NameInv
  <2> QED BY <2>1, <2>2
<1> QED BY <1>2, <1>4, <1>5 DEF SocketInv

(* The process closes its lock, or ends anywhere before.                   *)
LEMMA CloseOrCrashStep ==
  ASSUME SocketInv, NEW p \in Procs, CloseLock(p) \/ SocketCrash(p)
  PROVE  SocketInv'
<1>1. /\ socket' = [socket EXCEPT ![p] = NoSocket] /\ UNCHANGED <<lockFile, raced, starts>>
      /\ sockFile' \in {sockFile, Left(sockFile, p)}
      /\ SocketTypeOK /\ LockInv /\ NameInv
  BY DEF CloseLock, SocketCrash, SocketInv
<1>2. NoSocket \in Sockets /\ NoSocket.pc = "off" /\ ~NoSocket.locked
  BY WaylandSocketAssumption DEF NoSocket, Sockets, Numbers
<1>3. /\ socket' \in [Procs -> Sockets] /\ socket'[p].pc = "off" /\ ~socket'[p].locked
      /\ \A q \in Procs : q # p => socket'[q] = socket[q]
  BY <1>1, <1>2 DEF SocketTypeOK
<1>4. /\ sockFile' \in [Numbers -> Procs \cup {"none", "stale"}]
      /\ \A n \in Numbers : sockFile[n] # p => sockFile'[n] = sockFile[n]
  BY <1>1 DEF SocketTypeOK, Left
<1>5. SocketTypeOK'
  BY <1>1, <1>3, <1>4 DEF SocketTypeOK
<1>6. LockInv'
  BY <1>1, <1>3 DEF LockInv
<1>7. NameInv'
  <2> SUFFICES ASSUME ~raced, NEW q \in Procs
               PROVE  /\ Owns(q)' => lockFile[socket'[q].n] = socket'[q].fdLock
                      /\ socket'[q].pc \in {"listen", "ready"} => sockFile'[socket'[q].n] = q
    BY <1>1 DEF NameInv
  <2>1. CASE q = p
    BY <1>3, <2>1 DEF Owns
  <2>2. CASE q # p
    <3>1. Owns(q)' <=> Owns(q)
      BY <1>3, <2>2 DEF Owns
    <3>2. socket[q].n \in Numbers
      BY <1>1 DEF SocketTypeOK, Sockets
    <3> QED BY <1>1, <1>3, <1>4, <2>2, <3>1, <3>2 DEF NameInv
  <2> QED BY <2>1, <2>2
<1> QED BY <1>5, <1>6, <1>7 DEF SocketInv

(* Every step of the processes with their Wayland displays.                *)
LEMMA SocketNextInv == SocketInv /\ (SocketNext \/ UNCHANGED socketVars) => SocketInv'
<1> SUFFICES ASSUME SocketInv, SocketNext \/ UNCHANGED socketVars PROVE SocketInv'
  OBVIOUS
<1>1. CASE UNCHANGED socketVars
  BY <1>1 DEF socketVars, SocketInv, SocketTypeOK, LockInv, NameInv, Owns
<1>2. CASE SocketNext
  BY <1>2, AddSocketAutoStep, InitForDisplayNameStep, OpenLockStep, FlockStep, StatSocketStep,
     BindSocketStep, ListenDestroyStep, UnlinkSocketStep, UnlinkLockStep, CloseOrCrashStep
     DEF SocketNext
<1> QED BY <1>1, <1>2

(* No process has a display at first.                                      *)
LEMMA SocketInitInv == SocketInit => SocketInv
<1> SUFFICES ASSUME SocketInit PROVE SocketInv
  OBVIOUS
<1>1. NoSocket \in Sockets /\ NoSocket.pc = "off" /\ ~NoSocket.locked
  BY WaylandSocketAssumption DEF NoSocket, Sockets, Numbers
<1>2. SocketTypeOK
  <2>1. socket \in [Procs -> Sockets] /\ lockFile \in [Numbers -> Nat]
    BY <1>1 DEF SocketInit
  <2>2. sockFile \in [Numbers -> Procs \cup {"none", "stale"}]
    BY DEF SocketInit
  <2>3. raced \in BOOLEAN
    BY Zenon DEF SocketInit
  <2>4. starts \in 0 .. MaxStarts
    <3>1. starts = 0 BY DEF SocketInit
    <3> QED BY <3>1, WaylandSocketAssumption
  <2> QED BY <2>1, <2>2, <2>3, <2>4 DEF SocketTypeOK
<1>3. LockInv /\ NameInv
  <2>1. \A p \in Procs : socket[p].pc = "off" /\ ~socket[p].locked
    BY <1>1 DEF SocketInit
  <2> QED BY <2>1 DEF LockInv, NameInv, Owns
<1> QED BY <1>2, <1>3 DEF SocketInv

-----------------------------------------------------------------------------
(* A step of one process keeps the claims if its own are established and   *)
(* neither the lock file nor the socket of another's is touched.           *)
LEMMA ClaimStep ==
  ASSUME ClaimInv, NEW p \in XProcs,
         \A q \in XProcs : q # p => xs'[q] = xs[q],
         taken => taken',
         ~taken' => \A q \in XProcs : q # p /\ Claims(q) =>
            /\ xlock'[xs[q].display] = xlock[xs[q].display]
            /\ xs[q].pc \in {"listen", "ready"} => xsock'[xs[q].display] = xsock[xs[q].display],
         ~taken' /\ Claims(p)' =>
            /\ xs'[p].pc = "write" => xlock'[xs'[p].display] = "empty"
            /\ xs'[p].pc # "write" => xlock'[xs'[p].display] = xs'[p].self
            /\ xs'[p].pc \in {"listen", "ready"} => xsock'[xs'[p].display] = p
            /\ \A q \in XProcs : q # p /\ Claims(q) => xs[q].display # xs'[p].display
  PROVE  ClaimInv'
<1> SUFFICES ASSUME ~taken' PROVE ClaimInv'
  BY DEF ClaimInv
<1>1. \A q \in XProcs : q # p => (Claims(q)' <=> Claims(q))
  BY DEF Claims
<1>2. ASSUME NEW q \in XProcs
      PROVE  /\ xs'[q].pc = "write" => xlock'[xs'[q].display] = "empty"
             /\ Claims(q)' /\ xs'[q].pc # "write" => xlock'[xs'[q].display] = xs'[q].self
             /\ xs'[q].pc \in {"listen", "ready"} => xsock'[xs'[q].display] = q
  <2>1. CASE q = p
    BY <2>1 DEF Claims
  <2>2. CASE q # p
    BY <1>1, <2>2 DEF ClaimInv, Claims
  <2> QED BY <2>1, <2>2
<1>3. ASSUME NEW q \in XProcs, NEW r \in XProcs, Claims(q)', Claims(r)', q # r
      PROVE  xs'[q].display # xs'[r].display
  <2>1. CASE q = p
    BY <1>1, <1>3, <2>1
  <2>2. CASE r = p
    BY <1>1, <1>3, <2>2
  <2>3. CASE q # p /\ r # p
    BY <1>1, <1>3, <2>3 DEF ClaimInv
  <2> QED BY <2>1, <2>2, <2>3
<1> QED BY <1>2, <1>3 DEF ClaimInv

(* Pids stay different while a process keeps its own.                      *)
LEMMA PidStep ==
  ASSUME PidInv, NEW p \in XProcs,
         \A q \in XProcs : q # p => xs'[q] = xs[q],
         xs[p].pc # "off", xs'[p].self = xs[p].self
  PROVE  PidInv'
  BY DEF PidInv

(* So do the descriptors while the process neither opens an inheritable    *)
(* one nor tries to start Xwayland.                                        *)
LEMMA FdsStep ==
  ASSUME FdsInv, ServerInherits, NEW p \in XProcs,
         \A q \in XProcs : q # p => xs'[q] = xs[q] /\ fds'[q] = fds[q],
         xs'[p].tries = xs[p].tries, xs'[p].child = xs[p].child,
         fds'[p] \subseteq fds[p] \cup {Fd("unix", TRUE)},
         fds[p] \subseteq fds'[p] \cup {Fd("unix", TRUE)},
         UNCHANGED inherited
  PROVE  FdsInv' /\ ServerInherits'
<1>1. Fd("unix", TRUE).try = 0 /\ Fd("unix", TRUE).cloexec
  BY DEF Fd
<1>2. FdsInv'
  BY ZenonT(60), <1>1 DEF FdsInv
<1>3. ServerInherits'
  <2> SUFFICES ASSUME NEW q \in XProcs, xs'[q].child = "pid", xs'[q].tries = 1
               PROVE  /\ inherited[q] \subseteq Duplicates(1) \cup {At(1, "display1", FALSE)} \cup MakePipe
                      /\ {fd \in fds'[q] : ~fd.cloexec} \subseteq MakePipe
                      /\ {fd \in fds'[q] : fd.try = 1} = Starting(1)
    BY DEF ServerInherits
  <2>1. /\ inherited[q] \subseteq Duplicates(1) \cup {At(1, "display1", FALSE)} \cup MakePipe
        /\ {fd \in fds[q] : ~fd.cloexec} \subseteq MakePipe
        /\ {fd \in fds[q] : fd.try = 1} = Starting(1)
    BY DEF ServerInherits
  <2>2. CASE q # p
    BY <2>1, <2>2
  <2>3. CASE q = p
    <3>1. {fd \in fds'[q] : ~fd.cloexec} \subseteq {fd \in fds[q] : ~fd.cloexec}
      BY <1>1, <2>3
    <3>2. ASSUME NEW fd, fd.try = 1 PROVE fd \in fds'[q] <=> fd \in fds[q]
      <4>1. ASSUME fd = Fd("unix", TRUE) PROVE FALSE
        <5>1. Fd("unix", TRUE).try = 1
          BY <3>2, <4>1, Zenon
        <5> QED BY <5>1 DEF Fd
      <4> QED BY <2>3, <4>1
    <3> QED BY <2>1, <3>1, <3>2
  <2> QED BY <2>2, <2>3
<1> QED BY <1>2, <1>3

(* What going on with another step does to the process, and only to it.    *)
LEMMA XGoesEffect ==
  ASSUME XTypeOK, NEW p \in XProcs, NEW pc, XGoes(p, pc),
         pc \in {"create", "write", "read", "steal", "unlink", "bind", "listen", "unlock", "ready",
                 "shutdown", "failed", "aborts"}
  PROVE  /\ xs' \in [XProcs -> Servers]
         /\ xs'[p].pc = pc /\ xs'[p].self = xs[p].self /\ xs'[p].display = xs[p].display
         /\ xs'[p].tries = xs[p].tries /\ xs'[p].child = xs[p].child
         /\ \A q \in XProcs : q # p => xs'[q] = xs[q]
<1>1. xs[p] \in Servers
  BY DEF XTypeOK
<1>2. [xs[p] EXCEPT !.pc = pc] \in Servers
  BY <1>1 DEF Servers
<1> QED BY <1>1, <1>2 DEF XGoes, XTypeOK, Servers

(* What trying the next display does.                                      *)
LEMMA NextDisplayEffect ==
  ASSUME XTypeOK, NEW p \in XProcs, NextDisplay(p)
  PROVE  /\ xs' \in [XProcs -> Servers]
         /\ xs'[p].pc = "create" /\ xs'[p].self = xs[p].self
         /\ xs'[p].tries = xs[p].tries /\ xs'[p].child = xs[p].child
         /\ \A q \in XProcs : q # p => xs'[q] = xs[q]
<1>1. xs[p] \in Servers /\ MaxDisplay \in Nat
  BY XWaylandAssumption DEF XTypeOK
<1>2. xs[p].display + 1 \in 1 .. MaxDisplay
  BY <1>1 DEF NextDisplay, Servers
<1>3. [xs[p] EXCEPT !.pc = "create", !.display = @ + 1] \in Servers
  BY <1>1, <1>2 DEF Servers
<1> QED BY <1>1, <1>2, <1>3 DEF NextDisplay, XTypeOK, Servers

(* A step that changes neither claims nor descriptors: the process had no  *)
(* lock file and has none.                                                 *)
LEMMA UnclaimedStep ==
  ASSUME XInv, NEW p \in XProcs, xs' \in [XProcs -> Servers],
         \A q \in XProcs : q # p => xs'[q] = xs[q],
         xs[p].pc # "off", xs'[p].self = xs[p].self, ~Claims(p)',
         xs'[p].tries = xs[p].tries, xs'[p].child = xs[p].child,
         UNCHANGED <<xlock, xsock, fds, kernel, inherited, taken, xstarts>>
  PROVE  XInv'
<1>1. XTypeOK'
  BY DEF XInv, XTypeOK
<1>2. PidInv'
  BY PidStep DEF XInv
<1>3. ClaimInv'
  BY ClaimStep DEF XInv
<1>4. FdsInv' /\ ServerInherits'
  BY FdsStep DEF XInv
<1> QED BY <1>1, <1>2, <1>3, <1>4 DEF XInv

-----------------------------------------------------------------------------
(* All that the wrappers of a proxy leave open is close-on-exec, on any    *)
(* kernel.                                                                 *)
LEMMA ProxyFdsCloexec ==
  ASSUME XTypeOK
  PROVE  \A fd \in ProxyFds : fd.try = 0 /\ fd.cloexec
<1>1. kernel \in KernelBehaviours
  BY XWaylandAssumption DEF XTypeOK
<1>2. ASSUME NEW name PROVE \A fd \in OpenCloexec(kernel, name) : fd.try = 0 /\ fd.cloexec
  BY <1>1 DEF OpenCloexec, SetCloexecOrClose, Fd, KernelBehaviours
<1>3. \A fd \in CreateAnonymousFile(kernel) : fd.try = 0 /\ fd.cloexec
  BY DEF CreateAnonymousFile, Fd
<1>4. \A fd \in OsRecvmsgCloexec(kernel, {"received"}) : fd.try = 0 /\ fd.cloexec
  BY <1>2 DEF OsRecvmsgCloexec
<1> QED BY <1>2, <1>3, <1>4
     DEF ProxyFds, OsEpollCreateCloexec, OsSocketCloexec, OsDupfdCloexec, OsAcceptCloexec

(* setupXWayland(): a process with a pid of its own.                       *)
LEMMA SetupStep ==
  ASSUME XInv, NEW p \in XProcs, Setup(p)
  PROVE  XInv'
<1>1. PICK pid \in Pids : ~Alive(pid) /\ xs' = [xs EXCEPT ![p] = ServerCreated(pid)]
  BY DEF Setup
<1>2. /\ xs[p].pc = "off" /\ xstarts < MaxXStarts /\ xstarts' = xstarts + 1
      /\ fds' = [fds EXCEPT ![p] = ProxyFds]
      /\ UNCHANGED <<xlock, xsock, kernel, inherited, taken>>
      /\ XTypeOK
  BY DEF Setup, XInv
<1> DEFINE new == ServerCreated(pid)
<1>3. new \in Servers /\ new.pc = "create" /\ new.self = pid /\ new.tries = 0 /\ new.child = "0"
  <2>1. NoServer \in Servers /\ NoServer.tries = 0 /\ NoServer.child = "0"
    BY XWaylandAssumption DEF NoServer, Servers
  <2> QED BY <2>1 DEF ServerCreated, Servers
<1> HIDE DEF new
<1>4. /\ xs' \in [XProcs -> Servers] /\ xs'[p] = new
      /\ \A q \in XProcs : q # p => xs'[q] = xs[q]
  BY <1>1, <1>2, <1>3 DEF XTypeOK, new
<1>5. /\ fds'[p] = ProxyFds /\ DOMAIN fds' = XProcs
      /\ \A q \in XProcs : q # p => fds'[q] = fds[q]
  BY <1>2 DEF XTypeOK
<1>6. XTypeOK'
  <2>1. xstarts' \in 0 .. MaxXStarts
    BY <1>2, XWaylandAssumption DEF XTypeOK
  <2> QED BY <1>2, <1>4, <1>5, <2>1 DEF XTypeOK
<1>7. PidInv'
  <2>1. \A q \in XProcs : q # p /\ xs[q].pc # "off" => xs[q].self # pid
    BY <1>1 DEF Alive
  <2>2. xs'[p].self = pid
    BY <1>3, <1>4
  <2> QED BY <1>4, <2>1, <2>2 DEF XInv, PidInv
<1>8. ClaimInv'
  <2>1. ~Claims(p)'
    BY <1>3, <1>4 DEF Claims
  <2> QED BY <1>2, <1>4, <2>1, ClaimStep DEF XInv
<1>9. FdsInv'
  <2>1. \A fd \in fds'[p] : fd.try = 0 /\ fd.cloexec
    BY <1>2, <1>5, ProxyFdsCloexec
  <2> QED BY <1>3, <1>4, <1>5, <2>1 DEF XInv, FdsInv
<1>10. ServerInherits'
  <2>1. xs'[p].child # "pid" /\ \A q \in XProcs : q # p => xs'[q] = xs[q] /\ fds'[q] = fds[q]
    BY <1>3, <1>4, <1>5
  <2>2. inherited' = inherited
    BY <1>2
  <2>3. ServerInherits
    BY DEF XInv
  <2> SUFFICES ASSUME NEW q \in XProcs, xs'[q].child = "pid", xs'[q].tries = 1
               PROVE  /\ inherited'[q] \subseteq Duplicates(1) \cup {At(1, "display1", FALSE)} \cup MakePipe
                      /\ {fd \in fds'[q] : ~fd.cloexec} \subseteq MakePipe
                      /\ {fd \in fds'[q] : fd.try = 1} = Starting(1)
    BY DEF ServerInherits
  <2>4. q # p
    BY <2>1
  <2> QED BY <2>1, <2>2, <2>3, <2>4 DEF ServerInherits
<1> QED BY <1>6, <1>7, <1>8, <1>9, <1>10 DEF XInv

(* makePipe() before any attempt to start Xwayland.                        *)
LEMMA OpenPipeStep ==
  ASSUME XInv, NEW p \in XProcs, OpenPipe(p)
  PROVE  XInv'
<1>1. /\ xs[p].child = "0" /\ fds' = [fds EXCEPT ![p] = @ \cup MakePipe]
      /\ UNCHANGED <<xs, xlock, xsock, kernel, inherited, taken, xstarts>>
      /\ XTypeOK
  BY DEF OpenPipe, XInv
<1>2. /\ fds'[p] = fds[p] \cup MakePipe /\ DOMAIN fds' = XProcs
      /\ \A q \in XProcs : q # p => fds'[q] = fds[q]
  BY <1>1 DEF XTypeOK
<1>3. XTypeOK' /\ PidInv' /\ ClaimInv'
  <2>1. XTypeOK'
    BY <1>1, <1>2 DEF XTypeOK
  <2>2. PidInv'
    BY <1>1 DEF XInv, PidInv
  <2>3. ClaimInv'
    BY <1>1 DEF XInv, ClaimInv, Claims
  <2> QED BY <2>1, <2>2, <2>3
<1>4. FdsInv'
  <2>1. \A fd \in MakePipe : fd.try = 0
    BY DEF MakePipe, Fd
  <2> QED BY <1>1, <1>2, <2>1 DEF XInv, FdsInv
<1>5. ServerInherits'
  BY <1>1, <1>2 DEF XInv, ServerInherits
<1> QED BY <1>3, <1>4, <1>5 DEF XInv

-----------------------------------------------------------------------------
(* Writing one lock file leaves the others.                                *)
LEMMA LockedEffect ==
  ASSUME XTypeOK, NEW p \in XProcs, NEW content \in Pids \cup {"none", "empty"}, Locked(p, content)
  PROVE  /\ xlock' \in [1 .. MaxDisplay -> Pids \cup {"none", "empty"}]
         /\ xs[p].display \in 1 .. MaxDisplay
         /\ xlock'[xs[p].display] = content
         /\ \A d \in 1 .. MaxDisplay : d # xs[p].display => xlock'[d] = xlock[d]
  BY DEF XTypeOK, Servers, Locked

(* So does a socket.                                                       *)
LEMMA SocketEffect ==
  ASSUME XTypeOK, NEW p \in XProcs, NEW whose \in XProcs \cup {"none", "stale"}, Socket(p, whose)
  PROVE  /\ xsock' \in [1 .. MaxDisplay -> XProcs \cup {"none", "stale"}]
         /\ xs[p].display \in 1 .. MaxDisplay
         /\ xsock'[xs[p].display] = whose
         /\ \A d \in 1 .. MaxDisplay : d # xs[p].display => xsock'[d] = xsock[d]
  BY DEF XTypeOK, Servers, Socket

(* open() with O_EXCL: nobody claims a display without a lock file.        *)
LEMMA CreateLockfileStep ==
  ASSUME XInv, NEW p \in XProcs, CreateLockfile(p)
  PROVE  XInv'
<1>1. xs[p].pc = "create" /\ UNCHANGED <<xsock, fds, kernel, inherited, taken, xstarts>> /\ XTypeOK
  BY DEF CreateLockfile, XInv
<1>2. CASE UNCHANGED xlock /\ (XGoes(p, "read") \/ SetupFailed(p))
  <2>1. ASSUME NEW pc \in {"read", "failed", "aborts"}, XGoes(p, pc) PROVE XInv'
    <3>1. /\ xs' \in [XProcs -> Servers]
          /\ xs'[p].pc = pc /\ xs'[p].self = xs[p].self
          /\ xs'[p].tries = xs[p].tries /\ xs'[p].child = xs[p].child
          /\ \A q \in XProcs : q # p => xs'[q] = xs[q]
      BY <1>1, <2>1, XGoesEffect
    <3>2. ~Claims(p)'
      BY <3>1 DEF Claims
    <3> QED BY <1>1, <1>2, <3>1, <3>2, UnclaimedStep
  <2> QED BY <1>2, <2>1 DEF SetupFailed
<1>3. CASE xlock[xs[p].display] = "none" /\ Locked(p, "empty") /\ XGoes(p, "write")
  <2>1. /\ xs' \in [XProcs -> Servers]
        /\ xs'[p].pc = "write" /\ xs'[p].self = xs[p].self /\ xs'[p].display = xs[p].display
        /\ xs'[p].tries = xs[p].tries /\ xs'[p].child = xs[p].child
        /\ \A q \in XProcs : q # p => xs'[q] = xs[q]
    BY <1>1, <1>3, XGoesEffect
  <2>2. /\ xlock' \in [1 .. MaxDisplay -> Pids \cup {"none", "empty"}]
        /\ xlock'[xs[p].display] = "empty"
        /\ \A d \in 1 .. MaxDisplay : d # xs[p].display => xlock'[d] = xlock[d]
    BY <1>1, <1>3, LockedEffect
  <2>3. ASSUME ~taken, NEW q \in XProcs, q # p, Claims(q)
        PROVE  xs[q].display # xs[p].display /\ xs[q].display \in 1 .. MaxDisplay
    <3>1. xlock[xs[q].display] \in {"empty", xs[q].self}
      BY <2>3 DEF XInv, ClaimInv
    <3>2. xs[q].self \in Pids
      BY <2>3 DEF XInv, PidInv, Claims
    <3>3. xlock[xs[q].display] # "none"
      BY <3>1, <3>2, XWaylandAssumption
    <3> QED BY <1>1, <1>3, <3>3 DEF XTypeOK, Servers
  <2>4. XTypeOK'
    BY <1>1, <2>1, <2>2 DEF XTypeOK
  <2>5. PidInv'
    BY <1>1, <2>1, PidStep DEF XInv
  <2>6. ClaimInv'
    BY <1>1, <2>1, <2>2, <2>3, ClaimStep DEF XInv
  <2>7. FdsInv' /\ ServerInherits'
    BY <1>1, <2>1, FdsStep DEF XInv
  <2> QED BY <2>4, <2>5, <2>6, <2>7 DEF XInv
<1> QED BY <1>2, <1>3 DEF CreateLockfile

(* A process that has created a lock file writes or removes its own, and   *)
(* its own socket.                                                         *)
LEMMA ClaimedStep ==
  ASSUME XInv, NEW p \in XProcs, Claims(p), NEW pc, XGoes(p, pc),
         pc \in {"unlink", "bind", "listen", "unlock", "failed", "aborts", "shutdown"},
         xlock' \in [1 .. MaxDisplay -> Pids \cup {"none", "empty"}],
         \A d \in 1 .. MaxDisplay : d # xs[p].display => xlock'[d] = xlock[d],
         xsock' \in [1 .. MaxDisplay -> XProcs \cup {"none", "stale"}],
         \A d \in 1 .. MaxDisplay : d # xs[p].display => xsock'[d] = xsock[d],
         taken' \in BOOLEAN, taken => taken',
         ~taken' /\ Claims(p)' => xlock'[xs[p].display] = xs[p].self,
         pc = "listen" => xsock'[xs[p].display] = p,
         DOMAIN fds' = XProcs,
         \A q \in XProcs : q # p => fds'[q] = fds[q],
         fds'[p] \subseteq fds[p] \cup {Fd("unix", TRUE)},
         fds[p] \subseteq fds'[p] \cup {Fd("unix", TRUE)},
         UNCHANGED <<kernel, inherited, xstarts>>
  PROVE  XInv'
<1>1. XTypeOK /\ xs[p].display \in 1 .. MaxDisplay
  BY DEF XInv, XTypeOK, Servers
<1>2. /\ xs' \in [XProcs -> Servers]
      /\ xs'[p].pc = pc /\ xs'[p].self = xs[p].self /\ xs'[p].display = xs[p].display
      /\ xs'[p].tries = xs[p].tries /\ xs'[p].child = xs[p].child
      /\ \A q \in XProcs : q # p => xs'[q] = xs[q]
  BY <1>1, XGoesEffect
<1>3. XTypeOK'
  BY <1>1, <1>2 DEF XTypeOK
<1>4. PidInv'
  BY <1>2, PidStep DEF XInv, Claims
<1>5. ClaimInv'
  <2>1. ASSUME ~taken, NEW q \in XProcs, q # p, Claims(q)
        PROVE  xs[q].display # xs[p].display /\ xs[q].display \in 1 .. MaxDisplay
    BY <1>1, <2>1 DEF XInv, ClaimInv, XTypeOK, Servers
  <2>2. pc # "write" /\ pc # "ready"
    OBVIOUS
  <2> QED BY <1>2, <2>1, <2>2, ClaimStep DEF XInv
<1>6. FdsInv' /\ ServerInherits'
  BY ZenonT(60), <1>2, FdsStep DEF XInv
<1> QED BY <1>3, <1>4, <1>5, <1>6 DEF XInv

(* dprintf() of the pid, or the file is removed.                           *)
LEMMA WriteLockfileStep ==
  ASSUME XInv, NEW p \in XProcs, WriteLockfile(p)
  PROVE  XInv'
<1>1. /\ xs[p].pc = "write" /\ UNCHANGED <<xsock, fds, kernel, inherited, taken, xstarts>>
      /\ XTypeOK /\ Claims(p) /\ taken' \in BOOLEAN /\ DOMAIN fds' = XProcs /\ xs[p].self \in Pids
  BY DEF WriteLockfile, XInv, XTypeOK, Claims, PidInv
<1>2. CASE Locked(p, xs[p].self) /\ XGoes(p, "unlink")
  <2>1. /\ xlock'[xs[p].display] = xs[p].self
        /\ xlock' \in [1 .. MaxDisplay -> Pids \cup {"none", "empty"}]
        /\ \A d \in 1 .. MaxDisplay : d # xs[p].display => xlock'[d] = xlock[d]
    BY <1>1, <1>2, LockedEffect
  <2>2. xsock' \in [1 .. MaxDisplay -> XProcs \cup {"none", "stale"}]
    BY <1>1 DEF XTypeOK
  <2> QED BY <1>1, <1>2, <2>1, <2>2, ClaimedStep
<1>3. ASSUME Locked(p, "none"), NEW pc \in {"failed", "aborts"}, XGoes(p, pc) PROVE XInv'
  <2>1. ~Claims(p)'
    BY <1>1, <1>3, XGoesEffect DEF Claims
  <2>2. /\ xlock' \in [1 .. MaxDisplay -> Pids \cup {"none", "empty"}]
        /\ \A d \in 1 .. MaxDisplay : d # xs[p].display => xlock'[d] = xlock[d]
    BY <1>1, <1>3, LockedEffect
  <2>3. xsock' \in [1 .. MaxDisplay -> XProcs \cup {"none", "stale"}]
    BY <1>1 DEF XTypeOK
  <2> QED BY <1>1, <1>3, <2>1, <2>2, <2>3, ClaimedStep
<1> QED BY <1>2, <1>3 DEF WriteLockfile, SetupFailed

(* What is at the socket's path is removed, then the socket is made, and   *)
(* removed again when listen() fails.                                      *)
LEMMA XSocketStep ==
  ASSUME XInv, NEW p \in XProcs, UnlinkXSocket(p) \/ BindXSocket(p)
  PROVE  XInv'
<1>1. /\ xs[p].pc \in {"unlink", "bind"} /\ UNCHANGED <<xlock, kernel, inherited, taken, xstarts>>
      /\ XTypeOK /\ Claims(p) /\ taken' \in BOOLEAN /\ xs[p].self \in Pids
      /\ (~taken => xlock[xs[p].display] = xs[p].self)
      /\ xlock' \in [1 .. MaxDisplay -> Pids \cup {"none", "empty"}]
  BY DEF UnlinkXSocket, BindXSocket, XInv, XTypeOK, Claims, PidInv, ClaimInv
<1>2. CASE Socket(p, "none") /\ XGoes(p, "bind") /\ UNCHANGED fds
  <2>1. DOMAIN fds' = XProcs
    BY <1>1, <1>2 DEF XTypeOK
  <2>2. /\ xsock' \in [1 .. MaxDisplay -> XProcs \cup {"none", "stale"}]
        /\ \A d \in 1 .. MaxDisplay : d # xs[p].display => xsock'[d] = xsock[d]
    BY <1>1, <1>2, SocketEffect
  <2> QED BY <1>1, <1>2, <2>1, <2>2, ClaimedStep
<1>3. CASE XGoes(p, "unlock") /\ UNCHANGED <<xsock, fds>>
  <2>1. DOMAIN fds' = XProcs /\ xsock' \in [1 .. MaxDisplay -> XProcs \cup {"none", "stale"}]
    BY <1>1, <1>3 DEF XTypeOK
  <2> QED BY <1>1, <1>3, <2>1, ClaimedStep
<1>4. CASE /\ Socket(p, p) /\ XGoes(p, "listen")
           /\ fds' = [fds EXCEPT ![p] = @ \cup {Fd("unix", TRUE)}]
  <2>1. /\ fds'[p] = fds[p] \cup {Fd("unix", TRUE)} /\ DOMAIN fds' = XProcs
        /\ \A q \in XProcs : q # p => fds'[q] = fds[q]
    BY <1>1, <1>4 DEF XTypeOK
  <2>2. /\ xsock'[xs[p].display] = p
        /\ xsock' \in [1 .. MaxDisplay -> XProcs \cup {"none", "stale"}]
        /\ \A d \in 1 .. MaxDisplay : d # xs[p].display => xsock'[d] = xsock[d]
    BY <1>1, <1>4, SocketEffect
  <2> QED BY <1>1, <1>4, <2>1, <2>2, ClaimedStep
<1> QED BY <1>2, <1>3, <1>4 DEF UnlinkXSocket, BindXSocket

(* listen() and the event source.                                          *)
LEMMA ListenXSocketStep ==
  ASSUME XInv, NEW p \in XProcs, ListenXSocket(p)
  PROVE  XInv'
<1>1. /\ xs[p].pc = "listen" /\ UNCHANGED <<xlock, kernel, inherited, taken, xstarts>>
      /\ XTypeOK /\ Claims(p) /\ taken' \in BOOLEAN /\ xs[p].self \in Pids
      /\ (~taken => xlock[xs[p].display] = xs[p].self /\ xsock[xs[p].display] = p)
      /\ xlock' \in [1 .. MaxDisplay -> Pids \cup {"none", "empty"}]
  BY DEF ListenXSocket, XInv, XTypeOK, Claims, PidInv, ClaimInv
<1>2. CASE /\ Socket(p, "none") /\ XGoes(p, "unlock")
           /\ fds' = [fds EXCEPT ![p] = @ \ {Fd("unix", TRUE)}]
  <2>1. /\ fds'[p] = fds[p] \ {Fd("unix", TRUE)} /\ DOMAIN fds' = XProcs
        /\ \A q \in XProcs : q # p => fds'[q] = fds[q]
    BY <1>1, <1>2 DEF XTypeOK
  <2>2. /\ xsock' \in [1 .. MaxDisplay -> XProcs \cup {"none", "stale"}]
        /\ \A d \in 1 .. MaxDisplay : d # xs[p].display => xsock'[d] = xsock[d]
    BY <1>1, <1>2, SocketEffect
  <2> QED BY ZenonT(60), <1>1, <1>2, <2>1, <2>2, ClaimedStep
<1>3. CASE xs' = [xs EXCEPT ![p].pc = "ready", ![p].source = TRUE] /\ UNCHANGED <<xsock, fds>>
  <2>1. /\ xs' \in [XProcs -> Servers]
        /\ xs'[p].pc = "ready" /\ xs'[p].self = xs[p].self /\ xs'[p].display = xs[p].display
        /\ xs'[p].tries = xs[p].tries /\ xs'[p].child = xs[p].child
        /\ \A q \in XProcs : q # p => xs'[q] = xs[q]
    <3>1. xs[p] \in Servers
      BY <1>1 DEF XTypeOK
    <3>2. [xs[p] EXCEPT !.pc = "ready", !.source = TRUE] \in Servers
      BY <3>1 DEF Servers
    <3> QED BY <1>1, <1>3, <3>1, <3>2 DEF XTypeOK, Servers
  <2>2. XTypeOK'
    BY <1>1, <1>3, <2>1 DEF XTypeOK
  <2>3. PidInv'
    BY <1>1, <2>1, PidStep DEF XInv
  <2>4. ClaimInv'
    <3>1. ~taken => \A q \in XProcs : q # p /\ Claims(q) => xs[q].display # xs[p].display
      BY <1>1 DEF XInv, ClaimInv
    <3> QED BY <1>1, <1>3, <2>1, <3>1, ClaimStep DEF XInv
  <2>5. FdsInv' /\ ServerInherits'
    BY <1>1, <1>3, <2>1, FdsStep DEF XInv
  <2> QED BY <2>2, <2>3, <2>4, <2>5 DEF XInv
<1> QED BY <1>2, <1>3 DEF ListenXSocket

(* Removing the lock file, in setup or in westfield_xserver_shutdown().    *)
LEMMA UnlinkLockfileStep ==
  ASSUME XInv, NEW p \in XProcs, UnlinkLockfile(p) \/ Teardown(p)
  PROVE  XInv'
<1>1. /\ xs[p].pc \in {"unlock", "ready"} /\ UNCHANGED <<xsock, fds, kernel, inherited, xstarts>>
      /\ Locked(p, "none")
      /\ taken' = (taken \/ xlock[xs[p].display] \notin {"none", xs[p].self})
      /\ XTypeOK /\ Claims(p)
  BY DEF UnlinkLockfile, Teardown, XInv, Claims
<1>2. /\ taken' \in BOOLEAN /\ (taken => taken') /\ DOMAIN fds' = XProcs
      /\ xsock' \in [1 .. MaxDisplay -> XProcs \cup {"none", "stale"}]
      /\ xlock' \in [1 .. MaxDisplay -> Pids \cup {"none", "empty"}]
      /\ \A d \in 1 .. MaxDisplay : d # xs[p].display => xlock'[d] = xlock[d]
  BY <1>1, LockedEffect DEF XTypeOK
<1>3. ASSUME NEW pc \in {"failed", "aborts", "shutdown"}, XGoes(p, pc) PROVE XInv'
  <2>1. ~Claims(p)'
    BY <1>1, <1>3, XGoesEffect DEF Claims
  <2> QED BY <1>1, <1>2, <1>3, <2>1, ClaimedStep
<1> QED BY <1>3 DEF UnlinkLockfile, Teardown, SetupFailed

-----------------------------------------------------------------------------
(* A display that is taken is left alone.                                  *)
LEMMA ReadOrCheckStep ==
  ASSUME XInv, NEW p \in XProcs, ReadLockfile(p) \/ CheckOther(p)
  PROVE  XInv'
<1>1. /\ xs[p].pc \in {"read", "kill"} /\ UNCHANGED <<xlock, xsock, fds, kernel, inherited, taken, xstarts>>
      /\ XTypeOK
  BY DEF ReadLockfile, CheckOther, XInv
<1>2. CASE NextDisplay(p)
  <2>1. /\ xs' \in [XProcs -> Servers]
        /\ xs'[p].pc = "create" /\ xs'[p].self = xs[p].self
        /\ xs'[p].tries = xs[p].tries /\ xs'[p].child = xs[p].child
        /\ \A q \in XProcs : q # p => xs'[q] = xs[q]
    BY <1>1, <1>2, NextDisplayEffect
  <2>2. ~Claims(p)'
    BY <2>1 DEF Claims
  <2> QED BY <1>1, <2>1, <2>2, UnclaimedStep
<1>3. CASE XGoes(p, "steal")
  <2>1. /\ xs' \in [XProcs -> Servers]
        /\ xs'[p].pc = "steal" /\ xs'[p].self = xs[p].self
        /\ xs'[p].tries = xs[p].tries /\ xs'[p].child = xs[p].child
        /\ \A q \in XProcs : q # p => xs'[q] = xs[q]
    BY <1>1, <1>3, XGoesEffect
  <2>2. ~Claims(p)'
    BY <2>1 DEF Claims
  <2> QED BY <1>1, <2>1, <2>2, UnclaimedStep
<1>4. CASE /\ xlock[xs[p].display] \notin {"none", "empty"}
           /\ xs' = [xs EXCEPT ![p].other = xlock[xs[p].display], ![p].pc = "kill"]
  <2>1. xlock[xs[p].display] \in Pids
    BY SMTT(40), <1>1, <1>4 DEF XTypeOK, Servers
  <2>2. /\ xs' \in [XProcs -> Servers]
        /\ xs'[p].pc = "kill" /\ xs'[p].self = xs[p].self
        /\ xs'[p].tries = xs[p].tries /\ xs'[p].child = xs[p].child
        /\ \A q \in XProcs : q # p => xs'[q] = xs[q]
    <3>1. xs[p] \in Servers
      BY <1>1 DEF XTypeOK
    <3>2. [xs[p] EXCEPT !.other = xlock[xs[p].display], !.pc = "kill"] \in Servers
      BY <2>1, <3>1 DEF Servers
    <3> QED BY <1>1, <1>4, <3>1, <3>2 DEF XTypeOK, Servers
  <2>3. ~Claims(p)'
    BY <2>2 DEF Claims
  <2> QED BY <1>1, <2>2, <2>3, UnclaimedStep
<1> QED BY <1>2, <1>3, <1>4 DEF ReadLockfile, CheckOther

(* A lock file that is removed as stale was nobody's, or it is taken from  *)
(* its owner.                                                              *)
LEMMA UnlinkStaleStep ==
  ASSUME XInv, NEW p \in XProcs, UnlinkStale(p)
  PROVE  XInv'
<1>1. /\ xs[p].pc = "steal" /\ UNCHANGED <<xsock, fds, kernel, inherited, xstarts>>
      /\ Locked(p, "none") /\ (NextDisplay(p) \/ XGoes(p, "create"))
      /\ taken' = (taken \/ xlock[xs[p].display] \notin {"none", xs[p].other} \/ Alive(xs[p].other))
      /\ XTypeOK
  BY DEF UnlinkStale, XInv
<1>2. /\ xs' \in [XProcs -> Servers]
      /\ xs'[p].pc = "create" /\ xs'[p].self = xs[p].self
      /\ xs'[p].tries = xs[p].tries /\ xs'[p].child = xs[p].child
      /\ \A q \in XProcs : q # p => xs'[q] = xs[q]
  BY <1>1, XGoesEffect, NextDisplayEffect
<1>3. /\ xlock' \in [1 .. MaxDisplay -> Pids \cup {"none", "empty"}]
      /\ \A d \in 1 .. MaxDisplay : d # xs[p].display => xlock'[d] = xlock[d]
  BY <1>1, LockedEffect
<1>4. taken' \in BOOLEAN /\ (taken => taken')
  BY <1>1
<1>5. XTypeOK'
  BY <1>1, <1>2, <1>3, <1>4 DEF XTypeOK
<1>6. PidInv'
  BY <1>1, <1>2, PidStep DEF XInv
<1>7. ClaimInv'
  <2>1. ~Claims(p)'
    BY <1>2 DEF Claims
  <2>2. ASSUME ~taken', NEW q \in XProcs, q # p, Claims(q)
        PROVE  xs[q].display # xs[p].display /\ xs[q].display \in 1 .. MaxDisplay
    <3>1. ~taken /\ xlock[xs[p].display] \in {"none", xs[p].other} /\ ~Alive(xs[p].other)
      BY <1>1, <2>2
    <3>2. xlock[xs[q].display] \in {"empty", xs[q].self} /\ xs[q].self \in Pids /\ xs[q].pc # "off"
      BY <2>2, <3>1 DEF XInv, ClaimInv, PidInv, Claims
    <3>3. xs[q].self # xs[p].other
      BY <3>1, <3>2 DEF Alive
    <3>4. "empty" # xs[p].other
      BY <1>1, XWaylandAssumption DEF XTypeOK, Servers
    <3>5. xlock[xs[q].display] # xlock[xs[p].display]
      BY <3>1, <3>2, <3>3, <3>4, XWaylandAssumption
    <3> QED BY <1>1, <3>5 DEF XTypeOK, Servers
  <2> QED BY <1>1, <1>2, <1>3, <1>4, <2>1, <2>2, ClaimStep DEF XInv
<1>8. FdsInv' /\ ServerInherits'
  BY <1>1, <1>2, FdsStep DEF XInv
<1> QED BY <1>5, <1>6, <1>7, <1>8 DEF XInv

(* westfield_xserver_shutdown() unlinks the socket after the lock file: it *)
(* may be the socket of the next owner by then.                            *)
LEMMA ShutdownStep ==
  ASSUME XInv, NEW p \in XProcs, Shutdown(p)
  PROVE  XInv'
<1>1. /\ xs[p].pc = "shutdown" /\ UNCHANGED <<xlock, kernel, inherited, xstarts>>
      /\ Socket(p, "none")
      /\ taken' = (taken \/ xsock[xs[p].display] \notin {"none", "stale", p})
      /\ xs' = [xs EXCEPT ![p].pc = "failed",
                          ![p].source = IF xs[p].child = "0" THEN FALSE ELSE @]
      /\ fds' = [fds EXCEPT ![p] = @ \ {Fd("unix", TRUE)}]
      /\ XTypeOK
  BY DEF Shutdown, XInv
<1>2. /\ xs' \in [XProcs -> Servers]
      /\ xs'[p].pc = "failed" /\ xs'[p].self = xs[p].self
      /\ xs'[p].tries = xs[p].tries /\ xs'[p].child = xs[p].child
      /\ \A q \in XProcs : q # p => xs'[q] = xs[q]
  <2> DEFINE source == IF xs[p].child = "0" THEN FALSE ELSE xs[p].source
  <2>1. xs[p] \in Servers /\ source \in BOOLEAN
    BY <1>1 DEF XTypeOK, Servers
  <2> DEFINE new == [xs[p] EXCEPT !.pc = "failed", !.source = source]
  <2>2. xs' = [xs EXCEPT ![p] = new]
    BY <1>1 DEF XTypeOK, Servers
  <2> HIDE DEF source
  <2>3. /\ new \in Servers /\ new.pc = "failed" /\ new.self = xs[p].self
        /\ new.tries = xs[p].tries /\ new.child = xs[p].child
    BY <2>1 DEF Servers
  <2> HIDE DEF new
  <2> QED BY ZenonT(60), <1>1, <2>2, <2>3 DEF XTypeOK
<1>3. /\ xsock' \in [1 .. MaxDisplay -> XProcs \cup {"none", "stale"}]
      /\ \A d \in 1 .. MaxDisplay : d # xs[p].display => xsock'[d] = xsock[d]
  BY <1>1, SocketEffect
<1>4. /\ fds'[p] = fds[p] \ {Fd("unix", TRUE)} /\ DOMAIN fds' = XProcs
      /\ \A q \in XProcs : q # p => fds'[q] = fds[q]
  BY <1>1 DEF XTypeOK
<1>5. taken' \in BOOLEAN /\ (taken => taken')
  BY <1>1
<1>6. XTypeOK'
  BY <1>1, <1>2, <1>3, <1>4, <1>5 DEF XTypeOK
<1>7. PidInv'
  BY <1>1, <1>2, PidStep DEF XInv
<1>8. ClaimInv'
  <2>1. ~Claims(p)'
    BY <1>2 DEF Claims
  <2>2. ASSUME ~taken', NEW q \in XProcs, q # p, xs[q].pc \in {"listen", "ready"}
        PROVE  xs[q].display # xs[p].display /\ xs[q].display \in 1 .. MaxDisplay
    <3>1. ~taken /\ xsock[xs[p].display] \in {"none", "stale", p}
      BY <1>1, <2>2
    <3>2. xsock[xs[q].display] = q
      BY <2>2, <3>1 DEF XInv, ClaimInv
    <3>3. q \notin {"none", "stale", p}
      BY <2>2, XWaylandAssumption
    <3> QED BY <1>1, <3>1, <3>2, <3>3 DEF XTypeOK, Servers
  <2> QED BY <1>1, <1>2, <1>3, <1>5, <2>1, <2>2, ClaimStep DEF XInv
<1>9. FdsInv' /\ ServerInherits'
  BY <1>1, <1>2, <1>4, FdsStep DEF XInv
<1> QED BY <1>6, <1>7, <1>8, <1>9 DEF XInv

-----------------------------------------------------------------------------
(* A first successful attempt leaves open exactly what the callback gets,  *)
(* and Xwayland inherits its own four and the pipes.                       *)
LEMMA FirstAttempt ==
  ASSUME NEW open,
         \A fd \in open : fd.try = 0 /\ (~fd.cloexec => fd \in MakePipe)
  PROVE  /\ Given(open, 1) \subseteq Duplicates(1) \cup {At(1, "display1", FALSE)} \cup MakePipe
         /\ {fd \in open \cup Starting(1) : ~fd.cloexec} \subseteq MakePipe
         /\ {fd \in open \cup Starting(1) : fd.try = 1} = Starting(1)
<1>1. \A name, cloexec : At(1, name, cloexec) = [name |-> name, try |-> 1, cloexec |-> cloexec]
  BY DEF At, Fd
<1>2. ASSUME NEW name
      PROVE  At(1, name, TRUE).try = 1 /\ At(1, name, TRUE).cloexec
  <2> DEFINE fd == [name |-> name, try |-> 1, cloexec |-> TRUE]
  <2>1. At(1, name, TRUE) = fd
    BY <1>1
  <2>2. fd.try = 1
    OBVIOUS
  <2>3. fd.cloexec = TRUE
    OBVIOUS
  <2> HIDE DEF fd
  <2> QED BY <2>1, <2>2, <2>3, Zenon
<1>3. \A fd \in Starting(1) : fd.try = 1 /\ fd.cloexec
  BY <1>2 DEF Starting
<1>4. ASSUME NEW fd \in Given(open, 1)
      PROVE  fd \in Duplicates(1) \cup {At(1, "display1", FALSE)} \cup MakePipe
  <2>1. fd \in open \cup Display(1, TRUE) \cup Duplicates(1) /\ ~fd.cloexec
    BY DEF Given
  <2>2. CASE fd \in open
    BY <2>1, <2>2
  <2>3. CASE fd \in Display(1, TRUE)
    <3>1. fd # At(1, "display0", TRUE)
      BY <1>2, <2>1
    <3> QED BY <2>3, <3>1 DEF Display
  <2> QED BY <2>1, <2>2, <2>3
<1>5. {fd \in open \cup Starting(1) : ~fd.cloexec} \subseteq MakePipe
  BY <1>3
<1>6. {fd \in open \cup Starting(1) : fd.try = 1} = Starting(1)
  BY <1>3
<1> QED BY <1>4, <1>5, <1>6

(* What is left of a first attempt once its own ends are closed.           *)
LEMMA ClosedAfterFork ==
  LeftOpen("fork", 1) \ {At(1, "sv1", TRUE), At(1, "wm1", TRUE), At(1, "display1", FALSE)}
    = Starting(1)
<1> DEFINE closed == {At(1, "sv1", TRUE), At(1, "wm1", TRUE), At(1, "display1", FALSE)}
<1>1. LeftOpen("fork", 1) = Starting(1) \cup closed
  BY DEF LeftOpen, Pair, Display, Starting
<1>2. \A name, cloexec : At(1, name, cloexec).name = name
  BY DEF At, Fd
<1>3. ASSUME NEW fd \in Starting(1), fd \in closed
      PROVE  FALSE
  <2>1. fd.name \in {"sv0", "wm0", "display0"}
    BY <1>2, <1>3 DEF Starting
  <2>2. fd.name \in {"sv1", "wm1", "display1"}
    BY <1>2, <1>3
  <2> QED BY <2>1, <2>2
<1> QED BY <1>1, <1>3

(* westfield_xserver_handle_event().                                       *)
LEMMA HandleEventStep ==
  ASSUME XInv, NEW p \in XProcs, HandleEvent(p)
  PROVE  XInv'
<1> DEFINE n == xs[p].tries + 1
           closed == {At(n, "sv1", TRUE), At(n, "wm1", TRUE), At(n, "display1", FALSE)}
           opened == {LeftOpen(step, n) : step \in {"socketpair", "wm", "pipe", "fcntl", "fork"}}
                     \cup {LeftOpen("fork", n) \ closed}
<1>1. /\ xs[p].pc = "ready" /\ n <= MaxSpawns /\ UNCHANGED <<xlock, xsock, kernel, taken, xstarts>>
      /\ XTypeOK /\ xs[p] \in Servers
  BY DEF HandleEvent, XInv, XTypeOK
<1>2. n \in 1 .. MaxSpawns /\ (n = 1 <=> xs[p].tries = 0)
  BY SMTT(40), <1>1, XWaylandAssumption DEF Servers
<1>3. PICK child \in {"1", "-1", "pid"}, source \in BOOLEAN, more \in opened :
        /\ xs' = [xs EXCEPT ![p].child = child, ![p].source = source, ![p].tries = n]
        /\ fds' = [fds EXCEPT ![p] = @ \cup more]
        /\ child # "pid" => UNCHANGED inherited
        /\ child = "pid" => /\ more = LeftOpen("fork", n) \ closed
                            /\ inherited' = [inherited EXCEPT ![p] = Given(fds[p], n)]
  <2>1. xs[p].source \in BOOLEAN
    BY <1>1 DEF Servers
  <2>2. CASE \E step \in {"socketpair", "wm", "pipe", "fcntl"} :
                /\ xs' = [xs EXCEPT ![p].child = "1", ![p].source = FALSE, ![p].tries = n]
                /\ fds' = [fds EXCEPT ![p] = @ \cup LeftOpen(step, n)]
                /\ UNCHANGED inherited
    BY ZenonT(60), <2>2
  <2>3. CASE /\ xs' = [xs EXCEPT ![p].child = "-1", ![p].tries = n]
             /\ fds' = [fds EXCEPT ![p] = @ \cup LeftOpen("fork", n)]
             /\ UNCHANGED inherited
    <3>1. xs' = [xs EXCEPT ![p].child = "-1", ![p].source = xs[p].source, ![p].tries = n]
      BY ZenonT(60), <1>1, <2>3 DEF XTypeOK, Servers
    <3> QED BY <2>1, <2>3, <3>1
  <2>4. CASE /\ xs' = [xs EXCEPT ![p].child = "pid", ![p].source = FALSE, ![p].tries = n]
             /\ fds' = [fds EXCEPT ![p] = @ \cup (LeftOpen("fork", n) \ closed)]
             /\ inherited' = [inherited EXCEPT ![p] = Given(fds[p], n)]
    BY <2>4
  <2> QED BY ZenonT(60), <2>2, <2>3, <2>4 DEF HandleEvent
<1> HIDE DEF n, closed, opened
<1>4. /\ xs' \in [XProcs -> Servers]
      /\ xs'[p].pc = "ready" /\ xs'[p].self = xs[p].self /\ xs'[p].display = xs[p].display
      /\ xs'[p].tries = n /\ xs'[p].child = child
      /\ \A q \in XProcs : q # p => xs'[q] = xs[q]
  <2> DEFINE new == [xs[p] EXCEPT !.child = child, !.source = source, !.tries = n]
  <2>1. xs' = [xs EXCEPT ![p] = new]
    BY <1>1, <1>3 DEF XTypeOK
  <2>2. /\ new \in Servers /\ new.pc = "ready" /\ new.self = xs[p].self
        /\ new.display = xs[p].display /\ new.tries = n /\ new.child = child
    <3>1. n \in 0 .. MaxSpawns
      BY <1>2
    <3> QED BY <1>1, <3>1 DEF Servers
  <2> HIDE DEF new
  <2> QED BY <1>1, <2>1, <2>2 DEF XTypeOK
<1>5. /\ fds'[p] = fds[p] \cup more /\ DOMAIN fds' = XProcs
      /\ \A q \in XProcs : q # p => fds'[q] = fds[q]
  BY <1>1, <1>3 DEF XTypeOK
<1>6. /\ DOMAIN inherited' = XProcs
      /\ \A q \in XProcs : q # p => inherited'[q] = inherited[q]
      /\ child = "pid" => inherited'[p] = Given(fds[p], n)
  BY <1>1, <1>3 DEF XTypeOK
<1>7. XTypeOK'
  BY <1>1, <1>4, <1>5, <1>6 DEF XTypeOK
<1>8. PidInv'
  BY <1>1, <1>4, PidStep DEF XInv
<1>9. ClaimInv'
  <2>1. Claims(p)
    BY <1>1 DEF Claims
  <2>2. ~taken => /\ xlock[xs[p].display] = xs[p].self /\ xsock[xs[p].display] = p
                  /\ \A q \in XProcs : q # p /\ Claims(q) => xs[q].display # xs[p].display
    BY <1>1, <2>1 DEF XInv, ClaimInv
  <2> QED BY <1>1, <1>4, <2>2, ClaimStep DEF XInv
<1>10. FdsInv'
  BY <1>2, <1>4, <1>5 DEF XInv, FdsInv
<1>11. ServerInherits'
  <2> SUFFICES ASSUME NEW q \in XProcs, xs'[q].child = "pid", xs'[q].tries = 1
               PROVE  /\ inherited'[q] \subseteq Duplicates(1) \cup {At(1, "display1", FALSE)} \cup MakePipe
                      /\ {fd \in fds'[q] : ~fd.cloexec} \subseteq MakePipe
                      /\ {fd \in fds'[q] : fd.try = 1} = Starting(1)
    BY DEF ServerInherits
  <2>1. CASE q # p
    BY <1>4, <1>5, <1>6, <2>1 DEF XInv, ServerInherits
  <2>2. CASE q = p
    <3>1. n = 1 /\ child = "pid" /\ xs[p].tries = 0
      BY <1>2, <1>4, <2>2
    <3>2. \A fd \in fds[p] : fd.try = 0 /\ (~fd.cloexec => fd \in MakePipe)
      BY <3>1 DEF XInv, FdsInv
    <3>3. /\ fds'[p] = fds[p] \cup (LeftOpen("fork", 1)
                        \ {At(1, "sv1", TRUE), At(1, "wm1", TRUE), At(1, "display1", FALSE)})
          /\ inherited'[p] = Given(fds[p], 1)
      BY <1>3, <1>5, <1>6, <3>1 DEF closed
    <3>4. fds'[p] = fds[p] \cup Starting(1)
      BY <3>3, ClosedAfterFork
    <3>5. /\ Given(fds[p], 1) \subseteq Duplicates(1) \cup {At(1, "display1", FALSE)} \cup MakePipe
          /\ {fd \in fds[p] \cup Starting(1) : ~fd.cloexec} \subseteq MakePipe
          /\ {fd \in fds[p] \cup Starting(1) : fd.try = 1} = Starting(1)
      BY <3>2, FirstAttempt
    <3> QED BY <2>2, <3>3, <3>4, <3>5
  <2> QED BY <2>1, <2>2
<1> QED BY <1>7, <1>8, <1>9, <1>10, <1>11 DEF XInv

(* A process ends: its lock files stay, its socket is nobody's.            *)
LEMMA XCrashStep ==
  ASSUME XInv, NEW p \in XProcs, XCrash(p)
  PROVE  XInv'
<1>1. /\ xs' = [xs EXCEPT ![p] = NoServer]
      /\ xsock' = [d \in DOMAIN xsock |-> IF xsock[d] = p THEN "stale" ELSE xsock[d]]
      /\ fds' = [fds EXCEPT ![p] = {}]
      /\ inherited' = [inherited EXCEPT ![p] = {}]
      /\ UNCHANGED <<xlock, kernel, taken, xstarts>>
      /\ XTypeOK
  BY DEF XCrash, XInv
<1>2. NoServer \in Servers /\ NoServer.pc = "off" /\ NoServer.tries = 0 /\ NoServer.child = "0"
  BY XWaylandAssumption DEF NoServer, Servers
<1>3. /\ xs' \in [XProcs -> Servers] /\ xs'[p].pc = "off" /\ xs'[p].tries = 0 /\ xs'[p].child = "0"
      /\ \A q \in XProcs : q # p => xs'[q] = xs[q]
  BY <1>1, <1>2 DEF XTypeOK
<1>4. /\ fds'[p] = {} /\ DOMAIN fds' = XProcs /\ DOMAIN inherited' = XProcs
      /\ \A q \in XProcs : q # p => fds'[q] = fds[q] /\ inherited'[q] = inherited[q]
  BY <1>1 DEF XTypeOK
<1>5. /\ xsock' \in [1 .. MaxDisplay -> XProcs \cup {"none", "stale"}]
      /\ \A d \in 1 .. MaxDisplay : xsock[d] # p => xsock'[d] = xsock[d]
  BY <1>1 DEF XTypeOK
<1>6. XTypeOK'
  BY <1>1, <1>3, <1>4, <1>5 DEF XTypeOK
<1>7. PidInv'
  BY <1>3 DEF XInv, PidInv
<1>8. ClaimInv'
  <2>1. ~Claims(p)'
    BY <1>3 DEF Claims
  <2>2. ASSUME ~taken, NEW q \in XProcs, q # p, xs[q].pc \in {"listen", "ready"}
        PROVE  xsock'[xs[q].display] = xsock[xs[q].display]
    <3>1. xsock[xs[q].display] = q /\ xs[q].display \in 1 .. MaxDisplay
      BY <1>1, <2>2 DEF XInv, ClaimInv, XTypeOK, Servers
    <3> QED BY <1>5, <2>2, <3>1
  <2> QED BY <1>1, <1>3, <2>1, <2>2, ClaimStep DEF XInv
<1>9. FdsInv'
  BY <1>3, <1>4 DEF XInv, FdsInv
<1>10. ServerInherits'
  <2> SUFFICES ASSUME NEW q \in XProcs, xs'[q].child = "pid", xs'[q].tries = 1
               PROVE  /\ inherited'[q] \subseteq Duplicates(1) \cup {At(1, "display1", FALSE)} \cup MakePipe
                      /\ {fd \in fds'[q] : ~fd.cloexec} \subseteq MakePipe
                      /\ {fd \in fds'[q] : fd.try = 1} = Starting(1)
    BY DEF ServerInherits
  <2>1. q # p
    BY <1>3
  <2> QED BY <1>3, <1>4, <2>1 DEF XInv, ServerInherits
<1> QED BY <1>6, <1>7, <1>8, <1>9, <1>10 DEF XInv

(* Every step of the processes with their X displays.                      *)
LEMMA XNextInv == XInv /\ (XNext \/ UNCHANGED xVars) => XInv'
<1> SUFFICES ASSUME XInv, XNext \/ UNCHANGED xVars PROVE XInv'
  OBVIOUS
<1>1. CASE UNCHANGED xVars
  <2>1. XTypeOK' /\ PidInv'
    BY <1>1 DEF xVars, XInv, XTypeOK, PidInv
  <2>2. ClaimInv' /\ FdsInv' /\ ServerInherits'
    BY <1>1 DEF xVars, XInv, ClaimInv, Claims, FdsInv, ServerInherits
  <2> QED BY <2>1, <2>2 DEF XInv
<1>2. CASE XNext
  BY <1>2, SetupStep, OpenPipeStep, CreateLockfileStep, WriteLockfileStep, ReadOrCheckStep,
     UnlinkStaleStep, XSocketStep, ListenXSocketStep, UnlinkLockfileStep, HandleEventStep,
     ShutdownStep, XCrashStep
     DEF XNext
<1> QED BY <1>1, <1>2

(* No process has an X display at first.                                   *)
LEMMA XInitInv == XInit => XInv
<1> SUFFICES ASSUME XInit PROVE XInv
  OBVIOUS
<1>1. NoServer \in Servers /\ NoServer.pc = "off" /\ NoServer.tries = 0 /\ NoServer.child = "0"
  BY XWaylandAssumption DEF NoServer, Servers
<1>2. \A p \in XProcs : xs[p] = NoServer /\ fds[p] = {}
  BY DEF XInit
<1>3. XTypeOK
  <2>1. xs \in [XProcs -> Servers] /\ DOMAIN fds = XProcs /\ DOMAIN inherited = XProcs
    BY <1>1 DEF XInit
  <2>2. /\ xlock \in [1 .. MaxDisplay -> Pids \cup {"none", "empty"}]
        /\ xsock \in [1 .. MaxDisplay -> XProcs \cup {"none", "stale"}]
    BY DEF XInit
  <2>3. kernel \in Kernels /\ taken \in BOOLEAN
    BY Zenon DEF XInit
  <2>4. xstarts \in 0 .. MaxXStarts
    <3>1. xstarts = 0 BY DEF XInit
    <3> QED BY <3>1, XWaylandAssumption
  <2> QED BY <2>1, <2>2, <2>3, <2>4 DEF XTypeOK
<1>4. PidInv /\ ClaimInv
  BY <1>1, <1>2 DEF PidInv, ClaimInv, Claims
<1>5. FdsInv /\ ServerInherits
  BY <1>1, <1>2 DEF FdsInv, ServerInherits
<1> QED BY <1>3, <1>4, <1>5 DEF XInv

-----------------------------------------------------------------------------
(* The invariant of both kinds of names.                                   *)
THEOREM NamesInvariant == Spec => []NamesInv
<1>1. Init => NamesInv
  BY SocketInitInv, XInitInv DEF Init, NamesInv
<1>2. NamesInv /\ [Next]_vars => NamesInv'
  BY SocketNextInv, XNextInv DEF NamesInv, Next, vars, socketVars, xVars
<1> QED BY <1>1, <1>2, PTL DEF Spec

(* Whatever processes start, fail, end or crash, clients of a Wayland      *)
(* display reach the process that holds its lock, unless a lock was taken  *)
(* on an unlinked file (wl_socket_lock(), wl_socket_destroy()).            *)
THEOREM WaylandNamesHeld == Spec => []WaylandNameHeld
<1>1. NamesInv => WaylandNameHeld
  <2> SUFFICES ASSUME NamesInv, ~raced, NEW p \in Procs, socket[p].pc = "ready"
               PROVE  sockFile[socket[p].n] = p /\ lockFile[socket[p].n] = socket[p].fdLock
    BY DEF WaylandNameHeld
  <2>1. Owns(p)
    BY LockedOwns DEF NamesInv
  <2> QED BY <2>1 DEF NamesInv, SocketInv, NameInv
<1> QED BY <1>1, NamesInvariant, PTL

(* An X display belongs to the process whose pid is in its lock file,      *)
(* unless one of the windows of create_lockfile() and                      *)
(* westfield_xserver_shutdown() was hit.                                   *)
THEOREM XDisplaysHeld == Spec => []XDisplayHeld
<1>1. NamesInv => XDisplayHeld
  BY DEF NamesInv, XInv, ClaimInv, Claims, XDisplayHeld
<1> QED BY <1>1, NamesInvariant, PTL

(* On every kernel Xwayland inherits what it is meant to and the pipes of  *)
(* makePipe() (spawn_xserver(), set_cloexec_or_close()).                   *)
THEOREM ServersInherit == Spec => []ServerInherits
<1>1. NamesInv => ServerInherits
  BY DEF NamesInv, XInv
<1> QED BY <1>1, NamesInvariant, PTL
=============================================================================
