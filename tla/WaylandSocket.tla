--------------------------- MODULE WaylandSocket ----------------------------
(***************************************************************************)
(* The listening socket of a Wayland display: wl_display_add_socket_auto() *)
(* and wl_socket_destroy() of wayland-server.c, one system call at a time, *)
(* in processes that share the directory XDG_RUNTIME_DIR and may crash.    *)
(* The socket wayland-n is protected by an flock() on the file             *)
(* wayland-n.lock, which is removed together with it.                      *)
(***************************************************************************)
EXTENDS Integers, FiniteSets

CONSTANTS
    Procs,          \* processes that run a proxy
    MaxDisplayno,   \* MAX_DISPLAYNO, 32 in the code
    MaxStarts       \* bound: displays that are started

ASSUME WaylandSocketAssumption ==
    /\ IsFiniteSet(Procs)
    /\ MaxDisplayno \in Nat
    /\ MaxStarts \in Nat

Numbers == 0 .. MaxDisplayno

VARIABLES
    socket,     \* struct wl_socket of each process, with what is done next
    lockFile,   \* the inode at each lock path, 0 for none
    sockFile,   \* whose socket is at each socket path
    raced,      \* a lock was taken on a file that is not at its path any more
    starts

socketVars == <<socket, lockFile, sockFile, raced, starts>>

(* wl_socket_alloc(): which paths are set, the lock that is open.          *)
NoSocket == [pc |-> "off", n |-> 0, path |-> FALSE, lockPath |-> FALSE,
             fdLock |-> 0, locked |-> FALSE]

Sockets ==
    [pc : {"off", "name", "open", "flock", "stat", "bind", "listen", "ready", "destroy", "unlock",
           "close"},
     n : Numbers, path : BOOLEAN, lockPath : BOOLEAN, fdLock : Nat, locked : BOOLEAN]

SocketTypeOK ==
    /\ socket \in [Procs -> Sockets]
    /\ lockFile \in [Numbers -> Nat]
    /\ sockFile \in [Numbers -> Procs \cup {"none", "stale"}]
    /\ raced \in BOOLEAN
    /\ starts \in 0 .. MaxStarts

SocketInit ==
    /\ socket = [p \in Procs |-> NoSocket]
    /\ lockFile = [n \in Numbers |-> 0]
    /\ sockFile = [n \in Numbers |-> "none"]
    /\ raced = FALSE
    /\ starts = 0

Goes(p, pc) == socket' = [socket EXCEPT ![p].pc = pc]

(* wl_display_add_socket_auto() allocates a socket and tries wayland-0.    *)
AddSocketAuto(p) ==
    /\ socket[p].pc = "off"
    /\ starts < MaxStarts
    /\ starts' = starts + 1
    /\ socket' = [socket EXCEPT ![p] = [NoSocket EXCEPT !.pc = "name"]]
    /\ UNCHANGED <<lockFile, sockFile, raced>>

(* wl_socket_init_for_display_name(): it fails without XDG_RUNTIME_DIR or  *)
(* when that is too long, for every number alike.                          *)
InitForDisplayName(p) ==
    /\ socket[p].pc = "name"
    /\ \/ socket' = [socket EXCEPT ![p].path = TRUE, ![p].pc = "open"]
       \/ socket[p].n = 0 /\ Goes(p, "destroy")
    /\ UNCHANGED <<lockFile, sockFile, raced, starts>>

(* Mutant: the path of the socket that was not locked is not forgotten.    *)
KeepsPath(s) == [s EXCEPT !.lockPath = FALSE, !.fdLock = 0, !.locked = FALSE]

(* The error path of wl_socket_lock().                                     *)
Unlocked(s) == [s EXCEPT !.path = FALSE, !.lockPath = FALSE, !.fdLock = 0, !.locked = FALSE]

(* The loop of wl_display_add_socket_auto() goes on with the next number.  *)
NextNumber(p) ==
    LET s == Unlocked(socket[p])
    IN  socket' = [socket EXCEPT ![p] =
            IF s.n < MaxDisplayno THEN [s EXCEPT !.n = @ + 1, !.pc = "name"]
            ELSE [s EXCEPT !.pc = "destroy"]]

(* wl_socket_lock(), open(): the file is created if it is not there.       *)
FreeInode == CHOOSE i \in 1 .. Cardinality(Procs) + Cardinality(Numbers) + 1 :
                /\ \A n \in Numbers : lockFile[n] # i
                /\ \A p \in Procs : socket[p].fdLock # i
OpenLock(p) ==
    LET s == socket[p]
        inode == IF lockFile[s.n] # 0 THEN lockFile[s.n] ELSE FreeInode
    IN  /\ s.pc = "open"
        /\ \/ /\ lockFile' = [lockFile EXCEPT ![s.n] = inode]
              /\ socket' = [socket EXCEPT ![p].lockPath = TRUE, ![p].fdLock = inode, ![p].pc = "flock"]
           \/ NextNumber(p) /\ UNCHANGED lockFile
        /\ UNCHANGED <<sockFile, raced, starts>>

(* wl_socket_lock(), flock(): whoever holds the inode keeps it.            *)
Flock(p) ==
    LET s == socket[p]
    IN  /\ s.pc = "flock"
        /\ IF \E q \in Procs : socket[q].locked /\ socket[q].fdLock = s.fdLock
           THEN NextNumber(p) /\ UNCHANGED raced
           ELSE /\ socket' = [socket EXCEPT ![p].locked = TRUE, ![p].pc = "stat"]
                /\ raced' = (raced \/ lockFile[s.n] # s.fdLock)
        /\ UNCHANGED <<lockFile, sockFile, starts>>

(* wl_socket_lock(), lstat(): a socket that was left behind is removed, if *)
(* it is writable. Other failures of lstat() give up the lock.             *)
StatSocket(p) ==
    LET n == socket[p].n
    IN  /\ socket[p].pc = "stat"
        /\ \/ Goes(p, "bind") /\ sockFile' = [sockFile EXCEPT ![n] = "none"]
           \/ Goes(p, "bind") /\ UNCHANGED sockFile
           \/ NextNumber(p) /\ UNCHANGED sockFile
        /\ UNCHANGED <<lockFile, raced, starts>>

(* _wl_display_add_socket(): socket() and bind(), which fails when there   *)
(* is a file.                                                              *)
BindSocket(p) ==
    LET n == socket[p].n
    IN  /\ socket[p].pc = "bind"
        /\ \/ Goes(p, "destroy") /\ UNCHANGED sockFile
           \/ /\ sockFile[n] = "none"
              /\ sockFile' = [sockFile EXCEPT ![n] = p]
              /\ Goes(p, "listen")
        /\ UNCHANGED <<lockFile, raced, starts>>

(* _wl_display_add_socket(): listen() and the event source.                *)
ListenSocket(p) ==
    /\ socket[p].pc = "listen"
    /\ Goes(p, "ready") \/ Goes(p, "destroy")
    /\ UNCHANGED <<lockFile, sockFile, raced, starts>>

(* wl_display_destroy()                                                    *)
DestroySocket(p) ==
    /\ socket[p].pc = "ready"
    /\ Goes(p, "destroy")
    /\ UNCHANGED <<lockFile, sockFile, raced, starts>>

(* wl_socket_destroy() unlinks the paths that are set and closes the lock. *)
UnlinkSocket(p) ==
    /\ socket[p].pc = "destroy"
    /\ sockFile' = IF socket[p].path THEN [sockFile EXCEPT ![socket[p].n] = "none"] ELSE sockFile
    /\ Goes(p, "unlock")
    /\ UNCHANGED <<lockFile, raced, starts>>
UnlinkLock(p) ==
    /\ socket[p].pc = "unlock"
    /\ lockFile' = IF socket[p].lockPath THEN [lockFile EXCEPT ![socket[p].n] = 0] ELSE lockFile
    /\ Goes(p, "close")
    /\ UNCHANGED <<sockFile, raced, starts>>
CloseLock(p) ==
    /\ socket[p].pc = "close"
    /\ socket' = [socket EXCEPT ![p] = NoSocket]
    /\ UNCHANGED <<lockFile, sockFile, raced, starts>>

(* A process ends at any point: its files stay, its lock does not.         *)
Left(files, p) == [n \in DOMAIN files |-> IF files[n] = p THEN "stale" ELSE files[n]]
SocketCrash(p) ==
    /\ socket[p].pc # "off"
    /\ socket' = [socket EXCEPT ![p] = NoSocket]
    /\ sockFile' = Left(sockFile, p)
    /\ UNCHANGED <<lockFile, raced, starts>>

SocketNext ==
    \E p \in Procs :
        \/ AddSocketAuto(p) \/ InitForDisplayName(p) \/ OpenLock(p) \/ Flock(p)
        \/ StatSocket(p) \/ BindSocket(p) \/ ListenSocket(p) \/ DestroySocket(p)
        \/ UnlinkSocket(p) \/ UnlinkLock(p) \/ CloseLock(p) \/ SocketCrash(p)

-----------------------------------------------------------------------------
(* Whatever other processes start, fail, end or crash in between, the      *)
(* display of a process stays its own: clients that connect to its name    *)
(* reach it and the lock of that name is the one it holds. The only way to *)
(* lose it is to have locked a file that another process had just unlinked *)
(* (wl_socket_lock(), wl_socket_destroy()).                                *)
WaylandNameHeld ==
    ~raced =>
        \A p \in Procs : socket[p].pc = "ready" =>
            sockFile[socket[p].n] = p /\ lockFile[socket[p].n] = socket[p].fdLock
=============================================================================
