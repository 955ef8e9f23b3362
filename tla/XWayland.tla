------------------------------ MODULE XWayland ------------------------------
(***************************************************************************)
(* westfield-xwayland.c, one system call at a time: processes claim an X   *)
(* display with a lock file that holds their pid, listen on its socket,    *)
(* start Xwayland for the first client and tear everything down again.     *)
(* Processes may crash; their lock files stay behind with a pid that is    *)
(* dead, or that a later process gets again.                               *)
(***************************************************************************)
EXTENDS OsFds, FiniteSets

CONSTANTS
    XProcs,         \* processes that run a proxy
    Pids,           \* process ids
    Kernels,        \* what the kernel may be like
    MaxDisplay,     \* bound: displays that are tried; there is none in the code
    MaxXStarts,     \* bound: processes that are started
    MaxSpawns       \* bound: attempts of a process to start Xwayland

ASSUME XWaylandAssumption ==
    /\ {"none", "stale"} \cap XProcs = {}
    /\ {"none", "empty"} \cap Pids = {}
    /\ Kernels \subseteq KernelBehaviours
    /\ MaxDisplay \in Nat \ {0}
    /\ MaxXStarts \in Nat
    /\ MaxSpawns \in Nat

VARIABLES
    xs,         \* struct westfield_xserver of each process, what it does next
    xlock,      \* content of each lock file
    xsock,      \* whose socket is at each path
    fds,        \* open descriptors of each process
    kernel,     \* what the kernel is like
    inherited,  \* descriptors that its Xwayland inherited
    taken,      \* a lock or socket of another process was removed
    xstarts

xVars == <<xs, xlock, xsock, fds, kernel, inherited, taken, xstarts>>

(* xs.child is wxs->pid: 0, -1, that of a child, or 1 after an attempt     *)
(* that failed before fork(). xs.source: the listening socket is watched.  *)
NoServer == [pc |-> "off", self |-> "none", display |-> 1, other |-> "none", child |-> "0",
             source |-> FALSE, tries |-> 0]

Servers ==
    [pc : {"off", "create", "write", "read", "kill", "steal", "unlink", "bind", "listen", "unlock",
           "ready", "shutdown", "failed", "aborts"},
     self : Pids \cup {"none"}, display : 1 .. MaxDisplay, other : Pids \cup {"none"},
     child : {"0", "1", "-1", "pid"}, source : BOOLEAN, tries : 0 .. MaxSpawns]

XTypeOK ==
    /\ xs \in [XProcs -> Servers]
    /\ xlock \in [1 .. MaxDisplay -> Pids \cup {"none", "empty"}]
    /\ xsock \in [1 .. MaxDisplay -> XProcs \cup {"none", "stale"}]
    /\ DOMAIN fds = XProcs
    /\ kernel \in Kernels
    /\ DOMAIN inherited = XProcs
    /\ taken \in BOOLEAN
    /\ xstarts \in 0 .. MaxXStarts

XInit ==
    /\ xs = [p \in XProcs |-> NoServer]
    /\ xlock = [d \in 1 .. MaxDisplay |-> "none"]
    /\ xsock = [d \in 1 .. MaxDisplay |-> "none"]
    /\ fds = [p \in XProcs |-> {}]
    /\ kernel \in Kernels
    /\ inherited = [p \in XProcs |-> {}]
    /\ taken = FALSE
    /\ xstarts = 0

XGoes(p, pc) == xs' = [xs EXCEPT ![p].pc = pc]
Locked(p, content) == xlock' = [xlock EXCEPT ![xs[p].display] = content]
Socket(p, whose) == xsock' = [xsock EXCEPT ![xs[p].display] = whose]
Alive(pid) == \E p \in XProcs : xs[p].pc # "off" /\ xs[p].self = pid

(* The descriptors of a proxy: its event loop, listening socket and event  *)
(* source, a client and what it sent, and a file.                          *)
ProxyFds ==
    OsEpollCreateCloexec(kernel) \cup OsSocketCloexec(kernel, "listen")
    \cup OsDupfdCloexec(kernel, "source") \cup OsAcceptCloexec(kernel, "client")
    \cup OsRecvmsgCloexec(kernel, {"received"}) \cup CreateAnonymousFile(kernel)

(* westfield_xwayland_setup() begins with display 1.                       *)
ServerCreated(pid) == [NoServer EXCEPT !.pc = "create", !.self = pid]

(* setupXWayland()                                                         *)
Setup(p) ==
    /\ xs[p].pc = "off"
    /\ xstarts < MaxXStarts
    /\ xstarts' = xstarts + 1
    /\ \E pid \in {i \in Pids : ~Alive(i)} :
        xs' = [xs EXCEPT ![p] = ServerCreated(pid)]
    /\ fds' = [fds EXCEPT ![p] = ProxyFds]
    /\ UNCHANGED <<xlock, xsock, kernel, inherited, taken>>

(* makePipe(), before Xwayland is started.                                 *)
OpenPipe(p) ==
    /\ xs[p].pc = "ready"
    /\ xs[p].child = "0"
    /\ fds' = [fds EXCEPT ![p] = @ \cup MakePipe]
    /\ UNCHANGED <<xs, xlock, xsock, kernel, inherited, taken, xstarts>>

(* westfield_xserver_listen() goes on with the next display.               *)
NextDisplay(p) ==
    /\ xs[p].display < MaxDisplay
    /\ xs' = [xs EXCEPT ![p].pc = "create", ![p].display = @ + 1]

(* westfield_xserver_listen() and westfield_xwayland_setup() both free the *)
(* server when something fails: the process aborts or goes on without X.   *)
SetupFailed(p) == XGoes(p, "failed") \/ XGoes(p, "aborts")

(* Mutant: the file is opened without O_EXCL.                              *)
CreatesAnyway(p) ==
    /\ xs[p].pc = "create"
    /\ Locked(p, "empty")
    /\ XGoes(p, "write")
    /\ UNCHANGED <<xsock, fds, kernel, inherited, taken, xstarts>>

(* create_lockfile(): the file is created only if it is not there.         *)
CreateLockfile(p) ==
    /\ xs[p].pc = "create"
    /\ \/ /\ xlock[xs[p].display] = "none"
          /\ Locked(p, "empty")
          /\ XGoes(p, "write")
       \/ xlock[xs[p].display] # "none" /\ XGoes(p, "read") /\ UNCHANGED xlock
       \/ SetupFailed(p) /\ UNCHANGED xlock
    /\ UNCHANGED <<xsock, fds, kernel, inherited, taken, xstarts>>

(* create_lockfile(), dprintf(): the file is removed when it fails.        *)
WriteLockfile(p) ==
    /\ xs[p].pc = "write"
    /\ \/ Locked(p, xs[p].self) /\ XGoes(p, "unlink")
       \/ Locked(p, "none") /\ SetupFailed(p)
    /\ UNCHANGED <<xsock, fds, kernel, inherited, taken, xstarts>>

(* create_lockfile(), open() and read(), safe_strtoint(): a file that is   *)
(* gone or not yet written counts as taken.                                *)
ReadLockfile(p) ==
    LET content == xlock[xs[p].display]
    IN  /\ xs[p].pc = "read"
        /\ IF content \in {"none", "empty"} THEN NextDisplay(p)
           ELSE xs' = [xs EXCEPT ![p].other = content, ![p].pc = "kill"]
        /\ UNCHANGED <<xlock, xsock, fds, kernel, inherited, taken, xstarts>>

(* create_lockfile(): kill(other, 0) fails with ESRCH.                     *)
Stale(pid) == ~Alive(pid)
CheckOther(p) ==
    /\ xs[p].pc = "kill"
    /\ IF Stale(xs[p].other) THEN XGoes(p, "steal") ELSE NextDisplay(p)
    /\ UNCHANGED <<xlock, xsock, fds, kernel, inherited, taken, xstarts>>

(* create_lockfile(): a stale lock file, or what is there by now, is       *)
(* removed and the display tried again.                                    *)
UnlinkStale(p) ==
    LET content == xlock[xs[p].display]
    IN  /\ xs[p].pc = "steal"
        /\ IF content = "none" THEN NextDisplay(p) ELSE XGoes(p, "create")
        /\ Locked(p, "none")
        /\ taken' = (taken \/ content \notin {"none", xs[p].other} \/ Alive(xs[p].other))
        /\ UNCHANGED <<xsock, fds, kernel, inherited, xstarts>>

(* bind_to_unix_socket(): what is at the path is removed first.            *)
UnlinkXSocket(p) ==
    /\ xs[p].pc = "unlink"
    /\ Socket(p, "none")
    /\ XGoes(p, "bind")
    /\ UNCHANGED <<xlock, fds, kernel, inherited, taken, xstarts>>
BindXSocket(p) ==
    /\ xs[p].pc = "bind"
    /\ \/ /\ xsock[xs[p].display] = "none"
          /\ Socket(p, p)
          /\ XGoes(p, "listen")
          /\ fds' = [fds EXCEPT ![p] = @ \cup {Fd("unix", TRUE)}]
       \/ XGoes(p, "unlock") /\ UNCHANGED <<xsock, fds>>
    /\ UNCHANGED <<xlock, kernel, inherited, taken, xstarts>>

(* bind_to_unix_socket(), listen(), and the event source.                  *)
ListenXSocket(p) ==
    /\ xs[p].pc = "listen"
    /\ \/ /\ xs' = [xs EXCEPT ![p].pc = "ready", ![p].source = TRUE]
          /\ UNCHANGED <<xsock, fds>>
       \/ /\ Socket(p, "none")
          /\ XGoes(p, "unlock")
          /\ fds' = [fds EXCEPT ![p] = @ \ {Fd("unix", TRUE)}]
    /\ UNCHANGED <<xlock, kernel, inherited, taken, xstarts>>

(* westfield_xserver_listen(): the lock file is removed when the socket    *)
(* cannot be bound.                                                        *)
UnlinkLockfile(p) ==
    /\ xs[p].pc = "unlock"
    /\ Locked(p, "none")
    /\ taken' = (taken \/ xlock[xs[p].display] \notin {"none", xs[p].self})
    /\ SetupFailed(p)
    /\ UNCHANGED <<xsock, fds, kernel, inherited, xstarts>>

(* spawn_xserver(): what is open when the nth call fails. All ends of the  *)
(* two socket pairs are close-on-exec, of the pipe only the one read from. *)
At(n, name, cloexec) == [Fd(name, cloexec) EXCEPT !.try = n]
Pair(a, b, n) == {At(n, a, TRUE), At(n, b, TRUE)}
Display(n, cloexec) == {At(n, "display0", cloexec), At(n, "display1", FALSE)}
LeftOpen(step, n) ==
    CASE step = "socketpair" -> {}
      [] step = "wm" -> Pair("sv0", "sv1", n)
      [] step = "pipe" -> Pair("sv0", "sv1", n) \cup Pair("wm0", "wm1", n)
      [] step = "fcntl" -> Pair("sv0", "sv1", n) \cup Pair("wm0", "wm1", n) \cup Display(n, FALSE)
      [] step = "fork" -> Pair("sv0", "sv1", n) \cup Pair("wm0", "wm1", n) \cup Display(n, TRUE)

(* westfield_xserver_starting(): what the callback is handed.              *)
Starting(n) == {At(n, "sv0", TRUE), At(n, "wm0", TRUE), At(n, "display0", TRUE)}

(* What Xwayland gets: the duplicates that the child makes and everything  *)
(* that is not close-on-exec.                                              *)
Duplicates(n) == {At(n, "WAYLAND_SOCKET", FALSE), At(n, "-listen", FALSE), At(n, "-wm", FALSE)}
Given(open, n) == {fd \in open \cup Display(n, TRUE) \cup Duplicates(n) : ~fd.cloexec}

(* westfield_xserver_handle_event(): the first client connects. A failure  *)
(* before fork() returns 1 and passes for a child, a failure of fork()     *)
(* leaves the source in the loop and everything open.                      *)
HandleEvent(p) ==
    LET n == xs[p].tries + 1
        closed == {At(n, "sv1", TRUE), At(n, "wm1", TRUE), At(n, "display1", FALSE)}
    IN  /\ xs[p].pc = "ready"
        /\ xs[p].source
        /\ n <= MaxSpawns
        /\ \/ \E step \in {"socketpair", "wm", "pipe", "fcntl"} :
                /\ xs' = [xs EXCEPT ![p].child = "1", ![p].source = FALSE, ![p].tries = n]
                /\ fds' = [fds EXCEPT ![p] = @ \cup LeftOpen(step, n)]
                /\ UNCHANGED inherited
           \/ /\ xs' = [xs EXCEPT ![p].child = "-1", ![p].tries = n]
              /\ fds' = [fds EXCEPT ![p] = @ \cup LeftOpen("fork", n)]
              /\ UNCHANGED inherited
           \/ /\ xs' = [xs EXCEPT ![p].child = "pid", ![p].source = FALSE, ![p].tries = n]
              /\ fds' = [fds EXCEPT ![p] = @ \cup (LeftOpen("fork", n) \ closed)]
              /\ inherited' = [inherited EXCEPT ![p] = Given(fds[p], n)]
        /\ UNCHANGED <<xlock, xsock, kernel, taken, xstarts>>

(* teardownXWayland(), westfield_xserver_shutdown(): the lock file goes    *)
(* first, then the socket. The source goes only if nothing was spawned.    *)
Teardown(p) ==
    /\ xs[p].pc = "ready"
    /\ Locked(p, "none")
    /\ taken' = (taken \/ xlock[xs[p].display] \notin {"none", xs[p].self})
    /\ XGoes(p, "shutdown")
    /\ UNCHANGED <<xsock, fds, kernel, inherited, xstarts>>
Shutdown(p) ==
    /\ xs[p].pc = "shutdown"
    /\ Socket(p, "none")
    /\ taken' = (taken \/ xsock[xs[p].display] \notin {"none", "stale", p})
    /\ xs' = [xs EXCEPT ![p].pc = "failed",
                        ![p].source = IF xs[p].child = "0" THEN FALSE ELSE @]
    /\ fds' = [fds EXCEPT ![p] = @ \ {Fd("unix", TRUE)}]
    /\ UNCHANGED <<xlock, kernel, inherited, xstarts>>

(* A process ends, by a crash at any point or because free() aborts.       *)
XCrash(p) ==
    /\ xs[p].pc # "off"
    /\ xs' = [xs EXCEPT ![p] = NoServer]
    /\ xsock' = [d \in DOMAIN xsock |-> IF xsock[d] = p THEN "stale" ELSE xsock[d]]
    /\ fds' = [fds EXCEPT ![p] = {}]
    /\ inherited' = [inherited EXCEPT ![p] = {}]
    /\ UNCHANGED <<xlock, kernel, taken, xstarts>>

XNext ==
    \E p \in XProcs :
        \/ Setup(p) \/ OpenPipe(p) \/ CreateLockfile(p) \/ WriteLockfile(p) \/ ReadLockfile(p)
        \/ CheckOther(p) \/ UnlinkStale(p) \/ UnlinkXSocket(p) \/ BindXSocket(p)
        \/ ListenXSocket(p) \/ UnlinkLockfile(p) \/ HandleEvent(p) \/ Teardown(p)
        \/ Shutdown(p) \/ XCrash(p)

-----------------------------------------------------------------------------
(* The X display of a process stays its own, whatever other processes      *)
(* claim, fail, crash or restart with a pid used before: the lock file     *)
(* holds its pid and clients reach its socket. The only ways to lose it    *)
(* are the windows between finding a lock stale and removing it, and       *)
(* between the removal of a lock and of its socket (create_lockfile(),     *)
(* westfield_xserver_shutdown()).                                          *)
XDisplayHeld ==
    ~taken =>
        \A p \in XProcs : xs[p].pc = "ready" =>
            xlock[xs[p].display] = xs[p].self /\ xsock[xs[p].display] = p

(* Xwayland inherits the four descriptors it is meant to get and the pipes *)
(* of makePipe(), on any kernel, and of what was opened for it the process *)
(* keeps exactly what the starting callback was handed, unless an attempt  *)
(* failed before it                                                        *)
(* (spawn_xserver(), set_cloexec_or_close() and the wrappers that use it). *)
ServerInherits ==
    \A p \in XProcs : xs[p].child = "pid" /\ xs[p].tries = 1 =>
        /\ inherited[p] \subseteq Duplicates(1) \cup {At(1, "display1", FALSE)} \cup MakePipe
        /\ {fd \in fds[p] : ~fd.cloexec} \subseteq MakePipe
        /\ {fd \in fds[p] : fd.try = 1} = Starting(1)
=============================================================================
