------------------------------- MODULE OsFds --------------------------------
(***************************************************************************)
(* The wrappers of wayland-os.c and westfield-fdutils.c: each opens a      *)
(* descriptor that a child process must not inherit. What the kernel does  *)
(* is a record k: whether it sets the close-on-exec flag when it is asked  *)
(* to ("yes"), does not know how ("EINVAL") or fails ("error"), and        *)
(* whether fcntl() can set the flag afterwards. A wrapper returns the set  *)
(* of descriptors that are open when it is done.                           *)
(***************************************************************************)
EXTENDS Integers

KernelBehaviours ==
    [flag : {"yes", "EINVAL", "error"}, fcntl : BOOLEAN, runtimeDir : BOOLEAN, space : BOOLEAN]

(* A descriptor is known by what it is opened for and, if that happens more *)
(* than once, by when.                                                     *)
Fd(name, cloexec) == [name |-> name, try |-> 0, cloexec |-> cloexec]

(* Mutant: a descriptor whose flag cannot be set is used as it is.         *)
SetCloexecOrKeep(k, name) == {Fd(name, k.fcntl)}

(* set_cloexec_or_close()                                                  *)
SetCloexecOrClose(k, name) == IF k.fcntl THEN {Fd(name, TRUE)} ELSE {}

(* What all wrappers do: ask for the flag, and without such a kernel set   *)
(* it afterwards.                                                          *)
OpenCloexec(k, name) ==
    CASE k.flag = "yes" -> {Fd(name, TRUE)}
      [] k.flag = "EINVAL" -> SetCloexecOrClose(k, name)
      [] k.flag = "error" -> {}

OsSocketCloexec(k, name) == OpenCloexec(k, name)
OsDupfdCloexec(k, name) == OpenCloexec(k, name)
OsEpollCreateCloexec(k) == OpenCloexec(k, "epoll")
OsAcceptCloexec(k, name) == OpenCloexec(k, name)

(* wl_os_recvmsg_cloexec() and recvmsg_cloexec_fallback(): every           *)
(* descriptor of the message.                                              *)
OsRecvmsgCloexec(k, names) == UNION {OpenCloexec(k, name) : name \in names}

(* westfield_os_create_anonymous_file(): a file that has no name any more. *)
CreateAnonymousFile(k) == IF k.runtimeDir /\ k.space THEN {Fd("file", TRUE)} ELSE {}

(* makePipe(): pipe() without flags.                                       *)
MakePipe == {Fd("pipe", FALSE)}
=============================================================================
