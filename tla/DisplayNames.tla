---------------------------- MODULE DisplayNames ----------------------------
(***************************************************************************)
(* The names under which processes of the proxy can be reached, of Wayland *)
(* displays and of X displays. The two kinds have no file in common, so    *)
(* that a behaviour is about one of them.                                  *)
(***************************************************************************)
EXTENDS WaylandSocket, XWayland

VARIABLE kind

vars == <<socketVars, xVars, kind>>

Init == SocketInit /\ XInit /\ kind \in {"wayland", "x"}

Next ==
    \/ kind = "wayland" /\ SocketNext /\ UNCHANGED <<xVars, kind>>
    \/ kind = "x" /\ XNext /\ UNCHANGED <<socketVars, kind>>

Spec == Init /\ [][Next]_vars
=============================================================================
