-------------------------- MODULE MCNativeDisplay ---------------------------
(* NativeDisplay on a small instance: one global at a time, a proxy that   *)
(* sets all callbacks, and two requests of every kind, with binds to       *)
(* version 1, which the global has as long as it exists, and to version 2. *)
EXTENDS NativeDisplay

MCVersions == [shm |-> 1]
MCCallbacks == {{"sync", "destroy", "wire", "registry"}}
Simple(type) == [type |-> type]
Bind(version) == [type |-> "bind", name |-> 1, interface |-> "shm", version |-> version]
MCRequests == {Simple("sync"), Simple("registry"), Simple("browser"),
               Bind(1), Bind(2)}
=============================================================================
