---------------------------- MODULE MCObjectIds -----------------------------
(* ObjectIds on a small instance: two client ids, two server ids.          *)
EXTENDS ObjectIds
=============================================================================
