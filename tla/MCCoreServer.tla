---------------------------- MODULE MCCoreServer ----------------------------
(* Small instances of CoreServer for TLC. *)
EXTENDS CoreServer

CONSTANT h1

OneHandler == {h1}
=============================================================================
