---------------------------- MODULE MCScriptHost ----------------------------
(***************************************************************************)
(* ScriptHost on small instances.                                          *)
(***************************************************************************)
EXTENDS ScriptHost
=============================================================================
