----------------------------- MODULE MCPipeline -----------------------------
(* Small instances of Pipeline for TLC. *)
EXTENDS Pipeline, TLC

CONSTANTS master, masterFork, upstream, fork

MCIdentOf == upstream :> master @@ fork :> masterFork
=============================================================================
