-------------------------- MODULE MCCommandChannel --------------------------
(***************************************************************************)
(* CommandChannel with the URLs of one machine: its own, that of a quick   *)
(* tunnel, and that of an engine adapter.                                  *)
(***************************************************************************)
EXTENDS CommandChannel, TLC

CONSTANTS own, tunnel, adapter
=============================================================================
