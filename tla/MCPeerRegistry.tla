--------------------------- MODULE MCPeerRegistry ---------------------------
(***************************************************************************)
(* PeerRegistry on small instances.  One time unit stands for about 10 s:  *)
(* the defaults are POLL 10 s, heartbeat sleep 10 s, curl --max-time 10,   *)
(* TTL 90 s, one poll 8 s for /models and 10 s for each loaded model.      *)
(***************************************************************************)
EXTENDS PeerRegistry, TLC

CONSTANTS u1, idle, busy, odd

MCAnswers == {idle, busy, odd}
MCLoaded == {busy, odd}
=============================================================================
