------------------------- MODULE MCMachineSessions -------------------------
(***************************************************************************)
(* MachineSessions for one machine at three kinds of site: published by a  *)
(* quick tunnel; by a named one; or on the gateway's own network, the only *)
(* one from where the gateway reaches the adapter of an engine.  One       *)
(* operator types any command there, or two at once some of them.          *)
(***************************************************************************)
EXTENDS MachineSessions, TLC

CONSTANTS e1, q1, q2, op1, op2

QuickSite == [cluster |-> FALSE, ownUrl |-> FALSE, token |-> FALSE,
              engines |-> {}, shells |-> {op1}, typed |-> MachineCmds]
NamedSite == [cluster |-> FALSE, ownUrl |-> TRUE, token |-> TRUE,
              engines |-> {}, shells |-> {op1, op2},
              typed |-> {"join", "leave", "tunnel up", "tunnel down"}]
ClusterSite == [cluster |-> TRUE, ownUrl |-> FALSE, token |-> FALSE,
                engines |-> {e1}, shells |-> {op1},
                typed |-> {"join", "leave", "up", "down"}]

\* Two operators at once.
QuickPair == [QuickSite EXCEPT !.shells = {op1, op2}, !.typed = {"join", "tunnel down"}]
ClusterPair == [ClusterSite EXCEPT !.shells = {op1, op2}, !.typed = {"up"}]

MCSites == {QuickSite, NamedSite, ClusterSite, QuickPair, ClusterPair}
=============================================================================
