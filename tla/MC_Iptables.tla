---------------------------- MODULE MC_Iptables ----------------------------
(***************************************************************************)
(* Instances of Iptables for TLC: the filter table with its INPUT and     *)
(* OUTPUT hooks, one user chain, one rule match and three rule targets.   *)
(***************************************************************************)
EXTENDS Iptables

MCHooks == {1, 3}
MCUserChains == {"c1"}
MCAddrs == {"a"}
\* the targets a rule names: a verdict, an extension target (72 bytes
\* against the standard target's 40) and a jump
MCTargets == {"ACCEPT", "MASQUERADE", "c1"}
====
