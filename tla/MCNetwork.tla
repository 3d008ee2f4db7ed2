------------------------------- MODULE MCNetwork -------------------------------
(* The packet filter and the QUIC engine, which share nothing: one of them moves in  *)
(* a behaviour.  Two TCP flows on two queues and another flow, one subnet; two       *)
(* streams of three bytes, three packets.                                            *)
EXTENDS Firewall, QuicEngine, TLC

VARIABLE system

Init == system \in {"firewall", "quic"} /\ FirewallInit /\ QuicInit

Next ==
  /\ \/ system = "firewall" /\ FirewallNext /\ UNCHANGED quicVars
     \/ system = "quic" /\ QuicNext /\ UNCHANGED firewallVars
  /\ UNCHANGED system

Spec == Init /\ [][Next]_<<system, firewallVars, quicVars>>

OneSubnet == [f \in Flow |-> "10.0.0.0"]
Queues    == "a" :> "q1" @@ "b" :> "q2" @@ "u" :> "q2"
================================================================================
