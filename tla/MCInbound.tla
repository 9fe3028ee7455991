------------------------------ MODULE MCInbound -----------------------------
(* Instances of Inbound: two peers and one tool, limits low enough to be hit.  *)
EXTENDS Inbound

FirstCall == CHOOSE c \in Calls : TRUE
Callers == [c \in Calls |-> IF c = FirstCall THEN "other" ELSE "busy"]
OneTool == [c \in Calls |-> "tool"]

\* The busy peer uses both protocols.
OneRpc == {Max(Calls)}

NoLimit == 100
DoorOptions == Options(2, 1, NoLimit, NoLimit)
GlobalOptions == Options(2, 1, 2, NoLimit)
PeerOptions == Options(2, 1, 1, NoLimit)
SkillOptions == Options(1, 1, NoLimit, 2)
=============================================================================
