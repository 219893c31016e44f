------------------------------- MODULE MCFabric -------------------------------
EXTENDS Fabric, TLC

\* The node processes are boots of one node.
SameName == [n \in Nodes |-> "node"]

Budget(b, l, s, o, f) ==
  [start |-> b, lapse |-> l, stop |-> s, op |-> o, fault |-> f]

\* Two boots, of which one is killed, or loses a reply or an audit entry, or is
\* not heard in time; one, with two operations on the way and all of these.
Mixes == {Budget(2, 0, 1, 0, 0), Budget(2, 0, 0, 0, 1), Budget(2, 1, 0, 0, 0),
          Budget(1, 1, 1, 2, 0)}
==============================================================================
