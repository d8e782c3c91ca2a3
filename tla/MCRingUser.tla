------------------------------ MODULE MCRingUser ------------------------------
(***************************************************************************)
(* The ring, and the virtual serial port that sends through it, explored   *)
(* one at a time: part says which, and the other stays as it started.  The *)
(* port knows its ring as what IsFifo shows the ring to be.                *)
(***************************************************************************)
EXTENDS MCRingBuf, Vcom

VARIABLE part

partVars == <<part, vars, vcomVars>>

Rings(A) == part = "ring" /\ A /\ UNCHANGED <<part, vcomVars>>
Ports(A) == part = "port" /\ A /\ UNCHANGED <<part, vars>>

PartsInit == /\ part \in {"ring", "port"}
             /\ Init /\ (part = "port" => buf = [i \in Slot |-> "a"])
             /\ VcomInit

PartsNext == Rings(Next) \/ Ports(VcomNext)

PartsSpec == /\ PartsInit /\ [][PartsNext]_partVars
             /\ WF_partVars(Ports(VcomThread)) /\ WF_partVars(Ports(VcomSof))
             /\ WF_partVars(Ports(VcomTake))

\* The types of both.
TypesOK == TypeOK /\ VcomTypeOK
===============================================================================
