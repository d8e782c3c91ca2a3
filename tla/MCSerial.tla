------------------------------- MODULE MCSerial -------------------------------
(***************************************************************************)
(* Reception on a serial device, and what is made of what it receives: the *)
(* X/Y modem takes files and the shell runs lines.  They are explored one  *)
(* at a time: part says which, and the others stay as they started.        *)
(***************************************************************************)
EXTENDS MCSerialRx, XyzModem, FinshVm

VARIABLE part

partVars == <<part, vars, xyzVars, finshVars>>

Serials(A) == part = "serial" /\ A /\ UNCHANGED <<part, xyzVars, finshVars>>
Modems(A)  == part = "modem" /\ A /\ UNCHANGED <<part, vars, finshVars>>
Shells(A)  == part = "shell" /\ A /\ UNCHANGED <<part, vars, xyzVars>>

PartsInit == /\ part \in {"serial", "modem", "shell"}
             /\ Init /\ (part # "serial" => int_rx)
             /\ XyzInit /\ FinshInit

PartsNext == Serials(Next) \/ Modems(XyzNext) \/ Shells(FinshNext)

\* In a behaviour part does not change, so what is asked of two is asked of each.
PartsSpec ==
    /\ PartsInit /\ [][PartsNext]_partVars
    /\ WF_partVars(Serials(Interrupt) \/ Modems(XyzWaits \/ XyzReads))
    /\ WF_partVars(Serials(ReadStep) \/ Modems(SenderStep))
    /\ SF_partVars(Serials(CallRead))

\* The types of every part.
TypesOK == TypeOK /\ XyzTypeOK /\ FinshTypeOK
===============================================================================
