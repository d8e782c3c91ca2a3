----------------------------- MODULE MCMassStorage ----------------------------
(***************************************************************************)
(* A disk of three sectors on USB.  A behaviour explores one of two hosts, *)
(* and part says which: one that transfers, with a read and a write of two *)
(* sectors that overlap and the requests that configure the device; and    *)
(* one that gives the other commands and makes one request of each kind,   *)
(* on a disk whose sectors are all alike.                                  *)
(***************************************************************************)
EXTENDS MassStorage

CONSTANTS a, b

VARIABLE part

partVars == <<part, msvars>>

Transfers ==
    {[op |-> "read", block |-> 1, count |-> 2],
     [op |-> "write", block |-> 0, data |-> <<a, b>>]}
SetUps == {Setup("SET_ADDRESS", 0), Setup("SET_CONFIGURATION", 1)}

Others ==
    {[op |-> "read", block |-> 0, count |-> 1],
     [op |-> "inquiry"], [op |-> "test"], [op |-> "startstop"], [op |-> "verify"]}
Requests ==
    {Setup("GET_DESCRIPTOR", 0), Setup("SET_FEATURE", 0), Setup("GET_INTERFACE", 0),
     Setup("SET_ADDRESS", 0)}
    \cup {Setup("SET_CONFIGURATION", v) : v \in 0 .. 2}

MCCommand == Transfers \cup Others
MCAsk     == SetUps \cup Requests

\* The host of this behaviour gives its own commands and makes its own requests.
Hosted(A) ==
    /\ A /\ UNCHANGED part
    /\ cmd' \in {NoCommand} \cup IF part = "transfers" THEN Transfers ELSE Others
    /\ packet' \in {NoPacket} \cup IF part = "transfers" THEN SetUps ELSE Requests

PartsInit == /\ part \in {"transfers", "others"} /\ Init
             /\ part = "others" => disk = [n \in Block |-> a]

PartsNext == Hosted(Next)

PartsSpec == /\ PartsInit /\ [][PartsNext]_partVars
             /\ WF_partVars(Hosted(UsbThread)) /\ WF_partVars(Hosted(HostStep))
=============================================================================
