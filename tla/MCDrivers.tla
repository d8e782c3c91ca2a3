------------------------------ MODULE MCDrivers ------------------------------
(***************************************************************************)
(* The buses: the cards of SDIO behind the lock of their host and the      *)
(* devices of SPI behind the lock of their bus, which several threads      *)
(* share, and what is plugged into the ports of a USB host.  They are      *)
(* explored one at a time: part says which, and the others stay as they    *)
(* started.                                                                *)
(***************************************************************************)
EXTENDS Sdio, SpiBus, UsbHost

VARIABLE part

partVars == <<part, sdioVars, spiVars, usbhVars>>

Sdios(A) == part = "sdio" /\ A /\ UNCHANGED <<part, spiVars, usbhVars>>
Spis(A)  == part = "spi" /\ A /\ UNCHANGED <<part, sdioVars, usbhVars>>
Hosts(A) == part = "host" /\ A /\ UNCHANGED <<part, sdioVars, spiVars>>

PartsInit == part \in {"sdio", "spi", "host"} /\ SdioInit /\ SpiInit /\ UsbHostInit
PartsNext == Sdios(SdioNext) \/ Spis(SpiNext) \/ Hosts(UsbHostNext)

\* Sdio's fairness asks nothing of the other parts: its variables stay as they started,
\* and no step of its threads, its controller or its interrupt is possible then.
PartsSpec == PartsInit /\ [][PartsNext]_partVars /\ SdioFair

\* The types of every part.
TypesOK == SdioTypeOK /\ SpiTypeOK /\ UsbHostTypeOK
=============================================================================
