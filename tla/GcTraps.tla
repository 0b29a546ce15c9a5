------------------------------ MODULE GcTraps -------------------------------
(***************************************************************************)
(* The gc traps of the three ports: the x86-64 (SaveApplication), the ARM  *)
(* (ArmCollector) and the PPC (PpcCollector).  The properties are those of *)
(* Collector and SaveApplication; the kernel is built for one port.        *)
(***************************************************************************)
EXTENDS SaveApplication

VARIABLE port

Arm == INSTANCE ArmCollector
Ppc == INSTANCE PpcCollector

PortInit ==
    \/ port = "x86" /\ Init
    \/ port = "arm" /\ Arm!Init
    \/ port = "ppc" /\ Ppc!Init

PortCollect ==
    /\ \/ port = "x86" /\ CollectOnce
       \/ port = "arm" /\ Arm!Collect
       \/ port = "ppc" /\ Ppc!Collect
    /\ UNCHANGED port

PortNext ==
    /\ \/ port = "x86" /\ Next
       \/ port = "arm" /\ Arm!Next
       \/ port = "ppc" /\ Ppc!Next
    /\ UNCHANGED port

(* Nothing interrupts a collection.                                        *)
PortSpec == PortInit /\ [][PortNext]_<<vars, port>> /\ WF_<<vars, port>>(PortCollect)
=============================================================================
