------------------------------ MODULE MCGicV2 ------------------------------
(***************************************************************************)
(* Interrupts for the runs of GicV2: an SGI of two sources, the timer PPI  *)
(* and the owned SPIs.                                                     *)
(***************************************************************************)
EXTENDS GicV2

MCSgi(source) == [id |-> 1, source |-> source]
MCTimer == [id |-> 27, source |-> 0]
MCNetwork == [id |-> 71, source |-> 0]
MCUsb == [id |-> 76, source |-> 0]

\* The boot CPU: an SGI of two sources and both owned SPIs.
MCMixed == {MCSgi(0), MCSgi(1), MCNetwork, MCUsb}
MCBothOwned == {MCNetwork, MCUsb}

\* A CPU that owns no SPI.
MCSecondary == {MCSgi(0), MCTimer}

\* The timer goes first, then the owned SPIs, then the SGIs.
MCPriority(interrupts) ==
    [id \in {i.id : i \in interrupts} |-> IF id = 27 THEN 0 ELSE IF id > 70 THEN 4 ELSE 8]
MCPriorityMixed == MCPriority(MCMixed)
MCPrioritySecondary == MCPriority(MCSecondary)
=============================================================================
