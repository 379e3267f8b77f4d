---------------------------- MODULE MCInterrupts ----------------------------
(***************************************************************************)
(* The guest's interrupt settings: the registers it writes, and how what   *)
(* they hold reaches the CPUs.  A behaviour is one of Distributor or one   *)
(* of Publication, by the choice of `part`; they meet in GuestIrq, which   *)
(* Distributor implements and Publication builds on.                       *)
(*                                                                         *)
(* In Distributor there are the maintenance PPI, the network's SPI and an  *)
(* SPI of the guest that shares every register word with it.               *)
(***************************************************************************)
EXTENDS Distributor, Publication

MCIds == {25, 71, 69}
MCWord == [i \in MCIds |-> i \div 32]
MCByteWord == [i \in MCIds |-> i \div 4]

VARIABLE part

\* The part that does not run starts in one way.
InterruptsInit ==
    /\ part \in {"distributor", "publication"}
    /\ DistributorInit /\ PublicationInit
    /\ IF part = "distributor"
       THEN control = TRUE /\ priority = [i \in Looked |-> CHOOSE p \in Priorities : TRUE]
       ELSE guest_control = TRUE

InterruptsNext ==
    /\ UNCHANGED part
    /\ \/ part = "distributor" /\ DistributorNext /\ UNCHANGED allVars
       \/ part = "publication" /\ PublicationNext /\ UNCHANGED vars

\* The fairness of Publication, for its own behaviours.
InterruptsSpec ==
    /\ InterruptsInit /\ [][InterruptsNext]_<<part, vars, allVars>>
    /\ \A c \in Cpus : WF_allVars(part = "publication" /\ Step(c))
    /\ WF_allVars(part = "publication" /\ OwnedIrq)
    /\ \A i \in Looked :
         /\ WF_allVars(part = "publication" /\ TakeInterrupt(i))
         /\ SF_allVars(part = "publication" /\ GuestAck(i))
         /\ SF_allVars(part = "publication" /\ GuestEoi(i))
=============================================================================
