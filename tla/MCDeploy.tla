------------------------------ MODULE MCDeploy ------------------------------
(***************************************************************************)
(* The loader with its own tool and with any other host.  The tool's two   *)
(* bundles have one image each, of two chunks, for the same addresses.     *)
(* Another host sends the requests of module MCLoader in any order and     *)
(* reads its answers at once.                                              *)
(***************************************************************************)
EXTENDS Deploy, MCLoader

MCManifests ==
    <<[descriptor |-> MCBundle(4, 1, 1, 0),
       images |-> <<[descriptor |-> MCImage(4, 4, 6, 2), chunks |-> <<<<0, 1>>, <<0, 1>>>>]>>],
      [descriptor |-> MCBundle(4, 1, 1, 0),
       images |-> <<[descriptor |-> MCImage(4, 4, 6, 2), chunks |-> <<<<1, 1, 1>>, <<1>>>>]>>]>>

VARIABLE client     \* the program on the host

ClientInit == DeployInit /\ client \in {"switchvisorctl", "other"}

ClientNext ==
    /\ \/ client = "switchvisorctl" /\ DeployNext
       \/ client = "other" /\ LoaderNext /\ UNCHANGED <<wireVars, hostVars>>
    /\ UNCHANGED client

ClientSpec == ClientInit /\ [][ClientNext]_<<deployVars, client>> /\ DeployFairness
=============================================================================
