------------------------------- MODULE MCXudc -------------------------------
(***************************************************************************)
(* A serial channel, with sends and failures, and the network function,    *)
(* whose receive buffers and alternate settings are the new thing there.   *)
(***************************************************************************)
EXTENDS Xudc

MCBounds ==
    [Console |-> [slots |-> 2, sent |-> 2, sends |-> 2, requests |-> 2, faults |-> 1],
     Ncm |-> [slots |-> 3, sent |-> 3, sends |-> 0, requests |-> 2, faults |-> 1]]
=============================================================================
