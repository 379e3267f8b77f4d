------------------------------ MODULE MCTraffic ------------------------------
(***************************************************************************)
(* What the USB carries: the network's frames and the console's bytes.  A  *)
(* behaviour is one of Bridge, of Ncm or of Console, by the choice of      *)
(* `part`.  They share no variable: the console has endpoints of its own,  *)
(* for the bridge a block is a number of frames, and for Ncm a frame is a  *)
(* length.                                                                 *)
(*                                                                         *)
(* The host's blocks have up to two tables, linked in every way, with      *)
(* entries that overlap each other or a table.  Tables that overlap are    *)
(* rejected before the second one is read, so that it does not matter that *)
(* their bytes are chosen separately.                                      *)
(***************************************************************************)
EXTENDS Bridge, Ncm, Console

VARIABLE part

MCFilters == {{"peer", "all", "reply"}, {"peer", "reply"}}

Entries == {END, Span(46, 14), Span(50, 14), Span(22, 14)}
Tables(offset) ==
    UNION {[size : {8 + 4 * n}, entries : [1 .. n -> Entries], next : {0, 12, 28}] : n \in 1 .. 2}
    \cup [size : {20}, entries : {<<END, END, END>>}, next : {0, 28}]
SomeBlocks ==
    [length : {64}, first : {0, 12, 28}, tables :
        {[o \in {12} |-> t] : t \in Tables(12)}
        \cup {[o \in {12, 28} |-> IF o = 12 THEN s ELSE t] :
                s \in Tables(12), t \in Tables(28)}]

\* A part that does not run starts in one way.
TrafficInit ==
    /\ part \in {"bridge", "ncm", "console"}
    /\ BridgeInit /\ NcmInit /\ ConsoleInit
    /\ part # "bridge" => filter = CHOOSE f \in Filters : TRUE
    /\ part # "ncm" => limit = CHOOSE n \in Limits : TRUE

TrafficNext ==
    /\ UNCHANGED part
    /\ \/ part = "bridge" /\ BridgeNext /\ UNCHANGED <<ncmVars, consoleVars>>
       \/ part = "ncm" /\ NcmNext /\ UNCHANGED <<vars, consoleVars>>
       \/ part = "console" /\ ConsoleNext /\ UNCHANGED <<vars, ncmVars>>

\* The fairness of the three, each for the behaviours that are its own.
TrafficSpec ==
    /\ TrafficInit /\ [][TrafficNext]_<<part, vars, ncmVars, consoleVars>>
    /\ WF_vars(part = "bridge" /\ BeginService) /\ WF_vars(part = "bridge" /\ Round)
    /\ SF_vars(part = "bridge" /\ TransferComplete)
    /\ WF_ncmVars(part = "ncm" /\ Decode)
    /\ WF_consoleVars(part = "console" /\ Service)
    /\ WF_consoleVars(part = "console" /\ pend_console_interrupt)
    /\ SF_consoleVars(part = "console" /\ HostReads)
=============================================================================
