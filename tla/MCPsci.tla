------------------------------- MODULE MCPsci -------------------------------
(***************************************************************************)
(* Psci with a few calls: two launches that differ in both fields, for the *)
(* CPUs of Targets and for CPU 1, with arguments that only the SMC32 form  *)
(* cuts to a valid target, and entries and targets that are refused.       *)
(***************************************************************************)
EXTENDS Psci

CONSTANT Targets        \* the CPUs that guests try to start

MCCPUs == 0 .. CPU_COUNT - 1

MCCalls ==
    [x1 : Targets, x2 : {RAM_BASE}, x3 : {1}]
        \cup {[x1 |-> Word32 + 1, x2 |-> Word32 + IPA_LIMIT - 4, x3 |-> Word32 + 2],
              [x1 |-> 1, x2 |-> RESIDENT_BASE, x3 |-> 1],
              [x1 |-> CPU_COUNT, x2 |-> RAM_BASE, x3 |-> 1]}
=============================================================================
