---------------------------- MODULE PowerDomain ----------------------------
(***************************************************************************)
(* What the virtual PSCI service promises a guest about the power of its   *)
(* CPUs.  A CPU that is off is first reserved by one caller; the caller    *)
(* either gives up or hands over one launch, whole; the CPU then starts    *)
(* with exactly that launch and keeps it until it turns itself off.  No    *)
(* second launch is accepted in between.  The module Psci is shown to      *)
(* implement this specification.                                           *)
(***************************************************************************)
CONSTANTS
    Domain,     \* the virtual CPUs
    BootCPU,    \* the CPU that runs from the start
    Launches,   \* pairs of an entry point and a context
    BootLaunch, \* what the boot CPU runs
    NoLaunch    \* no launch has been handed over

VARIABLES
    power,      \* "off", "turning_on" or "on", as AFFINITY_INFO reports it
    launch      \* what the CPU is about to run, or runs

powerVars == <<power, launch>>

PowerTypeOK ==
    /\ power \in [Domain -> {"off", "turning_on", "on"}]
    /\ launch \in [Domain -> Launches \cup {BootLaunch, NoLaunch}]

PowerInit ==
    /\ power = [t \in Domain |-> IF t = BootCPU THEN "on" ELSE "off"]
    /\ launch = [t \in Domain |-> IF t = BootCPU THEN BootLaunch ELSE NoLaunch]

Reserve(t) ==
    /\ power[t] = "off"
    /\ power' = [power EXCEPT ![t] = "turning_on"]
    /\ UNCHANGED launch

\* The firmware did not boot the physical CPU.
GiveUp(t) ==
    /\ power[t] = "turning_on"
    /\ launch[t] = NoLaunch
    /\ power' = [power EXCEPT ![t] = "off"]
    /\ UNCHANGED launch

HandOver(t, l) ==
    /\ power[t] = "turning_on"
    /\ launch[t] = NoLaunch
    /\ launch' = [launch EXCEPT ![t] = l]
    /\ UNCHANGED power

Start(t) ==
    /\ power[t] = "turning_on"
    /\ launch[t] # NoLaunch
    /\ power' = [power EXCEPT ![t] = "on"]
    /\ UNCHANGED launch

TurnOff(t) ==
    /\ power[t] = "on"
    /\ power' = [power EXCEPT ![t] = "off"]
    /\ launch' = [launch EXCEPT ![t] = NoLaunch]

PowerNext ==
    \E t \in Domain :
        \/ Reserve(t)
        \/ GiveUp(t)
        \/ \E l \in Launches : HandOver(t, l)
        \/ Start(t)
        \/ TurnOff(t)

PowerSpec == PowerInit /\ [][PowerNext]_powerVars
=============================================================================
