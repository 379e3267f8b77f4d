----------------------------- MODULE MCGicQuiet -----------------------------
(***************************************************************************)
(* GicV2 in an environment that becomes quiet: after at most MaxEvents     *)
(* events nothing new happens, so that an interrupt of high priority that  *)
(* never stops does not hide whether the driver forgets one.               *)
(***************************************************************************)
EXTENDS MCGicV2

CONSTANT MaxEvents

VARIABLE events     \* events of the environment so far

quietVars == <<vars, events>>

QuietInit == GicInit /\ events = 0

MonitorStep ==
    /\ DriverStep \/ GuestStep \/ \E l \in Owned : PendLine(l)
    /\ UNCHANGED events

Event == events < MaxEvents /\ EnvironmentStep /\ events' = events + 1

QuietSpec == QuietInit /\ [][MonitorStep \/ Event]_quietVars /\ Fairness

\* The switch changes only by a trap of this CPU, which synchronizes at once.
LocalSwitch == UNCHANGED enabled \/ distributor_enabled' = enabled'

LocalSpec == QuietInit /\ [][MonitorStep \/ (Event /\ LocalSwitch)]_quietVars /\ Fairness
=============================================================================
