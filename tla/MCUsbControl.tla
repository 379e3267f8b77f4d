---------------------------- MODULE MCUsbControl ----------------------------
(***************************************************************************)
(* How the host controls the device and its monitor: requests on endpoint  *)
(* zero, and lines on the control port.  A behaviour is one of ControlPipe *)
(* or one of Control, by the choice of `part`; that the port's DTR is set  *)
(* by a request is all they have in common, and Control sets it itself.    *)
(***************************************************************************)
EXTENDS ControlPipe, Control

VARIABLE part

MCTyped == {<<BAD, "p">>, <<"p", CR>>}

UsbControlInit == part \in {"pipe", "port"} /\ PipeInit /\ ControlInit

UsbControlNext ==
    /\ UNCHANGED part
    /\ \/ part = "pipe" /\ PipeNext /\ UNCHANGED vars
       \/ part = "port" /\ ControlNext /\ UNCHANGED pipeVars

\* The fairness of the two, each for the behaviours that are its own.
UsbControlSpec ==
    /\ UsbControlInit /\ [][UsbControlNext]_<<part, pipeVars, vars>>
    /\ WF_pipeVars(part = "pipe" /\ Handle) /\ WF_pipeVars(part = "pipe" /\ Arm)
    /\ WF_pipeVars(part = "pipe" /\ HostProgress)
    /\ \A f \in Functions : WF_pipeVars(part = "pipe" /\ HostNotified(f))
    /\ WF_vars(part = "port" /\ Service) /\ WF_vars(part = "port" /\ reset_if_requested)
    /\ WF_vars(part = "port" /\ WriteCommand) /\ WF_vars(part = "port" /\ WriteNewline)
    /\ WF_vars(part = "port" /\ Read) /\ WF_vars(part = "port" /\ Vanished)
=============================================================================
