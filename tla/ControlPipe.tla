----------------------------- MODULE ControlPipe ----------------------------
(***************************************************************************)
(* Endpoint zero of the composite USB device (setup and transfer in        *)
(* drivers/usb/tegra210.rs, Composite::setup in drivers/usb/composite.rs)  *)
(* and the notifications that its requests cause (arm_data, notify_ncm).   *)
(*                                                                         *)
(* A control request is a SETUP packet, an optional data stage and a       *)
(* status stage.  The host may give a request up at any stage and send     *)
(* another SETUP, while descriptors and completions of the old request are *)
(* still on their way.  The controller executes a descriptor only for the  *)
(* SETUP whose sequence number rang its doorbell, completes an older one   *)
(* with a sequence error, ends a stall at the next SETUP, and runs nothing *)
(* between a port reset and its acknowledgement.  Polls handle all events  *)
(* (module Xudc is about their limit and about halted endpoints); one ACM  *)
(* function stands for both.                                               *)
(***************************************************************************)
EXTENDS Integers, Sequences, FiniteSets

CONSTANTS
    Slots,              \* descriptors of the ring, 15
    Codings,            \* line codings and NTB input sizes
    DEFAULT,            \* the one after a reset
    MaxRequests         \* bound on SETUP packets and port resets; one more
                        \*   reset for a device that has failed

ASSUME ControlPipeAssumption ==
    /\ Slots \in Nat \ {0} /\ DEFAULT \in Codings

NOTHING == "none"
TORN == "torn"          \* a control buffer filled in part, or with a reply
Functions == {"acm", "ncm"}
Switch == {"off", "on"}

\* Requests that change state, reads, and one that no function knows.  A
\* full read fills its last packet and ends with an empty one.
Request(kind, value) == [kind |-> kind, value |-> value]
Unknown == Request("unknown", NOTHING)
Requests ==
    [kind : {"configuration", "alternate", "dtr"}, value : Switch]
    \cup [kind : {"line coding", "input size"}, value : Codings]
    \cup [kind : {"clear halt"}, value : Functions]
    \cup {Request("read", NOTHING), Request("full read", NOTHING), Unknown}

VARIABLES
    \* struct Xudc and struct Composite.
    configuration, alternate, dtr, line_coding, input_size,
    sequence, control,      \* the last SETUP; the descriptor waited for
    next, occupied,         \* the ring of endpoint zero
    failed,                 \* a poll ended with an error
    needed, transfer,       \* per function: a notification is due, under way
    speed,                  \* ncm_speed_notification
    \* The controller.
    armed, events,
    stalled,                \* endpoint zero is halted
    data,                   \* the control buffer
    \* The host.
    request, stage,         \* its request and how far it got
    number,                 \* its sequence number, the count of requests
    told,                   \* what the notifications told it
    given_up,               \* functions whose notification it threw away
    whole,                  \* data stages that it finished, as requests
    refused                 \* history: the last request that found the ring full

deviceVars == <<configuration, alternate, dtr, line_coding, input_size>>
ringVars == <<control, next, occupied>>
notifyVars == <<needed, transfer, speed>>
failVars == <<failed, refused>>
setupVars == <<request, stage, number, told, given_up, whole>>
pipeVars == <<deviceVars, sequence, ringVars, failVars, notifyVars, armed, events, stalled, data,
              setupVars>>

\* No descriptor is waited for.
Idle == [slot |-> Slots, phase |-> Unknown]

PipeInit ==
    /\ configuration = "off" /\ alternate = "off" /\ dtr = "off"
    /\ line_coding = DEFAULT /\ input_size = DEFAULT
    /\ sequence = 0 /\ control = Idle /\ next = 0 /\ occupied = {}
    /\ needed = {} /\ transfer = [f \in Functions |-> NOTHING] /\ speed = FALSE
    /\ armed = <<>> /\ events = <<>> /\ stalled = FALSE /\ data = DEFAULT
    /\ request = Unknown /\ stage = "idle" /\ number = 0
    /\ told = [f \in Functions |-> NOTHING] /\ given_up = {} /\ whole = {}
    /\ failed = FALSE /\ refused = 0
-----------------------------------------------------------------------------
(***************************************************************************)
(* The host and the controller.                                            *)
(***************************************************************************)
HasData(r) == r.kind \in {"line coding", "input size"}

HostSetup(r) ==
    /\ number < MaxRequests
    /\ number' = number + 1
    /\ request' = r /\ stage' = "setup"
    /\ stalled' = FALSE
    /\ events' = Append(events, [kind |-> "setup", request |-> r, sequence |-> number'])
    /\ UNCHANGED <<deviceVars, sequence, ringVars, failVars, notifyVars, armed, data, told, given_up, whole>>

HostReset ==
    /\ number < MaxRequests \/ (failed /\ number = MaxRequests)
    /\ number' = number + 1
    /\ stage' = "idle" /\ request' = Unknown
    /\ armed' = <<>>
    /\ events' = Append(events, [kind |-> "port"])
    /\ UNCHANGED <<deviceVars, sequence, ringVars, failVars, notifyVars, stalled, data, told, given_up, whole>>

Complete(code) ==
    events' = Append(events, [kind |-> "transfer", slot |-> Head(armed).slot, code |-> code,
                              sequence |-> Head(armed).sequence])

\* The next stage of the host's request; its data may be cut short.
HostStage(short) ==
    /\ armed # <<>> /\ ~stalled /\ stage = "setup"
    /\ Head(armed).sequence = number
    /\ short => HasData(request) /\ Head(armed).stage = "data"
    /\ armed' = Tail(armed)
    /\ IF HasData(request) /\ Head(armed).stage = "data"
       THEN /\ data' = IF short THEN TORN ELSE request.value
            /\ whole' = IF short THEN whole ELSE whole \cup {request}
       ELSE UNCHANGED <<data, whole>>
    /\ stage' = IF Head(armed).stage = "status" THEN "done" ELSE stage
    /\ Complete(IF short THEN "short" ELSE "success")
    /\ UNCHANGED <<deviceVars, sequence, ringVars, failVars, notifyVars, stalled, request, number, told,
                   given_up>>

SequenceError ==
    /\ armed # <<>> /\ Head(armed).sequence # number
    /\ \A k \in DOMAIN events : events[k].kind # "port"
    /\ armed' = Tail(armed)
    /\ Complete("sequence")
    /\ UNCHANGED <<deviceVars, sequence, ringVars, failVars, notifyVars, stalled, data, setupVars>>

HostSeesStall ==
    /\ stalled /\ stage = "setup"
    /\ stage' = "stalled"
    /\ UNCHANGED <<deviceVars, sequence, ringVars, failVars, notifyVars, armed, events, stalled, data,
                   request, number, told, given_up, whole>>

\* The host reads a notification.
HostNotified(f) ==
    /\ transfer[f] # NOTHING
    /\ told' = [told EXCEPT ![f] = transfer[f]]
    /\ ~ \E k \in DOMAIN events : events[k].kind = "notified" /\ events[k].function = f
    /\ events' = Append(events, [kind |-> "notified", function |-> f])
    /\ UNCHANGED <<deviceVars, sequence, ringVars, failVars, notifyVars, armed, stalled, data, request,
                   stage, number, given_up, whole>>
-----------------------------------------------------------------------------
(***************************************************************************)
(* setup: a new SETUP supersedes the previous request.                     *)
(***************************************************************************)
Event(kind) == events # <<>> /\ Head(events).kind = kind

\* queue: the descriptor of one stage, when the slots in used are taken.
Queue(name, phase, seq, used) ==
    /\ next \notin used
    /\ armed' = Append(armed, [slot |-> next, stage |-> name, sequence |-> seq])
    /\ control' = [slot |-> next, phase |-> phase]
    /\ next' = (next + 1) % Slots
    /\ occupied' = used \cup {next}
    /\ UNCHANGED failVars

\* The poll fails for want of a descriptor, and nothing is waited for.
RingFull(seq, used) ==
    /\ next \in used
    /\ control' = Idle
    /\ occupied' = used
    /\ failed' = TRUE /\ refused' = seq
    /\ UNCHANGED <<armed, next>>

QueueOrFail(name, phase, seq, used) == Queue(name, phase, seq, used) \/ RingFull(seq, used)

Stall(used) ==
    /\ stalled' = TRUE
    /\ control' = Idle
    /\ occupied' = used
    /\ UNCHANGED <<armed, next, failVars>>

\* Composite::setup: which requests are answered.
Known(r) ==
    \/ r.kind \in {"read", "full read", "configuration"}
    \/ r.kind \in {"dtr", "line coding", "alternate", "clear halt"} /\ configuration = "on"
    \/ r.kind = "input size" /\ configuration = "on" /\ alternate = "off"

\* What a request does at once: stop_data and the endpoints for a
\* configuration, ncm_alternate, the control lines, clear_endpoint_state.
Apply(r) ==
    LET configured == r.kind = "configuration"
        cleared == IF r.kind = "clear halt" THEN {r.value} ELSE {}
    IN  /\ configuration' = IF configured THEN r.value ELSE configuration
        /\ alternate' = IF configured THEN "off"
                        ELSE IF r.kind = "alternate" THEN r.value ELSE alternate
        /\ dtr' = IF configured THEN "off" ELSE IF r.kind = "dtr" THEN r.value ELSE dtr
        /\ input_size' = IF configured THEN DEFAULT ELSE input_size
        /\ transfer' = [f \in Functions |->
                          IF configured \/ f \in cleared THEN NOTHING ELSE transfer[f]]
        /\ needed' = CASE configured -> IF r.value = "on" THEN Functions ELSE {}
                       [] r.kind = "alternate" -> needed \cup {"ncm"}
                       [] r.kind = "dtr" /\ r.value # dtr -> needed \cup {"acm"}
                       [] OTHER -> needed
        /\ speed' = (speed /\ ~configured /\ r.kind # "alternate")
        /\ given_up' = IF configured THEN {}
                       ELSE given_up \cup {f \in cleared : transfer[f] # NOTHING}
        /\ UNCHANGED line_coding

Setup ==
    LET event == Head(events)
        r == event.request
        data_stage == HasData(r) \/ r.kind \in {"read", "full read"}
    IN  /\ Event("setup")
        /\ events' = Tail(events)
        /\ sequence' = event.sequence
        /\ IF Known(r)
           THEN /\ Apply(r)
                /\ QueueOrFail(IF data_stage THEN "data" ELSE "status", r, sequence', occupied)
                /\ stalled' = FALSE
           ELSE /\ Stall(occupied)
                /\ UNCHANGED <<deviceVars, notifyVars, given_up>>
        /\ data' = IF r.kind \in {"read", "full read"} THEN TORN ELSE data
        /\ UNCHANGED <<request, stage, number, told, whole>>
-----------------------------------------------------------------------------
(***************************************************************************)
(* transfer on ring zero.                                                  *)
(***************************************************************************)
Expected(slot) == control.slot = slot

\* Mutant: only the completion that is waited for frees its slot.
FreedWhenExpected(slot) == IF Expected(slot) THEN occupied \ {slot} ELSE occupied

\* complete
Freed(slot) == occupied \ {slot}

Taken(code) == code = "success"

\* Mutant: the status stage is queued and the data left where it is.
TakeDataLate(r) == UNCHANGED <<line_coding, input_size>>

TakeData(r) ==
    /\ line_coding' = IF r.kind = "line coding" THEN data ELSE line_coding
    /\ input_size' = IF r.kind = "input size" THEN data ELSE input_size

KeepSettings == UNCHANGED <<line_coding, input_size>>

\* The stage that follows in the phase of a request, after its completion.
Continue(phase, code, used) ==
    \/ /\ phase.kind = "full read"
       /\ QueueOrFail("data", Request("read", NOTHING), sequence, used)
       /\ KeepSettings /\ UNCHANGED stalled
    \/ /\ phase.kind = "read"
       /\ QueueOrFail("status", Unknown, sequence, used)
       /\ KeepSettings /\ UNCHANGED stalled
    \/ /\ HasData(phase) /\ Taken(code)
       /\ TakeData(phase)
       /\ QueueOrFail("status", Unknown, sequence, used)
       /\ UNCHANGED stalled
    \/ HasData(phase) /\ ~Taken(code) /\ Stall(used) /\ KeepSettings
    \/ /\ phase.kind \notin {"read", "full read"} /\ ~HasData(phase)
       /\ control' = Idle /\ occupied' = used
       /\ UNCHANGED <<armed, next, stalled, failVars>>
       /\ KeepSettings

Transfer ==
    LET event == Head(events)
        expected == event.slot \in occupied /\ Expected(event.slot)
    IN  /\ Event("transfer")
        /\ events' = Tail(events)
        /\ IF expected /\ event.code # "sequence"
           THEN Continue(control.phase, event.code, Freed(event.slot))
           ELSE /\ occupied' = Freed(event.slot)
                /\ control' = IF expected THEN Idle ELSE control
                /\ UNCHANGED <<next, armed, stalled, failVars>>
                /\ KeepSettings
        /\ UNCHANGED <<configuration, alternate, dtr, sequence, notifyVars, data, setupVars>>

\* The completion of a notification.
Notified ==
    /\ Event("notified")
    /\ events' = Tail(events)
    /\ transfer' = [transfer EXCEPT ![Head(events).function] = NOTHING]
    /\ UNCHANGED <<deviceVars, sequence, ringVars, failVars, needed, speed, armed, stalled, data,
                   setupVars>>

\* port: everything starts afresh.
Port ==
    /\ Event("port")
    /\ events' = Tail(events)
    /\ configuration' = "off" /\ alternate' = "off" /\ dtr' = "off"
    /\ line_coding' = DEFAULT /\ input_size' = DEFAULT
    /\ control' = Idle /\ next' = 0 /\ occupied' = {} /\ armed' = <<>>
    /\ needed' = {} /\ transfer' = [f \in Functions |-> NOTHING] /\ speed' = FALSE
    /\ stalled' = FALSE /\ failed' = FALSE
    /\ given_up' = {}
    /\ UNCHANGED <<sequence, data, request, stage, number, told, whole, refused>>
-----------------------------------------------------------------------------
(***************************************************************************)
(* arm_data: notifications that are due, one at a time per function.       *)
(***************************************************************************)
ArmAcm ==
    /\ events = <<>> /\ configuration = "on" /\ ~failed
    /\ "acm" \in needed /\ transfer["acm"] = NOTHING
    /\ transfer' = [transfer EXCEPT !["acm"] = dtr]
    /\ needed' = needed \ {"acm"} /\ given_up' = given_up \ {"acm"}
    /\ UNCHANGED <<deviceVars, sequence, ringVars, failVars, speed, armed, events, stalled, data, request,
                   stage, number, told, whole>>

\* notify_ncm: the connection, then its speed.
notify_ncm ==
    /\ events = <<>> /\ configuration = "on" /\ ~failed
    /\ transfer["ncm"] = NOTHING /\ ("ncm" \in needed \/ speed)
    /\ IF "ncm" \in needed
       THEN /\ transfer' = [transfer EXCEPT !["ncm"] = IF alternate = "on" THEN "up" ELSE "down"]
            /\ needed' = needed \ {"ncm"} /\ given_up' = given_up \ {"ncm"}
            /\ speed' = (alternate = "on")
       ELSE /\ transfer' = [transfer EXCEPT !["ncm"] = "speed"]
            /\ speed' = FALSE
            /\ UNCHANGED <<needed, given_up>>
    /\ UNCHANGED <<deviceVars, sequence, ringVars, failVars, armed, events, stalled, data, request, stage,
                   number, told, whole>>
-----------------------------------------------------------------------------
Handle == Setup \/ Transfer \/ Notified \/ Port
Arm == ArmAcm \/ notify_ncm
HostProgress == HostStage(FALSE) \/ SequenceError \/ HostSeesStall

PipeNext ==
    \/ \E r \in Requests : HostSetup(r)
    \/ HostReset \/ HostStage(TRUE) \/ HostProgress
    \/ \E f \in Functions : HostNotified(f)
    \/ Handle \/ Arm

\* Events are polled, and the host carries on with what it has begun.
PipeSpec ==
    /\ PipeInit /\ [][PipeNext]_pipeVars
    /\ WF_pipeVars(Handle) /\ WF_pipeVars(Arm) /\ WF_pipeVars(HostProgress)
    /\ \A f \in Functions : WF_pipeVars(HostNotified(f))
-----------------------------------------------------------------------------
PipeTypeOK ==
    /\ {configuration, alternate, dtr} \subseteq Switch
    /\ line_coding \in Codings /\ input_size \in Codings
    /\ next \in 0 .. Slots - 1 /\ occupied \subseteq 0 .. Slots - 1
    /\ needed \subseteq Functions

(***************************************************************************)
(* A COMPLETED REQUEST HAS TAKEN EFFECT.  When the host has seen the       *)
(* status stage of its latest request, the device is in the state that the *)
(* request asked for, whatever was left behind by requests given up        *)
(* before it.                                                              *)
(***************************************************************************)
CompletedMeansApplied ==
    stage = "done" =>
        CASE request.kind = "configuration" -> configuration = request.value
          [] request.kind = "alternate" -> alternate = request.value
          [] request.kind = "dtr" -> dtr = request.value
          [] request.kind = "line coding" -> line_coding = request.value
          [] request.kind = "input size" -> input_size = request.value
          [] OTHER -> TRUE

(***************************************************************************)
(* SETTINGS WERE SENT.  Line coding and input size only ever hold a value  *)
(* that the host sent in full for that very request: not one that was cut  *)
(* short, and not what another request left in the shared buffer.          *)
(***************************************************************************)
SettingsWereSent ==
    /\ line_coding = DEFAULT \/ Request("line coding", line_coding) \in whole
    /\ input_size = DEFAULT \/ Request("input size", input_size) \in whole

(***************************************************************************)
(* THE INVARIANT of endpoint zero: no request given up half way shows in a *)
(* later one.                                                              *)
(***************************************************************************)
PipeInvariant == PipeTypeOK /\ CompletedMeansApplied /\ SettingsWereSent

(***************************************************************************)
(* THE RING HAS ROOM.  A request given up leaves a descriptor behind until *)
(* the controller completes it and the completion is handled.  None leaves *)
(* two, and no slot is lost: a SETUP finds the ring full only while as     *)
(* many earlier requests as the ring has slots have one outstanding, and   *)
(* every later stage of a request finds room.                              *)
(***************************************************************************)
Completions == {k \in DOMAIN events : events[k].kind = "transfer"}
Outstanding ==
    {armed[k].sequence : k \in DOMAIN armed} \cup {events[k].sequence : k \in Completions}

RingHasRoom ==
    /\ (\A k \in DOMAIN events : events[k].kind # "port")
         => Cardinality(occupied) = Cardinality(Outstanding)
    /\ next \in occupied => occupied = 0 .. Slots - 1
    /\ Event("transfer") /\ Head(events).code = "success" =>
         next \notin occupied \ {Head(events).slot}

(***************************************************************************)
(* EVERY REQUEST IS ANSWERED.  A request that the host does not give up    *)
(* ends with a status stage or a stall, unless it found the ring full.     *)
(***************************************************************************)
EveryRequestIsAnswered == stage = "setup" ~> (stage # "setup" \/ refused = number)

(***************************************************************************)
(* THE HOST LEARNS THE STATE.  While the device stays configured and has   *)
(* not failed for want of a descriptor, the host is told the current DTR   *)
(* state and the current state of the network link, even if they change    *)
(* while a notification is under way.  Only a notification that the host   *)
(* itself threw away is not repeated.                                      *)
(***************************************************************************)
Link == IF alternate = "on" THEN "speed" ELSE "down"
Told == /\ "acm" \in given_up \/ told["acm"] = dtr
        /\ "ncm" \in given_up \/ told["ncm"] = Link
HostLearnsState == <>[](configuration = "on" /\ ~failed) => <>[]Told

(***************************************************************************)
(* THE HOST IS SERVED: the ring is full only when the host has given up    *)
(* that many requests at once, other requests are answered, and the host   *)
(* learns the state of the device.                                         *)
(***************************************************************************)
ShortOfRoom == ~RingHasRoom
HostIsServed == ~<>ShortOfRoom /\ EveryRequestIsAnswered /\ HostLearnsState
=============================================================================
