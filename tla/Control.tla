------------------------------- MODULE Control ------------------------------
(***************************************************************************)
(* The control port: the line parser (control.rs), the service that reads  *)
(* lines and writes replies (service_control and control_reply in usb.rs), *)
(* the reset that a reboot command leaves behind, and the host tool's      *)
(* control command (switchvisorctl/src/main.rs).                           *)
(*                                                                         *)
(* The tool writes the command and its newline as two transfers and may be *)
(* killed or time out after each; a person at a terminal may type any      *)
(* line.  A reply is a sequence of lines, and one of them the unit of      *)
(* transfers and buffers.  Service runs under the USB lock; the reset is   *)
(* made after the lock is released, so that another CPU may serve in       *)
(* between.                                                                *)
(***************************************************************************)
EXTENDS Integers, SequencesExt

CONSTANTS
    MAX_LINE_SIZE,
    OutputSize,         \* capacity of control_output, in lines
    Typed,              \* lines that a person may type
    MaxSessions         \* bound on sessions

ASSUME ControlAssumption ==
    MAX_LINE_SIZE \in Nat \ {0} /\ OutputSize \in Nat \ {0} /\ MaxSessions \in Nat

LF == "newline"
CR == "return"
BAD == "control"        \* not ASCII, or a control character
NONE == "none"

\* Commands, with short spellings, and the lines of their replies.
Spelling == [ping |-> <<"p">>, status |-> <<"s">>, reboot |-> <<"r">>, rcm |-> <<"r", "c">>]
Commands == DOMAIN Spelling
Reboots == {"reboot", "rcm"}
Errors == {"invalid-encoding", "line-too-long", "unknown-command"}

control_reply(result) ==
    CASE result \in Reboots -> <<"OK">>
      [] result \in {"ping", "status"} -> <<result, "OK">>
      [] OTHER -> <<"ERR">>

VARIABLES
    bytes, error,           \* struct Parser
    control_output, tx,     \* the reply, what is left of it and under way
    rx, out_pipe,           \* the received transfer and those to come
    control_dtr,            \* dtr of Channel::Control
    reset,                  \* RESET
    serving,                \* a CPU has released the lock and not looked at RESET
    down,                   \* the reset that was made
    session, command, phase, reply, verdict,        \* the host's tool
    killed,                 \* an earlier session ended before its answer
    taken, written          \* history: bytes parsed, reply lines produced

parserVars == <<bytes, error>>
hostVars == <<session, command, phase, reply, verdict, killed>>
vars == <<parserVars, control_output, tx, rx, out_pipe, control_dtr, reset, serving, down,
          hostVars, taken, written>>

ControlInit ==
    /\ bytes = <<>> /\ error = NONE
    /\ control_output = <<>> /\ tx = <<>> /\ rx = <<>> /\ out_pipe = <<>>
    /\ control_dtr = FALSE /\ reset = NONE /\ serving = FALSE /\ down = NONE
    /\ session = 0 /\ command = <<>> /\ phase = "closed" /\ reply = <<>> /\ verdict = NONE
    /\ killed = FALSE /\ taken = <<>> /\ written = <<>>
-----------------------------------------------------------------------------
(***************************************************************************)
(* Parser::push on a state [bytes, error, result].                         *)
(***************************************************************************)
WithoutReturn(s) == IF s # <<>> /\ Last(s) = CR THEN Front(s) ELSE s

CommandOf(line) ==
    IF \E c \in Commands : Spelling[c] = line
    THEN CHOOSE c \in Commands : Spelling[c] = line
    ELSE "unknown-command"

LineEnd(p) ==
    [bytes |-> <<>>, error |-> NONE,
     result |-> IF p.error # NONE THEN p.error
                ELSE IF WithoutReturn(p.bytes) = <<>> THEN NONE
                ELSE CommandOf(WithoutReturn(p.bytes))]

push(p, byte) ==
    IF byte = LF THEN LineEnd(p)
    ELSE IF p.error # NONE THEN p
    ELSE IF byte = BAD THEN [p EXCEPT !.error = "invalid-encoding"]
    ELSE IF Len(p.bytes) = MAX_LINE_SIZE THEN [p EXCEPT !.error = "line-too-long"]
    ELSE [p EXCEPT !.bytes = Append(@, byte)]

\* The loop of service_control: bytes are read until one of them ends a
\* line with a result.
ReadLine(input) ==
    FoldLeft(LAMBDA p, byte : IF p.result # NONE THEN p
                              ELSE [used |-> p.used + 1] @@ push(p, byte),
             [bytes |-> bytes, error |-> error, result |-> NONE, used |-> 0], input)
-----------------------------------------------------------------------------
(***************************************************************************)
(* service_control and reset_if_requested.                                 *)
(***************************************************************************)
\* poll: a completed transfer is received when the last one has been read.
Received == IF rx = <<>> /\ out_pipe # <<>> THEN Head(out_pipe) ELSE rx
Remaining == IF rx = <<>> /\ out_pipe # <<>> THEN Tail(out_pipe) ELSE out_pipe

\* writeln: a line that does not fit is dropped without notice.
Write(output, lines) ==
    SubSeq(output \o lines, 1, Min({OutputSize, Len(output) + Len(lines)}))

\* transmit_output: one transfer at a time, to an open port.
Transmit(output) ==
    IF control_dtr /\ tx = <<>> /\ output # <<>>
    THEN tx' = <<Head(output)>> /\ control_output' = Tail(output)
    ELSE control_output' = output /\ UNCHANGED tx

\* Mutant: RESET follows the last command served.
RequestedLast(result) == IF result \in Reboots THEN result ELSE NONE

\* RESET after a line.
Requested(result) == IF result \in Reboots THEN result ELSE reset

\* Mutant: lines are read while a reply is still waiting.
BusyNever == FALSE

Busy == control_output # <<>>

Service ==
    /\ down = NONE
    /\ IF Busy
       THEN /\ Transmit(control_output)
            /\ rx' = Received /\ out_pipe' = Remaining
            /\ UNCHANGED <<parserVars, reset, taken, written>>
       ELSE \E p \in {ReadLine(Received)} :
              \E output \in {IF p.result = NONE THEN control_output
                             ELSE Write(control_output, control_reply(p.result))} :
                /\ bytes' = p.bytes /\ error' = p.error
                /\ rx' = SubSeq(Received, p.used + 1, Len(Received)) /\ out_pipe' = Remaining
                /\ reset' = Requested(p.result)
                /\ Transmit(output)
                /\ taken' = taken \o SubSeq(Received, 1, p.used)
                /\ written' = written \o SubSeq(output, Len(control_output) + 1, Len(output))
    /\ serving' = TRUE
    /\ UNCHANGED <<control_dtr, down, hostVars>>

reset_if_requested ==
    /\ serving /\ down = NONE
    /\ serving' = FALSE
    /\ down' = reset
    /\ UNCHANGED <<parserVars, control_output, tx, rx, out_pipe, control_dtr, reset, hostVars, taken,
                   written>>
-----------------------------------------------------------------------------
(***************************************************************************)
(* The host: control() of the tool, and a person at a terminal.            *)
(***************************************************************************)
\* The reply ends with a line OK or ERR.
Final(line) == line \in {"OK", "ERR"}
Answered == reply # <<>> /\ Final(Last(reply))

Open(line) ==
    /\ phase = "closed" /\ session < MaxSessions /\ down = NONE
    /\ session' = session + 1
    /\ killed' = (killed \/ (session > 0 /\ ~Answered))
    /\ command' = line /\ phase' = "open" /\ reply' = <<>> /\ verdict' = NONE
    /\ control_dtr' = TRUE
    /\ UNCHANGED <<parserVars, control_output, tx, rx, out_pipe, reset, serving, down, taken,
                   written>>

\* The two writes.
WriteCommand ==
    /\ phase = "open" /\ down = NONE
    /\ out_pipe' = Append(out_pipe, command)
    /\ phase' = "newline"
    /\ UNCHANGED <<parserVars, control_output, tx, rx, control_dtr, reset, serving, down, session,
                   command, reply, verdict, killed, taken, written>>

WriteNewline ==
    /\ phase = "newline" /\ down = NONE
    /\ out_pipe' = Append(out_pipe, <<LF>>)
    /\ phase' = "reading"
    /\ UNCHANGED <<parserVars, control_output, tx, rx, control_dtr, reset, serving, down, session,
                   command, reply, verdict, killed, taken, written>>

Read ==
    /\ phase = "reading" /\ tx # <<>>
    /\ reply' = reply \o tx
    /\ tx' = <<>>
    /\ IF Final(Last(tx))
       THEN phase' = "closed" /\ verdict' = Last(tx) /\ control_dtr' = FALSE
       ELSE UNCHANGED <<phase, verdict, control_dtr>>
    /\ UNCHANGED <<parserVars, control_output, rx, out_pipe, reset, serving, down, session,
                   command, killed, taken, written>>

\* A write or a read fails: the session ends without its answer, and only a
\* reboot whose lines have been written is a success.
Fail ==
    /\ phase # "closed"
    /\ phase' = "closed" /\ control_dtr' = FALSE
    /\ verdict' = IF phase = "reading" /\ \E c \in Reboots : Spelling[c] = command
                  THEN "OK" ELSE "ERR"
    /\ UNCHANGED <<parserVars, control_output, tx, rx, out_pipe, reset, serving, down, session,
                   command, reply, killed, taken, written>>

\* The device went away, or it is there and does not answer in time.
Vanished == down # NONE /\ Fail
TimedOut == down = NONE /\ Fail

Kill ==
    /\ phase # "closed"
    /\ phase' = "closed" /\ control_dtr' = FALSE /\ verdict' = "killed"
    /\ UNCHANGED <<parserVars, control_output, tx, rx, out_pipe, reset, serving, down, session,
                   command, reply, killed, taken, written>>

ControlNext ==
    \/ Service \/ reset_if_requested
    \/ \E line \in Typed \cup {Spelling[c] : c \in Commands} : Open(line)
    \/ WriteCommand \/ WriteNewline \/ Read \/ Vanished \/ TimedOut \/ Kill

\* The device is polled, and a tool that runs goes on.
ControlSpec ==
    /\ ControlInit /\ [][ControlNext]_vars
    /\ WF_vars(Service) /\ WF_vars(reset_if_requested)
    /\ WF_vars(WriteCommand) /\ WF_vars(WriteNewline) /\ WF_vars(Read) /\ WF_vars(Vanished)
-----------------------------------------------------------------------------
ControlTypeOK ==
    /\ Len(bytes) <= MAX_LINE_SIZE /\ error \in Errors \cup {NONE}
    /\ Len(control_output) <= OutputSize /\ Len(tx) <= 1
    /\ {reset, down} \subseteq Reboots \cup {NONE}

(***************************************************************************)
(* What a line means, read as a whole: the first byte that is bad or does  *)
(* not fit decides the error of a line; a line without one is a command,   *)
(* an unknown one, or empty and then without an answer.                    *)
(***************************************************************************)
Wrong(line) == {i \in DOMAIN line : line[i] = BAD \/ i > MAX_LINE_SIZE}
Meaning(line) ==
    IF Wrong(line) # {}
    THEN IF line[Min(Wrong(line))] = BAD THEN <<"invalid-encoding">> ELSE <<"line-too-long">>
    ELSE IF WithoutReturn(line) = <<>> THEN <<>>
    ELSE IF \E c \in Commands : Spelling[c] = WithoutReturn(line)
         THEN <<CHOOSE c \in Commands : Spelling[c] = WithoutReturn(line)>>
         ELSE <<"unknown-command">>

\* The meanings of the complete lines of the bytes parsed.
Ends == {i \in DOMAIN taken : taken[i] = LF}
LineTo(i) == SubSeq(taken, Max({0} \cup {j \in Ends : j < i}) + 1, i - 1)
Results == FlattenSeq([k \in 1 .. Cardinality(Ends) |->
                          Meaning(LineTo(SetToSortSeq(Ends, LAMBDA a, b : a < b)[k]))])

(***************************************************************************)
(* EVERY LINE IS ANSWERED ONCE, IN ORDER AND IN FULL.  The reply lines     *)
(* produced so far are those of the lines parsed so far: an error is about *)
(* its own line, no line is skipped or answered twice, and no part of a    *)
(* reply is lost because the output buffer still holds an earlier one.     *)
(***************************************************************************)
LinesAreAnswered ==
    written = FlattenSeq([k \in DOMAIN Results |-> control_reply(Results[k])])

(***************************************************************************)
(* A RESET WAS ASKED FOR by a complete reboot line of that kind.           *)
(***************************************************************************)
ResetWasAsked == down # NONE => down \in ToSet(Results)

(***************************************************************************)
(* A SESSION READS ITS OWN REPLY, all of it, if every earlier session read *)
(* its own.  After a session that was killed or timed out, the next one    *)
(* reads what that one left unread.                                        *)
(***************************************************************************)
OwnReply ==
    ~killed /\ Answered /\ down = NONE =>
      \A c \in Commands : command = Spelling[c] => reply = control_reply(c)

(***************************************************************************)
(* THE INVARIANT of the control port: what was parsed, what was answered   *)
(* and what was reset belong together.                                     *)
(***************************************************************************)
ControlInvariant ==
    ControlTypeOK /\ LinesAreAnswered /\ ResetWasAsked /\ OwnReply

(***************************************************************************)
(* EVERY SESSION ENDS.  A session of the tool that is not killed gets an   *)
(* answer, also when earlier sessions left half a line or an unread reply  *)
(* behind: nothing here depends on a timeout of the tool.                  *)
(***************************************************************************)
SessionsEnd ==
    (phase = "reading" /\ \E c \in Commands : command = Spelling[c]) ~> (phase = "closed")

(***************************************************************************)
(* A REBOOT IS CARRIED OUT.  A reboot command that reports success resets  *)
(* the device, whatever else the CPUs serve before they look at RESET, and *)
(* also when the success is a read that timed out.  Again every earlier    *)
(* session must have read its answer: after one that did not, the tool may *)
(* take the answer left behind for its own.                                *)
(***************************************************************************)
RebootIsCarriedOut ==
    (~killed /\ verdict = "OK" /\ \E c \in Reboots : command = Spelling[c]) ~> (down # NONE)

(***************************************************************************)
(* THE TOOL IS SERVED: its sessions end and the reboot it asks for         *)
(* happens.                                                                *)
(***************************************************************************)
ToolIsServed == SessionsEnd /\ RebootIsCarriedOut
=============================================================================
