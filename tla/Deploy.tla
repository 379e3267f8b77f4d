------------------------------- MODULE Deploy -------------------------------
(***************************************************************************)
(* The host tool's loader sessions (switchvisorctl/src/main.rs) over the   *)
(* loader's bulk endpoints, composed with the loader (module Loader).      *)
(*                                                                         *)
(* Between the two sides stand one OUT buffer (`rx`), the service's        *)
(* loader_output (Loader's `output`) and one IN transfer (`tx`): the       *)
(* device takes a request only when loader_output is empty and hands an    *)
(* answer to the endpoint only when the endpoint is idle.  Opening and     *)
(* closing the interface on the host clears none of them; a port reset     *)
(* clears the two transfers (stop_data) and not loader_output.  A session  *)
(* numbers its requests from 1.  It may be killed at any point, lose its   *)
(* patience (TIMEOUT) on either transfer, or find its file changed.  A     *)
(* kill in the middle of an OUT transfer is left out.                      *)
(***************************************************************************)
EXTENDS Loader, SequencesExt

CONSTANTS
    Manifests,      \* prepared bundles by name: [descriptor, images], an image
                    \* [descriptor, chunks]
    Commands,       \* opcodes of single-request sessions
    MaxSessions     \* bound on the sessions of a behaviour

ASSUME DeployAssumption ==
    /\ Commands \subseteq {"Hello", "Status", "Abort", "Boot"}
    /\ None \notin DOMAIN Manifests
    /\ \A n \in DOMAIN Manifests :
          /\ Manifests[n].descriptor \in OfferedBundles
          /\ \A i \in ToSet(Manifests[n].images) :
                i.descriptor \in OfferedImages /\ ToSet(i.chunks) \subseteq Chunks

VARIABLES
    rx, tx,         \* [id, request] in the OUT buffer, [id, answer] in the IN transfer
    output_id,      \* request_id of the answer in `output`
    session,        \* the running session
    report,         \* how the last one ended
    sessions        \* how many were opened

wireVars == <<rx, tx, output_id>>
hostVars == <<session, report, sessions>>
deployVars == <<vars, wireVars, hostVars>>

-----------------------------------------------------------------------------
(***************************************************************************)
(* What a session sends.                                                   *)
(***************************************************************************)
Plain(opcode) == [opcode |-> opcode, argument |-> None]

\* Every chunk but the last fills the buffer.
DataRequests(chunks) ==
    [n \in DOMAIN chunks |->
        [opcode |-> "Data",
         argument |-> [offset |-> (n - 1) * Len(chunks[1]), body |-> chunks[n]]]]

ImageRequests(image) ==
    <<[opcode |-> "BeginImage", argument |-> image.descriptor]>>
    \o DataRequests(image.chunks) \o <<Plain("EndImage")>>

transfer_bundle(manifest, with_boot) ==
    <<Plain("Hello"), [opcode |-> "BeginBundle", argument |-> manifest.descriptor]>>
    \o FlattenSeq([n \in DOMAIN manifest.images |-> ImageRequests(manifest.images[n])])
    \o <<Plain("CommitBundle")>>
    \o IF with_boot THEN <<Plain("Boot")>> ELSE <<>>

\* LoaderTransport::open, by a transfer or by loader_command.  `fresh`:
\* nothing is left of earlier sessions.  `cause`: what has gone wrong outside
\* the protocol.
Open(manifest, last) ==
    /\ session = None
    /\ sessions < MaxSessions
    /\ available
    /\ sessions' = sessions + 1
    /\ session' = [manifest |-> manifest, last |-> last, step |-> 1, id |-> 1,
                   phase |-> "send", closing |-> FALSE, cause |-> None,
                   fresh |-> rx = None /\ tx = None /\ output = None /\ state = "Idle"]
    /\ UNCHANGED <<vars, wireVars, report>>

OpenTransfer ==
    \E n \in DOMAIN Manifests, last \in {"CommitBundle", "Boot"} : Open(n, last)

OpenCommand == \E opcode \in Commands : Open(None, opcode)

\* What a session sends; `last` is its last request.
Requests(s) ==
    IF s.closing THEN <<Plain("Abort")>>
    ELSE IF s.manifest = None THEN <<Plain(s.last)>>
    ELSE transfer_bundle(Manifests[s.manifest], s.last = "Boot")

Sending(s) == Requests(s)[s.step]

\* upload_bl33, deploy and loader_command end.
Finish(s, result) ==
    /\ session' = None
    /\ report' = [manifest |-> s.manifest, last |-> s.last,
                  cause |-> s.cause, result |-> result]

\* Mutant: an error ends the session at once.
FailSilent(s) == Finish(s, "error")

\* The transfer's error path: once BeginBundle was accepted, Abort is sent and
\* its own result ignored.
Fail(s) ==
    IF s.closing \/ s.manifest = None \/ s.step <= 2
    THEN Finish(s, "error")
    ELSE /\ session' = [s EXCEPT !.step = 1, !.phase = "send", !.closing = TRUE]
         /\ UNCHANGED report
-----------------------------------------------------------------------------
(***************************************************************************)
(* LoaderTransport::request, an OUT and an IN transfer.                    *)
(***************************************************************************)
SendRequest ==
    /\ session # None
    /\ session.phase = "send"
    /\ rx = None
    /\ rx' = [id |-> session.id, request |-> Sending(session)]
    /\ session' = [session EXCEPT !.phase = "receive", !.id = @ + 1]
    /\ UNCHANGED <<vars, tx, output_id, report, sessions>>

\* Mutant: any answer will do.
AcceptsAny(s, id, answer) == answer.code = "Ok"

\* The checks of request and, for Data, of the acknowledged offset.
Accepts(s, id, answer) ==
    LET sent == Sending(s)
    IN  /\ id = s.id - 1
        /\ answer.opcode = sent.opcode
        /\ answer.code = "Ok"
        /\ sent.opcode = "Data" =>
              answer.argument.received = sent.argument.offset + Len(sent.argument.body)

ReceiveAnswer ==
    /\ session # None
    /\ session.phase = "receive"
    /\ tx # None
    /\ tx' = None
    /\ IF session.closing THEN Finish(session, "error")
       ELSE IF ~Accepts(session, tx.id, tx.answer) THEN Fail(session)
       ELSE IF session.step = Len(Requests(session)) THEN Finish(session, "ok")
       ELSE session' = [session EXCEPT !.step = @ + 1, !.phase = "send"] /\ UNCHANGED report
    /\ UNCHANGED <<vars, rx, output_id, sessions>>

\* Mutant: the OUT transfer has no deadline.
TimeoutIn ==
    /\ session # None
    /\ session.phase = "receive"
    /\ tx = None
    /\ Fail([session EXCEPT !.cause = "timeout"])
    /\ UNCHANGED <<vars, wireVars, sessions>>

\* The buffer stays full, or no answer comes, for TIMEOUT.
Timeout ==
    /\ session # None
    /\ IF session.phase = "send" THEN rx # None ELSE tx = None
    /\ Fail([session EXCEPT !.cause = "timeout"])
    /\ UNCHANGED <<vars, wireVars, sessions>>

\* A file cannot be opened or read, or its length has changed.
FileChanged ==
    /\ session # None
    /\ session.phase = "send"
    /\ Sending(session).opcode \in {"Data", "EndImage"}
    /\ Fail([session EXCEPT !.cause = "file"])
    /\ UNCHANGED <<vars, wireVars, sessions>>

\* The process ends; an answer on its way to it may be lost.
Kill ==
    /\ session # None
    /\ Finish([session EXCEPT !.cause = "kill"], "killed")
    /\ tx' = None \/ tx' = tx
    /\ UNCHANGED <<vars, rx, output_id, sessions>>

\* The cable is pulled or the port reset: stop_data, clear_endpoint_state.
PortReset ==
    /\ rx' = None
    /\ tx' = None
    /\ IF session = None THEN UNCHANGED <<session, report>>
       ELSE Finish([session EXCEPT !.cause = "reset"], "error")
    /\ UNCHANGED <<vars, output_id, sessions>>
-----------------------------------------------------------------------------
(***************************************************************************)
(* The device.                                                             *)
(***************************************************************************)
Handle(request) ==
    LET a == request.argument
    IN  \/ request.opcode \in {"Hello", "Status"} /\ Inspect(request.opcode, TRUE)
        \/ request.opcode = "BeginBundle" /\ BeginBundle(a, TRUE)
        \/ request.opcode = "BeginImage" /\ BeginImage(a, TRUE)
        \/ request.opcode = "Data" /\ Data(a.offset, TRUE, a.body)
        \/ request.opcode = "EndImage" /\ EndImage(TRUE)
        \/ request.opcode = "CommitBundle" /\ CommitBundle(TRUE)
        \/ request.opcode = "Abort" /\ Abort(TRUE)
        \/ request.opcode = "Boot" /\ Boot(TRUE)

\* service_loader takes a request.
Serve ==
    /\ rx # None
    /\ Handle(rx.request)
    /\ output_id' = rx.id
    /\ rx' = None
    /\ UNCHANGED <<tx, hostVars>>

\* transmit_output, at once or at a later poll, when the endpoint is idle.
Answer ==
    /\ tx = None
    /\ Transmit
    /\ tx' = [id |-> output_id, answer |-> output]
    /\ UNCHANGED <<rx, output_id, hostVars>>

Monitor == Preboot /\ UNCHANGED <<wireVars, hostVars>>
-----------------------------------------------------------------------------
DeployInit ==
    /\ LoaderInit
    /\ rx = None
    /\ tx = None
    /\ output_id = 0
    /\ session = None
    /\ report = None
    /\ sessions = 0

DeployNext ==
    \/ OpenTransfer \/ OpenCommand \/ SendRequest \/ ReceiveAnswer
    \/ Timeout \/ FileChanged \/ Kill \/ PortReset
    \/ Serve \/ Answer \/ Monitor

\* The host runs its session and its timer; the device is polled; CPU 0 hands
\* over.
DeployFairness ==
    /\ WF_deployVars(SendRequest) /\ WF_deployVars(ReceiveAnswer) /\ WF_deployVars(Timeout)
    /\ WF_deployVars(Serve) /\ WF_deployVars(Answer)
    /\ WF_deployVars(Monitor /\ enter_guest)

DeploySpec == DeployInit /\ [][DeployNext]_deployVars /\ DeployFairness
-----------------------------------------------------------------------------
Ends(result) == session # None /\ session' = None /\ report'.result = result

Content(image) == FlattenSeq(image.chunks)

(***************************************************************************)
(* REPORTS ARE TRUE.  "booted" is printed only when the loader has booted  *)
(* this session's bundle, "ready" only when it holds it ready, its bytes   *)
(* in memory, whatever earlier sessions left in the pipeline.  Request     *)
(* numbers are not unique (every session starts at 1); the argument is     *)
(* that the pipeline holds at most three stale answers and the shortest    *)
(* transfer takes six requests (main.rs:232-291, 312-382).                 *)
(***************************************************************************)
ReportsAreTrue ==
    [][Ends("ok") /\ session.manifest # None =>
        LET m == Manifests[session.manifest]
        IN  /\ IF session.last = "Boot"
               THEN m.descriptor \in {boot, launched}
               ELSE state = "Ready" /\ bundle = m.descriptor
            /\ \A n \in DOMAIN m.images :
                  LET i == m.images[n]
                  IN  Slice(memory, i.descriptor.address, i.descriptor.file_size)
                        = Content(i)]_deployVars

(***************************************************************************)
(* A FRESH TRANSFER SUCCEEDS, OR IS DISCARDED. On a loader that is idle    *)
(* and a pipeline that is empty a transfer fails only when the process is  *)
(* killed, a timer ends, the port is reset, a file changes, or the preboot *)
(* window ends before BeginBundle (main.rs:312-382 against                 *)
(* loader.rs:388-586). When a file turns out to have changed, the session  *)
(* leaves the loader idle and the pipeline empty: the next one is fresh    *)
(* again (main.rs:371-374).                                                *)
(***************************************************************************)
FreshTransferSucceeds ==
    [][/\ session # None /\ session.fresh /\ session.manifest # None
       /\ Ends("error")
       => /\ report'.cause # None \/ phase # "preboot"
          /\ report'.cause = "file" =>
               state = "Idle" /\ rx = None /\ tx' = None /\ output = None]_deployVars

(***************************************************************************)
(* EVERY SESSION ENDS, also one that finds the pipeline jammed: three      *)
(* sessions that never read their answers fill all of it, and no request   *)
(* leaves the host any more (main.rs:252-262).                             *)
(***************************************************************************)
SessionEnds == session # None ~> session = None

(***************************************************************************)
(* "`abort` discards the transfer and permits a new one" (README.md:309):  *)
(* once a transfer has begun, a transfer that runs undisturbed after an    *)
(* abort that ran undisturbed does not fail while the loader may accept.   *)
(***************************************************************************)
AbortPermitsNewTransfer ==
    [][/\ claimed /\ session # None /\ session.manifest # None
       /\ Ends("error") /\ report'.cause = None
       /\ report # None /\ report.cause = None /\ report.last = "Abort"
       => phase # "preboot" \/ state = "Disabled"]_deployVars
=============================================================================
