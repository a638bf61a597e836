----------------------------- MODULE Projection -----------------------------
(***************************************************************************)
(* The projection of a course: requests of the page pass a gate one at a   *)
(* time (api.py), each runs its command in a thread of the supervisor,     *)
(* which keeps one native host behind an authenticated pipe                *)
(* (projection_host.py), sends it the bundle of the published course       *)
(* (projection_bundle.py) and verifies its receipts.  A request that runs  *)
(* out of time cancels the current command by closing the pipe, and waits  *)
(* for its thread.  Hosts hang, crash and invalidate their windows.        *)
(*                                                                         *)
(* Simplifications:                                                        *)
(*  - a pipe delivers whole frames in order, and is authenticated: sequence *)
(*    numbers and codes of frames are never wrong while it lasts;          *)
(*  - the assets of a bundle are one transfer, which is whole or fails;    *)
(*  - the events of evidence are files nobody reads back.                  *)
(***************************************************************************)
EXTENDS NativeHost, FiniteSets

CONSTANTS Requests,   \* requests under way at a time
          Ids,        \* identifiers of the commands the page sends
          Command,    \* the command of each identifier
          After,      \* the commands the page has an answer to before it sends one
          MaxHosts,   \* bound: host processes launched
          MaxCalls,   \* bound: how often a request is made, of each
          MaxFrame,   \* bound: frames a presentation turns to
          MaxFaults   \* bound: commands cancelled, windows lost and hosts crashed

Hosts == 1 .. MaxHosts

ASSUME ProjectionAssumption ==
  /\ IsFiniteSet(Requests) /\ 0 \notin Ids
  /\ MaxHosts \in Nat /\ MaxCalls \in [Requests -> Nat] /\ MaxFrame \in Nat /\ MaxFaults \in Nat
  /\ \A i \in Ids :
       /\ Command[i].kind \in {"detect", "open", "assign", "fullscreen", "verify", "close"}
       /\ Command[i].generation \in Nat /\ Command[i].swap \in BOOLEAN
       /\ After[i] \subseteq Ids
       /\ (Command[i].session = NoSession) <=> (Command[i].kind = "detect")

VARIABLES
  client,     \* each request: where its task is, and its command
  op,         \* each request: where its thread is, and the host it talks to
  closing,    \* each request: the host its cancellation closes
  transport,  \* _transport: the host of the supervisor, 0 when there is none
  receipts,   \* _receipts: by command, the host that gave it, 0 when there is none
  closed,     \* _closed
  stopping,   \* the host shutdown() closes
  proc,       \* the host processes
  native,     \* their state
  inbox, outbox,  \* the pipe of each host
  asked,      \* hosts that are asking for a witness
  calls, faults

supervisorVars == <<op, closing, transport, receipts, closed, stopping>>
hostVars == <<proc, native, inbox, outbox, asked>>
vars == <<client, supervisorVars, hostVars, calls, faults>>

NoReply == [command |-> 0, ready |-> FALSE, accepted |-> FALSE, generation |-> 0]
Idle == [pc |-> "none", host |-> 0]

Init ==
  /\ client = [p \in Requests |-> [pc |-> "idle", command |-> 0]]
  /\ op = [p \in Requests |-> Idle]
  /\ closing = [p \in Requests |-> 0]
  /\ transport = 0
  /\ receipts = [i \in Ids |-> 0]
  /\ closed = FALSE
  /\ stopping = 0
  /\ proc = [h \in Hosts |-> "unborn"]
  /\ native = [h \in Hosts |-> Started]
  /\ inbox = [h \in Hosts |-> "none"]
  /\ outbox = [h \in Hosts |-> NoReply]
  /\ asked = {}
  /\ calls = [p \in Requests |-> 0]
  /\ faults = 0

-----------------------------------------------------------------------------
(* projection_host.py: the transport *)

Up(h) == h # 0 /\ proc[h] = "up"

\* A transport that is being closed accepts nothing, though its process may live
\* for some seconds.
BeingClosed(h) ==
  \/ \E p \in Requests : closing[p] = h \/ (op[p].pc \in {"fail", "close"} /\ op[p].host = h)
  \/ stopping = h
IsAlive(h) == Up(h) /\ ~BeingClosed(h)

\* close(): the pipe is closed, and the job object ends the process, with its
\* state and what it has not read; what it has written can still be received.
Ended(h) ==
  /\ proc' = [proc EXCEPT ![h] = "dead"]
  /\ native' = [native EXCEPT ![h] = Started]
  /\ inbox' = [inbox EXCEPT ![h] = "none"]
  /\ asked' = asked \ {h}
  /\ UNCHANGED outbox

-----------------------------------------------------------------------------
(* projection_host.py: a command in its thread *)

IdOf(p) == client[p].command
CommandOf(p) == Command[IdOf(p)]
At(p, pc) == op[p].pc = pc
Go(p, pc) == op' = [op EXCEPT ![p].pc = pc]

\* _execute, under the lock of the supervisor: a command that has a receipt is
\* answered with it, while there is a host.
Replays(p) ==
  /\ receipts[IdOf(p)] # 0
  /\ CommandOf(p).kind = "close" \/ (transport # 0 /\ IsAlive(transport))

Begin(p) ==
  /\ At(p, "queued")
  /\ \A q \in Requests : op[q].pc \in {"none", "queued", "done"}
  /\ \/ (closed \/ Replays(p)) /\ Go(p, "done") /\ UNCHANGED receipts
     \/ /\ ~closed /\ ~Replays(p) /\ receipts[IdOf(p)] # 0
        /\ Go(p, "done")
        /\ receipts' = [receipts EXCEPT ![IdOf(p)] = 0]
     \/ ~closed /\ receipts[IdOf(p)] = 0 /\ Go(p, "ensure") /\ UNCHANGED receipts
  /\ UNCHANGED <<client, closing, transport, closed, stopping, hostVars, calls, faults>>

\* A transport is closed by the one thread that gets it.
TakeTransport(p, pc) ==
  /\ op' = [op EXCEPT ![p] = [pc |-> pc, host |-> transport]]
  /\ transport' = 0

\* The failure of a command closes the transport.
Fail(p) ==
  /\ TakeTransport(p, "fail")
  /\ UNCHANGED <<client, closing, receipts, closed, stopping, calls, faults>>

\* HostExecutablePolicy: the executable is locked, and is the installed one, or
\* nothing is started.
Refused(p) == Fail(p) /\ UNCHANGED hostVars

\* _cleanup_failed_launch: a process that was started, and not handshaken, is ended.
Undone(p, h) ==
  /\ proc' = [proc EXCEPT ![h] = "dead"]
  /\ Fail(p) /\ UNCHANGED <<native, inbox, outbox, asked>>

\* _ensure_transport with InstalledHostTransportFactory: a host is launched and
\* handshaken before anybody else can see it.
Launched(p, h) ==
  /\ transport' = h
  /\ proc' = [proc EXCEPT ![h] = "up"]
  /\ op' = [op EXCEPT ![p] = [pc |-> IF CommandOf(p).kind = "open" THEN "resolve" ELSE "send",
                              host |-> h]]
  /\ UNCHANGED <<client, closing, receipts, closed, stopping, native, inbox, outbox, asked, calls, faults>>

Launch(p) ==
  LET h == Cardinality({g \in Hosts : proc[g] # "unborn"}) + 1
  IN  /\ At(p, "ensure") /\ transport = 0
      /\ Refused(p) \/ (h \in Hosts /\ (Undone(p, h) \/ Launched(p, h)))

Ensure(p) ==
  /\ At(p, "ensure") /\ transport # 0
  /\ IF IsAlive(transport)
     THEN /\ op' = [op EXCEPT ![p] = [pc |-> IF CommandOf(p).kind = "open" THEN "resolve" ELSE "send",
                                      host |-> transport]]
          /\ UNCHANGED <<client, closing, transport, receipts, closed, stopping, calls, faults>>
     ELSE Fail(p)
  /\ UNCHANGED hostVars

\* The bundle of the session (CoursePublication!Opens), read from the file the
\* helper was started on while nothing is being written beside it, and within the
\* limits of _validate_bundle; or there is none.
Resolve(p) ==
  /\ At(p, "resolve")
  /\ \/ Go(p, "send") /\ UNCHANGED <<client, closing, transport, receipts, closed, stopping, calls, faults>>
     \/ Fail(p)
  /\ UNCHANGED hostVars

Written(p, message, pc) ==
  /\ inbox' = [inbox EXCEPT ![op[p].host] = message]
  /\ Go(p, pc)
  /\ UNCHANGED <<client, closing, transport, receipts, closed, stopping, proc, native, outbox, asked,
                 calls, faults>>

\* _write_all has no time limit: what the pipe does not hold waits for the host to
\* read on, and so does whoever closes that pipe meanwhile, since close() begins
\* with stdin.close() and gets to the job object only after it.
Blocked(p) == op[p].pc \in {"sending", "transferring"}
Stalled(h) == \E p \in Requests : Blocked(p) /\ op[p].host = h

\* A message is written to the pipe at once or in part, or the transport is gone.
Writes(p, message, pc, part) ==
  \/ IsAlive(op[p].host) /\ Written(p, message, pc)
  \/ /\ IsAlive(op[p].host) /\ Go(p, part)
     /\ UNCHANGED <<client, closing, transport, receipts, closed, stopping, hostVars, calls, faults>>
  \/ ~IsAlive(op[p].host) /\ Fail(p) /\ UNCHANGED hostVars

\* The end of the host breaks the pipe under a message.
Broken(p) == Blocked(p) /\ ~Up(op[p].host) /\ Fail(p) /\ UNCHANGED hostVars

AfterCommand(p) == IF CommandOf(p).kind = "open" THEN "ready" ELSE "receive"

Send(p) == At(p, "send") /\ Writes(p, "command", AfterCommand(p), "sending")

\* receive: what the host has written comes before its end.
Answered(p) == outbox[op[p].host] # NoReply
Taken(p) ==
  /\ outbox' = [outbox EXCEPT ![op[p].host] = NoReply]
  /\ UNCHANGED <<proc, native, inbox, asked>>

\* _expect_asset_ready
ExpectReady(p) ==
  /\ At(p, "ready") /\ Answered(p)
  /\ Taken(p)
  /\ IF outbox[op[p].host].ready
     THEN Go(p, "transfer") /\ UNCHANGED <<client, closing, transport, receipts, closed, stopping, calls, faults>>
     ELSE Fail(p)

\* _transfer_bundle, the bootstrap that follows it, and the evidence of both: an
\* asset that is not what the bundle says fails it.
Transfer(p) ==
  /\ At(p, "transfer")
  /\ \/ Writes(p, "bootstrap", "receive", "transferring")
     \/ Fail(p) /\ UNCHANGED hostVars

\* _parse_receipt
Matches(p, receipt) ==
  /\ ~receipt.ready /\ receipt.command = IdOf(p)
  /\ receipt.accepted => receipt.generation = CommandOf(p).generation
                                                + (IF CommandOf(p).kind = "assign" THEN 1 ELSE 0)

\* _record_success, _record_rejection: what became of a session is recorded once
\* the receipt is kept, and a record that cannot be written fails the command.
Recorded(p) == CommandOf(p).session # NoSession

Receive(p) ==
  /\ At(p, "receive") /\ Answered(p)
  /\ Taken(p)
  /\ IF Matches(p, outbox[op[p].host])
     THEN /\ receipts' = [receipts EXCEPT ![IdOf(p)] = op[p].host]
          /\ \/ Recorded(p) /\ TakeTransport(p, "fail")
             \/ CommandOf(p).kind = "close" /\ TakeTransport(p, "close")
             \/ CommandOf(p).kind # "close" /\ Go(p, "done") /\ UNCHANGED transport
          /\ UNCHANGED <<client, closing, closed, stopping, calls, faults>>
     ELSE Fail(p)

Waits(p) == (At(p, "ready") \/ At(p, "receive")) /\ ~Answered(p)

\* Fault: a host that does not answer in time is kept.
HostTimeoutKeeping(p) ==
  /\ Waits(p) /\ Go(p, "done")
  /\ UNCHANGED <<client, closing, transport, receipts, closed, stopping, hostVars, calls, faults>>

\* Fault: only the end of its pipe is the end of a host.
HostEof(p) == Waits(p) /\ ~IsAlive(op[p].host) /\ Fail(p) /\ UNCHANGED hostVars

\* The host does not answer in time, or never will.
HostTimeout(p) == Waits(p) /\ Fail(p) /\ UNCHANGED hostVars

\* _close_transport, to its end.
CloseTransport(p) ==
  /\ op[p].pc \in {"fail", "close"}
  /\ op' = [op EXCEPT ![p] = [pc |-> "done", host |-> 0]]
  /\ IF op[p].host = 0 THEN UNCHANGED hostVars ELSE Ended(op[p].host)
  /\ UNCHANGED <<client, closing, transport, receipts, closed, stopping, calls, faults>>

-----------------------------------------------------------------------------
(* api.py: requests of the page *)

Request(p) ==
  /\ client[p].pc = "idle" /\ calls[p] < MaxCalls[p] /\ ~closed
  /\ client' = [client EXCEPT ![p].pc = "gate"]
  /\ calls' = [calls EXCEPT ![p] = @ + 1]
  /\ UNCHANGED <<supervisorVars, hostVars, faults>>

\* projection_command_gate: a lock that is polled, so nobody is sure to get it.
\* What a request asks for is of no matter before it has passed.
GateIsFree == \A p \in Requests : client[p].pc \in {"idle", "gate"}

Acquire(p) ==
  /\ client[p].pc = "gate" /\ GateIsFree
  /\ \E i \in Ids : /\ \A j \in After[i] : receipts[j] # 0
                    /\ client' = [client EXCEPT ![p] = [pc |-> "running", command |-> i]]
  /\ op' = [op EXCEPT ![p] = [pc |-> "queued", host |-> 0]]
  /\ UNCHANGED <<closing, transport, receipts, closed, stopping, hostVars, calls, faults>>

Leave(p) ==
  /\ client' = [client EXCEPT ![p] = [pc |-> "idle", command |-> 0]]
  /\ op' = [op EXCEPT ![p] = Idle]
  /\ UNCHANGED <<closing, transport, receipts, closed, stopping, hostVars, calls, faults>>

\* _run_projection_job, when the thread of the command is done.
Answer(p) == client[p].pc = "running" /\ At(p, "done") /\ Leave(p)

\* The time of the job is up, or its request is cancelled: cancel_current.
Cancel(p) ==
  /\ client[p].pc = "running" /\ faults < MaxFaults
  /\ client' = [client EXCEPT ![p].pc = "cancelling"]
  /\ faults' = faults + 1
  /\ UNCHANGED <<supervisorVars, hostVars, calls>>

CancelCurrent(p) ==
  /\ client[p].pc = "cancelling"
  /\ client' = [client EXCEPT ![p].pc = "joining"]
  /\ closing' = [closing EXCEPT ![p] = transport]
  /\ transport' = 0
  /\ UNCHANGED <<op, receipts, closed, stopping, hostVars, calls, faults>>

CancelClosed(p) ==
  /\ closing[p] # 0 /\ ~Stalled(closing[p])
  /\ closing' = [closing EXCEPT ![p] = 0]
  /\ Ended(closing[p])
  /\ UNCHANGED <<client, op, transport, receipts, closed, stopping, calls, faults>>

\* Fault: the request is answered as soon as the transport is closed.
MayLeaveAtOnce(p) == closing[p] = 0

\* _cancel_and_join_projection: the thread of the command is waited for.
MayLeave(p) == At(p, "done") /\ closing[p] = 0

Join(p) == client[p].pc = "joining" /\ MayLeave(p) /\ Leave(p)

\* shutdown(): it does not take the lock of the commands.
Shutdown ==
  /\ ~closed
  /\ closed' = TRUE
  /\ stopping' = transport
  /\ transport' = 0
  /\ UNCHANGED <<client, op, closing, receipts, hostVars, calls, faults>>

ShutdownClosed ==
  /\ stopping # 0 /\ ~Stalled(stopping)
  /\ stopping' = 0
  /\ Ended(stopping)
  /\ UNCHANGED <<client, op, closing, transport, receipts, closed, calls, faults>>

-----------------------------------------------------------------------------
(* ProjectionHostProtocol.cs *)

Replied(h, n, i, accepted) ==
  /\ native' = [native EXCEPT ![h] = n]
  /\ outbox' = [outbox EXCEPT ![h] = [command |-> i, ready |-> FALSE, accepted |-> accepted,
                                         generation |-> n.generation]]

\* The request whose command is on its way to a host.
Sender(h) == CHOOSE p \in Requests : op[p].host = h /\ op[p].pc \in {"ready", "receive"}
Sent(h, message) ==
  /\ proc[h] = "up" /\ inbox[h] = message
  /\ \E p \in Requests : op[p].host = h /\ op[p].pc \in {"ready", "receive"}

\* A host reads on: the message that was waiting for it is written, or its writer
\* finds the pipe closed.
HostReadsOn(h) ==
  /\ proc[h] = "up"
  /\ \E p \in Requests :
       /\ Blocked(p) /\ op[p].host = h
       /\ \/ IsAlive(h) /\ At(p, "sending") /\ Written(p, "command", AfterCommand(p))
          \/ IsAlive(h) /\ At(p, "transferring") /\ Written(p, "bootstrap", "receive")
          \/ ~IsAlive(h) /\ Fail(p) /\ UNCHANGED hostVars

\* ProcessCommandAsync
HostReceives(h) ==
  LET i == IdOf(Sender(h))
      c == Command[i]
  IN  /\ Sent(h, "command")
      /\ inbox' = [inbox EXCEPT ![h] = "none"]
      /\ CASE c.kind = "open" -> /\ outbox' = [outbox EXCEPT ![h] = [NoReply EXCEPT !.ready = TRUE]]
                                 /\ UNCHANGED <<native, asked>>
           [] c.kind = "verify" /\ NeedsWitness(native[h], c) ->
                /\ asked' = asked \cup {h}
                /\ UNCHANGED <<native, outbox>>
           [] OTHER -> /\ \E o \in Outcomes(native[h], c) : Replied(h, o.native, i, o.accepted)
                       /\ UNCHANGED asked
      /\ UNCHANGED <<client, supervisorVars, proc, calls, faults>>

\* ProcessBootstrapAsync
HostOpens(h) ==
  LET i == IdOf(Sender(h))
      c == Command[i]
  IN  /\ Sent(h, "bootstrap")
      /\ inbox' = [inbox EXCEPT ![h] = "none"]
      /\ \E o \in Outcomes(native[h], c) : Replied(h, o.native, i, o.accepted)
      /\ UNCHANGED <<client, supervisorVars, proc, asked, calls, faults>>

\* The witness answers: the windows meanwhile turn frames, and may be lost.
HostWitnessed(h) ==
  /\ h \in asked
  /\ asked' = asked \ {h}
  /\ \E p \in Requests : /\ op[p].host = h /\ op[p].pc = "receive"
                         /\ \E o \in Witnessed(native[h]) : Replied(h, o.native, IdOf(p), o.accepted)
  /\ UNCHANGED <<client, supervisorVars, proc, inbox, calls, faults>>

Navigate(h) ==
  /\ proc[h] = "up" /\ MayNavigate(native[h]) /\ native[h].shown < MaxFrame
  /\ native' = [native EXCEPT ![h] = Navigated(native[h])]
  /\ UNCHANGED <<client, supervisorVars, proc, inbox, outbox, asked, calls, faults>>

Commit(h, role) ==
  /\ proc[h] = "up" /\ MayCommit(native[h], role)
  /\ native' = [native EXCEPT ![h] = Committed(native[h], role)]
  /\ UNCHANGED <<client, supervisorVars, proc, inbox, outbox, asked, calls, faults>>

LoseWindow(h) ==
  /\ proc[h] = "up" /\ native[h].windows # 0 /\ faults < MaxFaults
  /\ native' = [native EXCEPT ![h] = Lost(native[h])]
  /\ faults' = faults + 1
  /\ UNCHANGED <<client, supervisorVars, proc, inbox, outbox, asked, calls>>

HostCrash(h) ==
  /\ proc[h] = "up" /\ faults < MaxFaults
  /\ Ended(h)
  /\ faults' = faults + 1
  /\ UNCHANGED <<client, supervisorVars, calls>>

-----------------------------------------------------------------------------
Thread(p) ==
  \/ Begin(p) \/ Launch(p) \/ Ensure(p) \/ Resolve(p) \/ Send(p) \/ ExpectReady(p) \/ Transfer(p)
  \/ Receive(p) \/ Broken(p) \/ HostTimeout(p) \/ CloseTransport(p)

Task(p) == Acquire(p) \/ Answer(p) \/ CancelCurrent(p) \/ CancelClosed(p) \/ Join(p)

Next ==
  \/ \E p \in Requests : Request(p) \/ Cancel(p) \/ Task(p) \/ Thread(p)
  \/ \E h \in Hosts : \/ HostReadsOn(h) \/ HostReceives(h) \/ HostOpens(h) \/ HostWitnessed(h)
                      \/ Navigate(h) \/ LoseWindow(h) \/ HostCrash(h)
                      \/ \E role \in Roles : Commit(h, role)
  \/ Shutdown \/ ShutdownClosed

Spec == Init /\ [][Next]_vars

\* The threads and tasks of the helper go on; its timeouts, which are disjuncts
\* of Thread, go off.  Nothing is assumed of a host, a witness or the page.
FairSpec == Spec /\ \A p \in Requests : WF_vars(Thread(p)) /\ WF_vars(Task(p))

-----------------------------------------------------------------------------
TypeOK ==
  /\ \A p \in Requests :
       /\ client[p].pc \in {"idle", "gate", "running", "cancelling", "joining"}
       /\ client[p].command \in Ids \cup {0}
       /\ op[p].pc \in {"none", "queued", "ensure", "resolve", "send", "sending", "ready", "transfer",
                        "transferring", "receive", "fail", "close", "done"}
       /\ op[p].host \in Hosts \cup {0}
  /\ closing \in [Requests -> Hosts \cup {0}]
  /\ transport \in Hosts \cup {0}
  /\ receipts \in [Ids -> Hosts \cup {0}]
  /\ closed \in BOOLEAN /\ stopping \in Hosts \cup {0}
  /\ proc \in [Hosts -> {"unborn", "up", "dead"}]
  /\ \A h \in Hosts : NativeType(native[h], MaxFrame)
  /\ inbox \in [Hosts -> {"none", "command", "bootstrap"}]
  /\ asked \subseteq Hosts
  /\ calls \in [Requests -> Nat] /\ faults \in Nat

\* A command never meets the answer to another one: when it is sent, nothing is
\* on its way to or from the host, neither a command that timed out nor a late
\* receipt (projection_host.py _execute closes the transport of whatever fails).
FreshChannel ==
  \A p \in Requests :
    At(p, "send") /\ IsAlive(op[p].host)
      => inbox[op[p].host] = "none" /\ outbox[op[p].host] = NoReply /\ op[p].host \notin asked

\* Between two commands the supervisor is quiet: no thread is in it, and the only
\* host that lives is its own (api.py _cancel_and_join_projection).
QuietBetweenCommands ==
  GateIsFree /\ ~closed =>
    /\ \A p \in Requests : At(p, "none") /\ closing[p] = 0
    /\ \A h \in Hosts : Up(h) => h = transport

\* Screens that are certified show one frame, the last both have shown, and have
\* been witnessed (ProjectionReducer.cs), through frames, swaps and lost windows.
CertifiedShowsOneFrame == \A h \in Hosts : OneFrame(native[h].cert)

\* A session that was invalidated stays so, and uncertified, until it is closed,
\* even when its witness answers later (NativeProjectionCommandExecutor.cs).
InvalidatedUntilClosed ==
  [][\A h \in Hosts :
       native[h].invalid /\ native[h].session # NoSession /\ native'[h].session = native[h].session
         => native'[h].invalid /\ ~native'[h].cert.certified]_vars

\* Every command that has passed the gate is answered.
RequestsAreAnswered == \A p \in Requests : client[p].pc = "running" ~> client[p].pc = "idle"

\* That holds whatever its host does, answers or not, crashes or not, as long as no
\* host leaves a message half read for ever: one that does holds the thread, its
\* cancellation and every command after it (_write_all has no time limit).
CommandsAreAnswered == (\A p \in Requests : []<>~Blocked(p)) => RequestsAreAnswered

\* No command is answered with the cached success of a host that is gone
\* (tests/test_projection_host.py, "never replays cached success after host loss").
NoReplayAfterHostLoss ==
  [][\A p \in Requests :
       Begin(p) /\ Replays(p) /\ ~closed /\ CommandOf(p).kind # "close"
         => receipts[IdOf(p)] = transport]_vars
=============================================================================
