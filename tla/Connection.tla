----------------------------- MODULE Connection -----------------------------
(***************************************************************************)
(* One connection: connection.go, heartbeat.go, and the readers of         *)
(* tcp_connection.go and ws_connection.go, together with the calls the     *)
(* shutdown owner makes on it (Server.shutdownOwner).                      *)
(*                                                                         *)
(* Goroutines: the reader, the writer, the heartbeat checker, the          *)
(* supervisor, the opener (whoever called start, then runs the open hook), *)
(* the shutdown owner, and the callers of Send.  stateMu and sendMu guard  *)
(* short sections, each one action here.                                   *)
(***************************************************************************)
EXTENDS Naturals, Sequences, FiniteSets

CONSTANTS Kinds,         \* transports: a subset of {"tcp", "websocket"}
          PeerInputs,    \* what the peer may send or cause (see Inputs, Elapse)
          HookPanics,    \* the hooks that may panic, of {"open", "close"}
          Senders,       \* goroutines that each call Send once
          WriteBuffer,   \* capacity of c.outgoing
          MaxLateReads   \* bound: messages still buffered in user space once
                         \* the deadline has passed or the socket is closed

ASSUME ConnectionAssumption ==
    /\ Kinds \subseteq {"tcp", "websocket"}
    /\ PeerInputs \subseteq {"frames", "bad", "ping", "pong", "eof", "peer", "silence"}
    /\ HookPanics \subseteq {"open", "close"}
    /\ WriteBuffer \in Nat \ {0}
    /\ MaxLateReads \in Nat

Children == {"reader", "writer", "heartbeat"}
Closers == Children \cup {"opener", "owner"}
Procs == Closers \cup {"supervisor"}

VARIABLES
    kind,            \* c.metricTransport, fixed when the connection is built
    state,           \* c.state
    readCtx,         \* readCtx, sendCtx, forceCtx: TRUE once cancelled
    sendCtx,
    forceCtx,
    acceptingSends,  \* c.acceptingSends
    outgoing,        \* the buffered channel c.outgoing
    sendStop,        \* sendStopOnce has fired
    drainWriter,     \* c.drainWriter is closed
    deadline,        \* the read deadline set by quiesceReads has passed
    socketClosed,    \* how often transport.Close was called
    closeStep,       \* progress of closeOnce in requestCloseMatching
    reason,          \* c.closeOp and c.closeErr
    partial,         \* the frame decoder holds an incomplete frame
    fresh,           \* activity.alive(HeartbeatTimeout)
    lateReads,       \* messages read after the deadline or the close
    intake,          \* the worker pool still accepts (stopAccepting not called)
    pc,              \* pc[p]: where goroutine p is
    input,           \* what the reader's last Read returned
    fault,           \* fault[p]: the failure p is handling
    senderPc,        \* senderPc[s]: where s is in Send
    inWrite,         \* the messages the writer holds (at most one)
    sent,            \* messages whose Send returned nil, in order
    written,         \* messages written to the transport, in order
    writerExit,      \* why the writer returned
    reported,        \* calls of reportConnectionError: <<p, op, cause>>
    hooks,           \* lifecycle hooks that ran, in order
    done             \* c.done is closed

ctxVars == <<readCtx, sendCtx, forceCtx>>
sendVars == <<acceptingSends, outgoing, senderPc, sent>>
drainVars == <<sendStop, drainWriter>>
writeVars == <<inWrite, written, writerExit>>
readVars == <<partial, fresh, lateReads, input>>
closeVars == <<closeStep, reason, socketClosed>>
endVars == <<hooks, done>>
vars == <<kind, state, ctxVars, sendVars, drainVars, deadline, closeVars,
          readVars, intake, pc, fault, writeVars, reported, endVars>>

NoFault == [op |-> "none", cause |-> "none", report |-> "never"]
NoInput == [data |-> "none", err |-> "nil"]

Rank(s) == CASE s = "open" -> 0 [] s = "draining" -> 1
             [] s = "closing" -> 2 [] s = "closed" -> 3

(* No Send is between sendWG.Add and sendWG.Done. *)
NoSendInFlight == \A s \in Senders : senderPc[s] # "begun"

Go(p, label) == pc' = [pc EXCEPT ![p] = label]

(* Where a goroutine continues once a failure is dealt with. *)
RestLabel(p) == CASE p \in {"reader", "writer"} -> "exit"
             [] p = "heartbeat" -> "tick"
             [] p = "opener" -> "opened"
             [] p = "owner" -> "await"

Resume(p) ==
    /\ fault' = [fault EXCEPT ![p] = NoFault]
    /\ Go(p, RestLabel(p))

(* p met a failure.  report is "first" when the code reports and then      *)
(* closes, "won" when it closes and reports only if it won the close, and  *)
(* "never" when it only closes.                                            *)
Fail(p, op, cause, report) ==
    /\ fault' = [fault EXCEPT ![p] = [op |-> op, cause |-> cause, report |-> report]]
    /\ Go(p, IF report = "first" THEN "report" ELSE "close")

Init ==
    /\ kind \in Kinds
    /\ state = "open"
    /\ readCtx = FALSE /\ sendCtx = FALSE /\ forceCtx = FALSE
    /\ acceptingSends = TRUE
    /\ outgoing = <<>>
    /\ sendStop = FALSE
    /\ drainWriter = FALSE
    /\ deadline = FALSE
    /\ socketClosed = 0
    /\ closeStep = "none"
    /\ reason = [op |-> "none", cause |-> "none"]
    /\ partial = FALSE
    /\ fresh = TRUE
    /\ lateReads = 0
    /\ intake = TRUE
    /\ pc = [p \in Procs |-> CASE p \in Children \cup {"supervisor"} -> "off"
                               [] p = "opener" -> "registered"
                               [] p = "owner" -> "idle"]
    /\ input = NoInput
    /\ fault = [p \in Procs |-> NoFault]
    /\ senderPc = [s \in Senders |-> "idle"]
    /\ inWrite = {}
    /\ sent = <<>>
    /\ written = <<>>
    /\ writerExit = "none"
    /\ reported = {}
    /\ hooks = <<>>
    /\ done = FALSE

-----------------------------------------------------------------------------
(* Plausible bugs, used only to show that the properties can fail.  Each   *)
(* one takes the place of the definition it is named after.                *)

(* Send's select watches only the caller's context. *)
BugSendReleased(s) ==
    /\ senderPc[s] = "begun" /\ FALSE
    /\ UNCHANGED vars

(* requestCloseIfOpen does not insist on an open connection. *)
BugMayClose(p) == state \in {"open", "draining"}

(* closeOnce forgets closeTransport. *)
BugCloseSocket ==
    /\ closeStep = "socket"
    /\ closeStep' = "done"
    /\ UNCHANGED <<kind, state, ctxVars, sendVars, drainVars, deadline,
                   reason, socketClosed, readVars, intake, pc, fault,
                   writeVars, reported, endVars>>

(* fail reports before it tries to close. *)
BugReportOrder == "first"

(* The supervisor does not wait for the open hook ... *)
BugFinalizeHook ==
    /\ pc["supervisor"] = "waiting"
    /\ \A p \in Children : pc[p] = "exit"
    /\ readCtx' = TRUE /\ sendCtx' = TRUE /\ forceCtx' = TRUE
    /\ socketClosed' = IF socketClosed = 0 THEN 1 ELSE socketClosed
    /\ Go("supervisor", "hook")
    /\ UNCHANGED <<kind, state, sendVars, drainVars, deadline, closeStep,
                   reason, readVars, intake, fault, writeVars, reported,
                   endVars>>

(* ... or not for the reader and the writer. *)
BugFinalizeChildren ==
    /\ pc["supervisor"] = "waiting"
    /\ pc["opener"] = "opened"
    /\ pc["heartbeat"] = "exit"
    /\ readCtx' = TRUE /\ sendCtx' = TRUE /\ forceCtx' = TRUE
    /\ socketClosed' = IF socketClosed = 0 THEN 1 ELSE socketClosed
    /\ Go("supervisor", "hook")
    /\ UNCHANGED <<kind, state, sendVars, drainVars, deadline, closeStep,
                   reason, readVars, intake, fault, writeVars, reported,
                   endVars>>

(* quiesceReads stores draining whatever the state ... *)
BugQuiesce ==
    /\ pc["owner"] = "quiesce"
    /\ state' = "draining"
    /\ Go("owner", "cancelReads")
    /\ UNCHANGED <<kind, outgoing, senderPc, sent, closeVars, readVars,
                   writeVars, reported, endVars, ctxVars, acceptingSends,
                   drainVars, deadline, intake, fault>>

(* ... or sets the deadline without cancelling readCtx. *)
BugQuiesceCancel ==
    /\ pc["owner"] = "cancelReads"
    /\ Go("owner", "setDeadline")
    /\ UNCHANGED <<kind, outgoing, senderPc, sent, closeVars, readVars,
                   writeVars, reported, endVars, state, ctxVars,
                   acceptingSends, drainVars, deadline, intake, fault>>

(* drainWriter is closed without waiting for sendWG. *)
BugSendsDrained ==
    /\ sendStop /\ ~drainWriter
    /\ drainWriter' = TRUE
    /\ UNCHANGED <<kind, outgoing, senderPc, sent, closeVars, readVars,
                   writeVars, reported, endVars, sendStop, state, ctxVars,
                   acceptingSends, deadline, intake, pc, fault>>

(* stopSendsAndDrain waits for the writer without a timeout. *)
BugForceClose ==
    /\ \/ pc["owner"] = "drain"
       \/ pc["owner"] = "awaitWriter" /\ pc["writer"] = "exit"
    /\ Fail("owner", "read", "stopping", "never")
    /\ UNCHANGED <<kind, outgoing, senderPc, sent, closeVars, readVars,
                   writeVars, reported, endVars, state, ctxVars,
                   acceptingSends, drainVars, deadline, intake>>

-----------------------------------------------------------------------------
(* Send *)

(* Under sendMu: refused, or counted in sendWG. *)
SendBegin(s) ==
    /\ senderPc[s] = "idle"
    /\ pc["opener"] # "registered"
    /\ senderPc' = [senderPc EXCEPT ![s] =
          IF ~acceptingSends \/ Rank(state) >= Rank("closing")
          THEN "refused" ELSE "begun"]
    /\ UNCHANGED <<kind, state, ctxVars, acceptingSends, outgoing, sent,
                   drainVars, deadline, closeVars, readVars, intake, pc,
                   fault, writeVars, reported, endVars>>

(* The select takes any ready case: there is room in the channel ... *)
SendQueue(s) ==
    /\ senderPc[s] = "begun"
    /\ Len(outgoing) < WriteBuffer
    /\ outgoing' = Append(outgoing, s)
    /\ sent' = Append(sent, s)
    /\ senderPc' = [senderPc EXCEPT ![s] = "accepted"]
    /\ UNCHANGED <<kind, state, ctxVars, acceptingSends, drainVars, deadline,
                   closeVars, readVars, intake, pc, fault, writeVars,
                   reported, endVars>>

(* ... or sendCtx or forceCtx is cancelled ... *)
SendReleased(s) ==
    /\ senderPc[s] = "begun"
    /\ sendCtx \/ forceCtx
    /\ senderPc' = [senderPc EXCEPT ![s] = "refused"]
    /\ UNCHANGED <<kind, state, ctxVars, acceptingSends, outgoing, sent,
                   drainVars, deadline, closeVars, readVars, intake, pc,
                   fault, writeVars, reported, endVars>>

(* ... or the caller's own context is. *)
SendAbandoned(s) ==
    /\ senderPc[s] = "begun"
    /\ senderPc' = [senderPc EXCEPT ![s] = "abandoned"]
    /\ UNCHANGED <<kind, state, ctxVars, acceptingSends, outgoing, sent,
                   drainVars, deadline, closeVars, readVars, intake, pc,
                   fault, writeVars, reported, endVars>>

-----------------------------------------------------------------------------
(* start: the goroutines are launched, then the open hook runs in the      *)
(* caller.  The connection was registered before, so the shutdown owner    *)
(* may be quicker than start.                                              *)

Start ==
    /\ pc["opener"] = "registered"
    /\ pc' = [pc EXCEPT !["opener"] = "hook", !["writer"] = "top",
                        !["reader"] = "read", !["heartbeat"] = "tick",
                        !["supervisor"] = "waiting"]
    /\ UNCHANGED <<kind, state, ctxVars, sendVars, drainVars, deadline,
                   closeVars, readVars, intake, fault, writeVars, reported,
                   endVars>>

(* invokeOpenHook returns, or panics and is recovered. *)
OpenHook ==
    /\ pc["opener"] = "hook"
    /\ hooks' = Append(hooks, "open")
    /\ \/ Go("opener", "opened") /\ UNCHANGED fault
       \/ "open" \in HookPanics /\ Fail("opener", "openhook", "panic", "first")
    /\ UNCHANGED <<kind, state, ctxVars, sendVars, drainVars, deadline,
                   closeVars, readVars, intake, writeVars, reported, done>>

-----------------------------------------------------------------------------
(* reportConnectionError and requestCloseMatching, for any goroutine *)

Report(p) ==
    /\ pc[p] = "report"
    /\ reported' = reported \cup {<<p, fault[p].op, fault[p].cause>>}
    /\ IF fault[p].report = "first" THEN Go(p, "close") /\ UNCHANGED fault
       ELSE Resume(p)
    /\ UNCHANGED <<kind, state, ctxVars, sendVars, drainVars, deadline,
                   closeVars, readVars, intake, writeVars, endVars>>

(* The state test under stateMu; the heartbeat closes only an open         *)
(* connection.                                                             *)
MayClose(p) == state = "open" \/ (state = "draining" /\ p # "heartbeat")

CloseWon(p) ==
    /\ pc[p] = "close"
    /\ MayClose(p)
    /\ state' = "closing"
    /\ closeStep' = "sends"
    /\ reason' = [op |-> fault[p].op, cause |-> fault[p].cause]
    /\ Go(p, "closing")
    /\ UNCHANGED <<kind, ctxVars, sendVars, drainVars, deadline, socketClosed,
                   readVars, intake, fault, writeVars, reported, endVars>>

CloseLost(p) ==
    /\ pc[p] = "close"
    /\ ~MayClose(p)
    /\ Resume(p)
    /\ UNCHANGED <<kind, state, ctxVars, sendVars, drainVars, deadline,
                   closeVars, readVars, intake, writeVars, reported, endVars>>

(* closeOnce, run by the winner: stop sends, then cancel reads, then force *)
(* cancellation, and only then close the socket.                           *)
CloseSends ==
    /\ closeStep = "sends"
    /\ acceptingSends' = FALSE
    /\ sendCtx' = TRUE
    /\ closeStep' = "read"
    /\ UNCHANGED <<kind, state, readCtx, forceCtx, outgoing, senderPc, sent,
                   drainVars, deadline, reason, socketClosed, readVars,
                   intake, pc, fault, writeVars, reported, endVars>>

CloseRead ==
    /\ closeStep = "read"
    /\ readCtx' = TRUE
    /\ closeStep' = "force"
    /\ UNCHANGED <<kind, state, sendCtx, forceCtx, sendVars, drainVars,
                   deadline, reason, socketClosed, readVars, intake, pc,
                   fault, writeVars, reported, endVars>>

CloseForce ==
    /\ closeStep = "force"
    /\ forceCtx' = TRUE
    /\ closeStep' = "socket"
    /\ UNCHANGED <<kind, state, readCtx, sendCtx, sendVars, drainVars,
                   deadline, reason, socketClosed, readVars, intake, pc,
                   fault, writeVars, reported, endVars>>

(* closeTransport, guarded by transportCloseOnce. *)
CloseSocket ==
    /\ closeStep = "socket"
    /\ socketClosed' = IF socketClosed = 0 THEN 1 ELSE socketClosed
    /\ closeStep' = "done"
    /\ UNCHANGED <<kind, state, ctxVars, sendVars, drainVars, deadline,
                   reason, readVars, intake, pc, fault, writeVars, reported,
                   endVars>>

CloseReturns(p) ==
    /\ pc[p] = "closing"
    /\ closeStep = "done"
    /\ IF fault[p].report = "won" THEN Go(p, "report") /\ UNCHANGED fault
       ELSE Resume(p)
    /\ UNCHANGED <<kind, state, ctxVars, sendVars, drainVars, deadline,
                   closeVars, readVars, intake, writeVars, reported, endVars>>

-----------------------------------------------------------------------------
(* runWriter *)

WriterStep(label, why) ==
    /\ Go("writer", label)
    /\ writerExit' = why
    /\ UNCHANGED <<kind, state, ctxVars, acceptingSends, senderPc, sent,
                   drainVars, deadline, closeVars, readVars, intake, fault,
                   written, reported, endVars>>

(* The loop begins by looking at forceCtx alone. *)
WriterTop ==
    /\ pc["writer"] = "top"
    /\ IF forceCtx THEN WriterStep("exit", "force")
                   ELSE WriterStep("select", writerExit)
    /\ UNCHANGED <<outgoing, inWrite>>

WriterForced ==
    /\ pc["writer"] = "select"
    /\ forceCtx
    /\ WriterStep("exit", "force")
    /\ UNCHANGED <<outgoing, inWrite>>

WriterTakes ==
    /\ pc["writer"] \in {"select", "drain"}
    /\ outgoing # <<>>
    /\ outgoing' = Tail(outgoing)
    /\ inWrite' = {Head(outgoing)}
    /\ WriterStep(IF pc["writer"] = "drain" THEN "drainWrite" ELSE "write", writerExit)

WriterDrains ==
    /\ pc["writer"] = "select"
    /\ drainWriter
    /\ WriterStep("drain", writerExit)
    /\ UNCHANGED <<outgoing, inWrite>>

WriterDrained ==
    /\ pc["writer"] = "drain"
    /\ outgoing = <<>>
    /\ WriterStep("exit", "drained")
    /\ UNCHANGED <<outgoing, inWrite>>

(* writeOutgoing succeeds: a write to a peer that does not read may take   *)
(* for ever.                                                               *)
WriteOk ==
    /\ pc["writer"] \in {"write", "drainWrite"}
    /\ socketClosed = 0
    /\ \E m \in inWrite : written' = Append(written, m)
    /\ inWrite' = {}
    /\ Go("writer", IF pc["writer"] = "write" THEN "top" ELSE "drain")
    /\ UNCHANGED <<kind, state, ctxVars, sendVars, drainVars, deadline,
                   closeVars, readVars, intake, fault, writerExit, reported,
                   endVars>>

(* It fails: on the peer's account, or because the socket was closed here. *)
WriteFails ==
    /\ pc["writer"] \in {"write", "drainWrite"}
    /\ Fail("writer", "write", IF socketClosed > 0 THEN "local" ELSE "peer", "won")
    /\ inWrite' = {}
    /\ writerExit' = "error"
    /\ UNCHANGED <<kind, state, ctxVars, sendVars, drainVars, deadline,
                   closeVars, readVars, intake, written, reported, endVars>>

-----------------------------------------------------------------------------
(* The readers *)

ReaderUnchanged ==
    UNCHANGED <<kind, state, ctxVars, sendVars, drainVars, deadline,
                closeVars, intake, writeVars, reported, endVars>>

Cut == deadline \/ socketClosed > 0

(* What Read or ReadMessage can return.  Data: "frames" that decode,       *)
(* "bad" input that does not, "ping" or "pong" (WebSocket control frames,  *)
(* handled inside ReadMessage).  Errors: "eof" (for WebSocket a normal     *)
(* close), "peer" (any failure not caused here), "timeout" (our deadline)  *)
(* and "closed" (our Close).  A stream Read may return data and an error.  *)
Inputs ==
    LET data == PeerInputs \cap (IF kind = "tcp" THEN {"frames", "bad"}
                                 ELSE {"frames", "bad", "ping", "pong"})
        errs == (IF Cut THEN {} ELSE PeerInputs \cap {"eof", "peer"})
                \cup (IF deadline /\ socketClosed = 0 THEN {"timeout"} ELSE {})
                \cup (IF socketClosed > 0 THEN {"closed"} ELSE {})
    IN  [data : {"none"}, err : errs]
        \cup [data : data, err : {"nil"} \cup (IF kind = "tcp" THEN errs ELSE {})]

(* Bytes or control frames refresh the heartbeat, a rejected WebSocket     *)
(* message may not.  Buffered data can outlive the deadline and the close. *)
Read ==
    /\ pc["reader"] = "read"
    /\ \E i \in Inputs :
          /\ i.data # "none" /\ Cut => lateReads < MaxLateReads
          /\ input' = i
          /\ lateReads' = IF i.data # "none" /\ Cut THEN lateReads + 1 ELSE lateReads
          /\ \/ fresh' = (fresh \/ i.data # "none")
             \/ kind = "websocket" /\ i.data = "bad" /\ fresh' = fresh
          /\ Go("reader", IF i.data = "none" THEN "error" ELSE "data")
    /\ UNCHANGED <<partial, fault>>
    /\ ReaderUnchanged

(* TCP reports before it closes, WebSocket (fail) only if it won. *)
ReportOrder == IF kind = "tcp" THEN "first" ELSE "won"

(* Undecodable input, or a WebSocket message that is not binary, is empty, *)
(* or ends inside a frame.                                                 *)
ReadBad ==
    /\ pc["reader"] = "data" /\ input.data = "bad"
    /\ Fail("reader", "protocol", "peer", ReportOrder)
    /\ input' = NoInput
    /\ partial' = FALSE
    /\ UNCHANGED <<fresh, lateReads>>
    /\ ReaderUnchanged

(* Every frame is submitted; TCP may keep an incomplete one. *)
ReadSubmitted ==
    /\ pc["reader"] = "data" /\ input.data = "frames"
    /\ intake
    /\ partial' \in (IF kind = "tcp" THEN BOOLEAN ELSE {FALSE})
    /\ Go("reader", IF kind = "tcp" THEN "submitted" ELSE "read")
    /\ input' = IF kind = "tcp" THEN input ELSE NoInput
    /\ UNCHANGED <<fresh, lateReads, fault>>
    /\ ReaderUnchanged

(* TCP input that completes no frame submits nothing, stopping or not. *)
ReadNoFrame ==
    /\ pc["reader"] = "data" /\ input.data = "frames" /\ kind = "tcp"
    /\ partial' = TRUE
    /\ Go("reader", "submitted")
    /\ UNCHANGED <<fresh, lateReads, fault, input>>
    /\ ReaderUnchanged

(* submit returns ErrServerStopping: the reader leaves without a word. *)
ReadStopping ==
    /\ pc["reader"] = "data" /\ input.data = "frames"
    /\ ~intake
    /\ Go("reader", "exit")
    /\ input' = NoInput
    /\ UNCHANGED <<partial, fresh, lateReads, fault>>
    /\ ReaderUnchanged

(* submit returns ErrWorkerQueueFull: only this connection pays.  The TCP  *)
(* reader then returns on the state it finds.                              *)
ReadQueueFull ==
    /\ pc["reader"] = "data" /\ input.data = "frames"
    /\ intake
    /\ Fail("reader", "task", "full", ReportOrder)
    /\ input' = NoInput
    /\ UNCHANGED <<partial, fresh, lateReads>>
    /\ ReaderUnchanged

(* TCP, after the data: a closing connection ends the loop, otherwise the  *)
(* error that came with the data is looked at.                             *)
ReadNext ==
    /\ pc["reader"] = "submitted"
    /\ Go("reader", IF Rank(state) >= Rank("closing") THEN "exit"
                    ELSE IF input.err = "nil" THEN "read" ELSE "error")
    /\ input' = IF input.err = "nil" \/ Rank(state) >= Rank("closing")
                THEN NoInput ELSE input
    /\ UNCHANGED <<partial, fresh, lateReads, fault>>
    /\ ReaderUnchanged

(* The ping handler answers; when the pong cannot be written it closes,    *)
(* and ReadMessage then fails with that error, which ends the reader.      *)
ReadControl ==
    /\ pc["reader"] = "data" /\ input.data \in {"ping", "pong"}
    /\ \/ (input.data = "ping" => socketClosed = 0) /\ Go("reader", "read") /\ UNCHANGED fault
       \/ /\ input.data = "ping"
          /\ Fail("reader", "write", IF socketClosed > 0 THEN "local" ELSE "peer", "won")
    /\ input' = NoInput
    /\ UNCHANGED <<partial, fresh, lateReads>>
    /\ ReaderUnchanged

(* A read error after our own cancellation is expected and ends the loop. *)
ReadError ==
    /\ pc["reader"] = "error"
    /\ IF readCtx \/ forceCtx
       THEN Go("reader", "exit") /\ UNCHANGED fault
       ELSE CASE input.err \in {"peer", "timeout"} ->
                   Fail("reader", "read", input.err, ReportOrder)
              [] input.err \in {"eof", "closed"} /\ kind = "tcp" /\ partial ->
                   Fail("reader", "protocol", input.err, "first")
              [] OTHER -> Fail("reader", "read", input.err, "never")
    /\ input' = NoInput
    /\ UNCHANGED <<partial, fresh, lateReads>>
    /\ ReaderUnchanged

-----------------------------------------------------------------------------
(* runHeartbeat and checkHeartbeat *)

(* HeartbeatTimeout passes without input before the tick that sees it. *)
Elapse ==
    /\ "silence" \in PeerInputs
    /\ fresh /\ pc["heartbeat"] = "tick"
    /\ fresh' = FALSE
    /\ UNCHANGED <<kind, state, ctxVars, sendVars, drainVars, deadline,
                   closeVars, partial, lateReads, input, intake, pc, fault,
                   writeVars, reported, endVars>>

(* The tick finds the activity stale; the close comes in a later step.  A  *)
(* tick that finds it fresh changes nothing.                               *)
HeartbeatExpired ==
    /\ pc["heartbeat"] = "tick"
    /\ ~fresh
    /\ Fail("heartbeat", "heartbeat", "expired", "never")
    /\ UNCHANGED <<kind, state, ctxVars, sendVars, drainVars, deadline,
                   closeVars, readVars, intake, writeVars, reported, endVars>>

HeartbeatStops ==
    /\ pc["heartbeat"] = "tick"
    /\ readCtx \/ forceCtx
    /\ Go("heartbeat", "exit")
    /\ UNCHANGED <<kind, state, ctxVars, sendVars, drainVars, deadline,
                   closeVars, readVars, intake, fault, writeVars, reported,
                   endVars>>

-----------------------------------------------------------------------------
(* supervise *)

(* The open hook has returned and the children have ended: every context   *)
(* is cancelled, the socket closed, the connection removed.                *)
Finalize ==
    /\ pc["supervisor"] = "waiting"
    /\ pc["opener"] = "opened"
    /\ \A p \in Children : pc[p] = "exit"
    /\ readCtx' = TRUE /\ sendCtx' = TRUE /\ forceCtx' = TRUE
    /\ socketClosed' = IF socketClosed = 0 THEN 1 ELSE socketClosed
    /\ Go("supervisor", "hook")
    /\ UNCHANGED <<kind, state, sendVars, drainVars, deadline, closeStep,
                   reason, readVars, intake, fault, writeVars, reported,
                   endVars>>

(* invokeCloseHook; a panic is reported and goes no further. *)
CloseHook ==
    /\ pc["supervisor"] = "hook"
    /\ hooks' = Append(hooks, "close")
    /\ \/ UNCHANGED reported
       \/ /\ "close" \in HookPanics
          /\ reported' = reported \cup {<<"supervisor", "closehook", "panic">>}
    /\ Go("supervisor", "mark")
    /\ UNCHANGED <<kind, state, ctxVars, sendVars, drainVars, deadline,
                   closeVars, readVars, intake, fault, writeVars, done>>

Finalized ==
    /\ pc["supervisor"] = "mark"
    /\ state' = "closed"
    /\ done' = TRUE
    /\ Go("supervisor", "exit")
    /\ UNCHANGED <<kind, ctxVars, sendVars, drainVars, deadline, closeVars,
                   readVars, intake, fault, writeVars, reported, hooks>>

-----------------------------------------------------------------------------
(* The shutdown owner's calls, in the order of shutdownOwner *)

OwnerUnchanged ==
    UNCHANGED <<kind, outgoing, senderPc, sent, closeVars, readVars, writeVars,
                reported, endVars>>

StopIntake ==
    /\ pc["owner"] = "idle"
    /\ intake' = FALSE
    /\ Go("owner", "quiesce")
    /\ UNCHANGED <<state, ctxVars, acceptingSends, drainVars, deadline, fault>>
    /\ OwnerUnchanged

(* quiesceReads: the state under stateMu ... *)
Quiesce ==
    /\ pc["owner"] = "quiesce"
    /\ state' = IF state = "open" THEN "draining" ELSE state
    /\ Go("owner", "cancelReads")
    /\ UNCHANGED <<ctxVars, acceptingSends, drainVars, deadline, intake, fault>>
    /\ OwnerUnchanged

(* ... then, once, readCancel ... *)
QuiesceCancel ==
    /\ pc["owner"] = "cancelReads"
    /\ readCtx' = TRUE
    /\ Go("owner", "setDeadline")
    /\ UNCHANGED <<state, sendCtx, forceCtx, acceptingSends, drainVars,
                   deadline, intake, fault>>
    /\ OwnerUnchanged

(* ... and the read deadline, which the transport may refuse.              *)
QuiesceDeadline ==
    /\ pc["owner"] = "setDeadline"
    /\ deadline' \in BOOLEAN
    /\ Go("owner", "drain")
    /\ UNCHANGED <<state, ctxVars, acceptingSends, drainVars, intake, fault>>
    /\ OwnerUnchanged

(* stopSendsAndDrain, once: the state (no longer open: quiesceReads came   *)
(* first), then sends are stopped under sendMu and a goroutine is left     *)
(* waiting for sendWG.                                                     *)
StopSends ==
    /\ pc["owner"] = "drain"
    /\ state' = IF state = "open" THEN "draining" ELSE state
    /\ acceptingSends' = FALSE
    /\ sendCtx' = TRUE
    /\ sendStop' = TRUE
    /\ Go("owner", "awaitWriter")
    /\ UNCHANGED <<readCtx, forceCtx, drainWriter, deadline, intake, fault>>
    /\ OwnerUnchanged

(* The goroutine left behind by stopSendsAndDrain, once sendWG is zero. *)
SendsDrained ==
    /\ sendStop /\ ~drainWriter
    /\ NoSendInFlight
    /\ drainWriter' = TRUE
    /\ UNCHANGED <<sendStop, state, ctxVars, acceptingSends, deadline, intake, pc, fault>>
    /\ OwnerUnchanged

(* forceCloseAll, after the writer is done or the timeout; the timeout may *)
(* have struck at an earlier connection, and then this one is not drained. *)
ForceClose ==
    /\ pc["owner"] \in {"drain", "awaitWriter"}
    /\ Fail("owner", "read", "stopping", "never")
    /\ UNCHANGED <<state, ctxVars, acceptingSends, drainVars, deadline, intake>>
    /\ OwnerUnchanged

(* wait: the connection is done, or the timeout strikes. *)
OwnerReturns ==
    /\ pc["owner"] = "await"
    /\ Go("owner", "exit")
    /\ UNCHANGED <<state, ctxVars, acceptingSends, drainVars, deadline, intake, fault>>
    /\ OwnerUnchanged

-----------------------------------------------------------------------------
SenderStep(s) == SendBegin(s) \/ SendQueue(s) \/ SendReleased(s) \/ SendAbandoned(s)

CloserStep(p) == Report(p) \/ CloseWon(p) \/ CloseLost(p) \/ CloseReturns(p)

CloseBody == CloseSends \/ CloseRead \/ CloseForce \/ CloseSocket

WriterNext ==
    \/ WriterTop \/ WriterForced \/ WriterTakes \/ WriterDrains \/ WriterDrained
    \/ WriteOk \/ WriteFails

ReaderNext ==
    \/ Read \/ ReadBad \/ ReadSubmitted \/ ReadNoFrame \/ ReadStopping
    \/ ReadQueueFull \/ ReadNext \/ ReadControl \/ ReadError

HeartbeatNext == HeartbeatExpired \/ HeartbeatStops

SupervisorNext == Finalize \/ CloseHook \/ Finalized

OwnerNext ==
    \/ StopIntake \/ Quiesce \/ QuiesceCancel \/ QuiesceDeadline
    \/ StopSends \/ SendsDrained \/ ForceClose \/ OwnerReturns

Next ==
    \/ Start \/ OpenHook \/ Elapse \/ CloseBody
    \/ WriterNext \/ ReaderNext \/ HeartbeatNext \/ SupervisorNext \/ OwnerNext
    \/ \E s \in Senders : SenderStep(s)
    \/ \E p \in Closers : CloserStep(p)
(* Runnable goroutines are scheduled, hooks and error callbacks return,    *)
(* timers fire, and a closed or expired socket ends a blocked Read or      *)
(* Write.  Nothing is assumed of the peer: a Write to a live socket may    *)
(* block for ever, a Read too.  The heartbeat's select is random, so       *)
(* cancellation is seen eventually although ticks keep coming.             *)
Fairness ==
    /\ WF_vars(Start) /\ WF_vars(OpenHook) /\ WF_vars(CloseBody)
    /\ \A p \in Closers : WF_vars(CloserStep(p))
    /\ \A s \in Senders : WF_vars(SendQueue(s) \/ SendReleased(s))
    /\ WF_vars(WriterTop \/ WriterForced \/ WriterTakes \/ WriterDrains \/ WriterDrained)
    /\ WF_vars(socketClosed > 0 /\ WriteFails)
    /\ WF_vars(Cut /\ Read)
    /\ WF_vars(ReadBad \/ ReadSubmitted \/ ReadNoFrame \/ ReadStopping
               \/ ReadQueueFull \/ ReadNext \/ ReadControl \/ ReadError)
    /\ SF_vars(HeartbeatStops)
    /\ WF_vars(SupervisorNext)
    /\ WF_vars(Quiesce \/ QuiesceCancel \/ QuiesceDeadline
               \/ StopSends \/ ForceClose \/ OwnerReturns)
    /\ WF_vars(SendsDrained)

Spec == Init /\ [][Next]_vars /\ Fairness

-----------------------------------------------------------------------------
(* Properties *)

Causes == {"none", "peer", "local", "eof", "timeout", "closed", "full",
           "panic", "expired", "stopping"}
Labels == {"off", "registered", "idle", "hook", "opened", "exit",
           "report", "close", "closing",
           "top", "select", "write", "drain", "drainWrite",
           "read", "data", "submitted", "error", "tick", "waiting", "mark",
           "quiesce", "cancelReads", "setDeadline", "awaitWriter", "await"}
Ops == {"none", "read", "write", "protocol", "task", "heartbeat", "openhook", "closehook"}

(* Every variable holds a value of its type, and the outgoing channel      *)
(* never holds more than ConnectionWriteBufferSize messages.               *)
TypeOK ==
    /\ kind \in Kinds
    /\ state \in {"open", "draining", "closing", "closed"}
    /\ readCtx \in BOOLEAN /\ sendCtx \in BOOLEAN /\ forceCtx \in BOOLEAN
    /\ acceptingSends \in BOOLEAN
    /\ outgoing \in Seq(Senders) /\ Len(outgoing) <= WriteBuffer
    /\ sendStop \in BOOLEAN /\ drainWriter \in BOOLEAN
    /\ deadline \in BOOLEAN
    /\ socketClosed \in 0..1
    /\ closeStep \in {"none", "sends", "read", "force", "socket", "done"}
    /\ reason \in [op : Ops, cause : Causes]
    /\ partial \in BOOLEAN /\ fresh \in BOOLEAN
    /\ lateReads \in 0..MaxLateReads
    /\ intake \in BOOLEAN
    /\ pc \in [Procs -> Labels]
    /\ input \in [data : {"none", "frames", "bad", "ping", "pong"},
                  err : {"nil", "eof", "peer", "timeout", "closed"}]
    /\ fault \in [Procs -> [op : Ops, cause : Causes, report : {"first", "won", "never"}]]
    /\ senderPc \in [Senders -> {"idle", "begun", "accepted", "refused", "abandoned"}]
    /\ inWrite \subseteq Senders
    /\ sent \in Seq(Senders) /\ written \in Seq(Senders)
    /\ writerExit \in {"none", "force", "error", "drained"}
    /\ reported \subseteq Procs \X Ops \X Causes
    /\ hooks \in Seq({"open", "close"})
    /\ done \in BOOLEAN
(* The state only moves forward, whatever quiesceReads, stopSendsAndDrain, *)
(* requestClose and the supervisor's final store do to it concurrently.    *)
StateMonotone == [][Rank(state') >= Rank(state)]_vars

(* When the writer ends because it was drained, every message whose Send   *)
(* returned nil has been written, in order, and no Send is accepted later: *)
(* stopSendsAndDrain loses nothing.                                        *)
GracefulDrainWritesAll == writerExit = "drained" => written = sent

(* The application is never told about an error this side provoked: the    *)
(* read deadline of quiesceReads, or reads and writes that fail because    *)
(* requestClose closed the socket.                                         *)
NoSelfInflictedReport ==
    \A r \in reported : r[3] \notin {"timeout", "closed", "local"}

(* The open hook runs first and has returned, and all goroutines of the    *)
(* connection have ended and its socket is closed, before the close hook   *)
(* runs; each runs once.                                                   *)
HooksOrdered ==
    /\ hooks \in {<<>>, <<"open">>, <<"open", "close">>}
    /\ "close" \in {hooks[i] : i \in 1..Len(hooks)} =>
          /\ pc["opener"] = "opened"
          /\ \A p \in Children : pc[p] = "exit"
          /\ socketClosed = 1

(* Once c.done is closed the connection is silent: no report, write or     *)
(* hook follows, although Send and requestClose may still be called (and   *)
(* a Send that began before the close may even still return nil).          *)
NothingAfterDone == [][done => UNCHANGED <<reported, written, hooks>>]_vars

(* A connection that has begun to drain is spared by its heartbeat, even   *)
(* when the check found it stale before the drain began.                   *)
DrainSparedByHeartbeat ==
    [][state = "draining" /\ state' = "closing" => reason'.op # "heartbeat"]_vars

(* A WebSocket connection reports at most one of its reader's and writer's *)
(* failures, the one that closed it.                                       *)
WebSocketReportsTheClose ==
    LET own == {r \in reported : r[1] \in {"reader", "writer"}} IN
    kind = "websocket" =>
        /\ Cardinality(own) <= 1
        /\ \A r \in own : reason = [op |-> r[2], cause |-> r[3]]

(* A close that was requested, or a failure that was reported, ends with   *)
(* c.done closed, although Read or Write was blocked on a silent peer.     *)
CloseCompletes ==
    (state = "closing" \/ \E r \in reported : r[1] \in Closers) ~> done

(* A Send blocked on a full buffer returns once sends have been stopped,   *)
(* even when the peer never reads, and nobody gets in behind it.           *)
BlockedSendReleased == ~acceptingSends ~> NoSendInFlight

(* The shutdown owner brings every connection to its end, also one whose   *)
(* goroutines have not been started yet, whose writer is blocked, or whose *)
(* reader has left without closing because the pool takes no more tasks.   *)
ShutdownCompletes == (pc["owner"] = "quiesce") ~> done

(* The design document's promise that an expired heartbeat is reported to  *)
(* the error callback.                                                     *)
HeartbeatReported ==
    done /\ reason.op = "heartbeat" => \E r \in reported : r[2] = "heartbeat"
=============================================================================
