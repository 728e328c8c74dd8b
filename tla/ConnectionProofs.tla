-------------------------- MODULE ConnectionProofs --------------------------
(***************************************************************************)
(* Proofs about Connection, for every number of senders, every capacity of *)
(* the outgoing channel and whatever the peer may send.                    *)
(***************************************************************************)
EXTENDS Connection, FiniteSetTheorems, SequenceTheorems, TLAPS

(* The inductive invariant, in parts.                                      *)

(* Before start the connection's own goroutines do not exist. *)
StartInv == pc["opener"] = "registered" =>
    \A p \in Children \cup {"supervisor"} : pc[p] = "off"

(* Which hooks have run, from where the opener and the supervisor are. *)
HookInv ==
    /\ pc["opener"] \in {"registered", "hook"} => hooks = <<>>
    /\ pc["opener"] \notin {"registered", "hook"} /\ pc["supervisor"] \notin {"mark", "exit"}
         => hooks = <<"open">>
    /\ pc["supervisor"] \in {"mark", "exit"} => hooks = <<"open", "close">>

(* Once the supervisor finalizes, everything it waited for stays ended. *)
Finalizing == pc["supervisor"] \in {"hook", "mark", "exit"}
EndInv ==
    /\ Finalizing => /\ pc["opener"] = "opened"
                     /\ \A p \in Children : pc[p] = "exit"
                     /\ socketClosed = 1
                     /\ readCtx
    /\ done <=> pc["supervisor"] = "exit"
    /\ done <=> state = "closed"

(* closeOnce: it has begun when the state says so, reads are cancelled     *)
(* before the socket is closed, and only it or the supervisor closes that. *)
CloseInv ==
    /\ closeStep # "none" => state \in {"closing", "closed"}
    /\ state = "closing" => closeStep # "none"
    /\ closeStep \in {"force", "socket", "done"} => readCtx
    /\ socketClosed = 1 => closeStep = "done" \/ Finalizing

(* The owner cancels reads before it sets the deadline, and never reports. *)
OwnerInv ==
    /\ pc["owner"] \notin {"idle", "quiesce", "cancelReads"} => readCtx
    /\ deadline => readCtx
    /\ pc["owner"] # "report" /\ fault["owner"].report = "never"

(* A read error this side provoked is met with reads already cancelled. *)
InputInv ==
    /\ pc["reader"] = "error" => input.err # "nil"
    /\ input.err \in {"timeout", "closed"} => readCtx

(* A write that fails on our own close finds the close already decided. *)
FaultInv == \A p \in Closers :
    /\ fault[p].op = "heartbeat" => p = "heartbeat"
    /\ fault[p].cause \notin {"timeout", "closed"}
    /\ fault[p].cause = "local" => pc[p] = "close" /\ state \in {"closing", "closed"}

(* Nobody stands at a report of a failure that is only closed on. *)
ReportInv == \A p \in Closers : pc[p] = "report" => fault[p].report # "never"

(* p won the close and has not yet reported it. *)
Winner(p) == pc[p] = "closing" \/ (pc[p] = "report" /\ fault[p].report = "won")

(* There is one winner, its failure is the reason of the close, and with   *)
(* its report it is gone.                                                  *)
Own == {r \in reported : r[1] \in {"reader", "writer"}}
WinnerInv ==
    /\ \A p \in Closers : Winner(p) =>
          /\ closeStep # "none"
          /\ reason = [op |-> fault[p].op, cause |-> fault[p].cause]
          /\ \A q \in Closers : Winner(q) => q = p
    /\ kind = "websocket" =>
          /\ \A p \in {"reader", "writer"} : fault[p].report # "first"
          /\ \A r \in Own : /\ closeStep # "none"
                            /\ reason = [op |-> r[2], cause |-> r[3]]
                            /\ \A p \in Closers : ~Winner(p)
                            /\ \A q \in Own : q = r

(* While the writer has not given up, what Send accepted is what was       *)
(* written, then the message being written, then the channel.  Once        *)
(* drainWriter is closed no Send is under way and none can begin.          *)
WriterInv ==
    /\ pc["writer"] \in {"off", "top", "select", "drain", "write", "drainWrite"}
         => writerExit = "none"
    /\ pc["writer"] \in {"write", "drainWrite"} <=> inWrite # {}
    /\ pc["writer"] \in {"drain", "drainWrite"} => drainWriter
    /\ writerExit = "drained" => drainWriter /\ outgoing = <<>> /\ pc["writer"] = "exit"
DrainInv ==
    /\ sendStop => ~acceptingSends
    /\ drainWriter => sendStop /\ NoSendInFlight
QueueInv ==
    writerExit \in {"none", "drained"} =>
        /\ inWrite = {} => sent = written \o outgoing
        /\ \A m \in inWrite : inWrite = {m} /\ sent = Append(written, m) \o outgoing

IInv ==
    /\ TypeOK
    /\ StartInv /\ HookInv /\ EndInv /\ CloseInv /\ OwnerInv /\ InputInv
    /\ FaultInv /\ ReportInv /\ WinnerInv /\ NoSelfInflictedReport
    /\ WriterInv /\ DrainInv /\ QueueInv

-----------------------------------------------------------------------------
USE DEF vars, ctxVars, sendVars, drainVars, writeVars, readVars, closeVars,
        endVars, Go, Resume, Fail, WriterStep, ReaderUnchanged,
        OwnerUnchanged, Children, Closers, Procs, NoFault, NoInput

(* The type invariant in parts, which the provers take one by one. *)
TypeFlags ==
    /\ readCtx \in BOOLEAN /\ sendCtx \in BOOLEAN /\ forceCtx \in BOOLEAN
    /\ acceptingSends \in BOOLEAN
    /\ sendStop \in BOOLEAN /\ drainWriter \in BOOLEAN
    /\ deadline \in BOOLEAN
    /\ partial \in BOOLEAN /\ fresh \in BOOLEAN
    /\ intake \in BOOLEAN
    /\ done \in BOOLEAN

TypeState ==
    /\ kind \in Kinds
    /\ state \in {"open", "draining", "closing", "closed"}
    /\ socketClosed \in 0..1
    /\ closeStep \in {"none", "sends", "read", "force", "socket", "done"}
    /\ writerExit \in {"none", "force", "error", "drained"}

TypePc ==
    /\ pc \in [Procs -> Labels]
    /\ hooks \in Seq({"open", "close"})

TypeInput ==
    /\ lateReads \in 0..MaxLateReads
    /\ input \in [data : {"none", "frames", "bad", "ping", "pong"},
                  err : {"nil", "eof", "peer", "timeout", "closed"}]

TypeFault ==
    /\ reason \in [op : Ops, cause : Causes]
    /\ fault \in [Procs -> [op : Ops, cause : Causes, report : {"first", "won", "never"}]]
    /\ reported \subseteq Procs \X Ops \X Causes

TypeMessages ==
    /\ outgoing \in Seq(Senders) /\ Len(outgoing) <= WriteBuffer
    /\ senderPc \in [Senders -> {"idle", "begun", "accepted", "refused", "abandoned"}]
    /\ inWrite \subseteq Senders
    /\ sent \in Seq(Senders) /\ written \in Seq(Senders)

LEMMA TypeParts == TypeOK <=> /\ TypeFlags /\ TypeState /\ TypePc
                              /\ TypeInput /\ TypeFault /\ TypeMessages
  BY Zenon DEF TypeOK, TypeFlags, TypeState, TypePc, TypeInput, TypeFault,
               TypeMessages

LEMMA Bounds == WriteBuffer \in Nat \ {0} /\ MaxLateReads \in Nat
  BY ConnectionAssumption

(* The flags stay Boolean. *)
LEMMA NextTypeFlags == TypeFlags /\ [Next]_vars => TypeFlags'
<1> SUFFICES ASSUME TypeFlags, [Next]_vars PROVE TypeFlags'
  OBVIOUS
<1>1. CASE UNCHANGED vars
  BY <1>1 DEF TypeFlags
<1>2. CASE Start \/ OpenHook \/ Elapse
  <2>1. CASE Start
    BY <2>1 DEF Start, TypeFlags
  <2>2. CASE OpenHook
    BY <2>2 DEF OpenHook, TypeFlags
  <2>3. CASE Elapse
    BY <2>3 DEF Elapse, TypeFlags
  <2> QED
    BY <1>2, <2>1, <2>2, <2>3
<1>3. CASE CloseBody
  <2>1. CASE CloseSends
    BY <2>1, Zenon DEF CloseSends, TypeFlags
  <2>2. CASE CloseRead
    BY <2>2, Zenon DEF CloseRead, TypeFlags
  <2>3. CASE CloseForce
    BY <2>3, Zenon DEF CloseForce, TypeFlags
  <2>4. CASE CloseSocket
    BY <2>4, Zenon DEF CloseSocket, TypeFlags
  <2> QED
    BY <1>3, <2>1, <2>2, <2>3, <2>4 DEF CloseBody
<1>4. CASE WriterNext
  BY <1>4 DEF WriterNext, WriterTop, WriterForced, WriterTakes, WriterDrains,
      WriterDrained, WriteOk, WriteFails, TypeFlags
<1>5. CASE ReaderNext
  <2>1. CASE Read
    BY <2>1, ZenonT(60) DEF Read, TypeFlags
  <2>2. CASE ReadBad
    BY <2>2, Zenon DEF ReadBad, TypeFlags
  <2>3. CASE ReadSubmitted
    BY <2>3, Zenon DEF ReadSubmitted, TypeFlags
  <2>4. CASE ReadNoFrame
    BY <2>4, Zenon DEF ReadNoFrame, TypeFlags
  <2>5. CASE ReadStopping
    BY <2>5, Zenon DEF ReadStopping, TypeFlags
  <2>6. CASE ReadQueueFull
    BY <2>6, Zenon DEF ReadQueueFull, TypeFlags
  <2>7. CASE ReadNext
    BY <2>7, Zenon DEF ReadNext, TypeFlags
  <2>8. CASE ReadControl
    BY <2>8, Zenon DEF ReadControl, TypeFlags
  <2>9. CASE ReadError
    BY <2>9, Zenon DEF ReadError, TypeFlags
  <2> QED
    BY <1>5, <2>1, <2>2, <2>3, <2>4, <2>5, <2>6, <2>7, <2>8, <2>9 DEF ReaderNext
<1>6. CASE HeartbeatNext
  BY <1>6 DEF HeartbeatNext, HeartbeatExpired, HeartbeatStops, TypeFlags
<1>7. CASE SupervisorNext
  <2>1. CASE Finalize
    BY <2>1, Zenon DEF Finalize, TypeFlags
  <2>2. CASE CloseHook
    BY <2>2, Zenon DEF CloseHook, TypeFlags
  <2>3. CASE Finalized
    BY <2>3, Zenon DEF Finalized, TypeFlags
  <2> QED
    BY <1>7, <2>1, <2>2, <2>3 DEF SupervisorNext
<1>8. CASE OwnerNext
  <2>1. CASE StopIntake
    BY <2>1, Zenon DEF StopIntake, TypeFlags
  <2>2. CASE Quiesce
    BY <2>2, Zenon DEF Quiesce, TypeFlags
  <2>3. CASE QuiesceCancel
    BY <2>3, Zenon DEF QuiesceCancel, TypeFlags
  <2>4. CASE QuiesceDeadline
    BY <2>4, Zenon DEF QuiesceDeadline, TypeFlags
  <2>5. CASE StopSends
    BY <2>5, Zenon DEF StopSends, TypeFlags
  <2>6. CASE SendsDrained
    BY <2>6, Zenon DEF SendsDrained, TypeFlags
  <2>7. CASE ForceClose
    BY <2>7, ZenonT(60) DEF ForceClose, TypeFlags
  <2>8. CASE OwnerReturns
    BY <2>8, Zenon DEF OwnerReturns, TypeFlags
  <2> QED
    BY <1>8, <2>1, <2>2, <2>3, <2>4, <2>5, <2>6, <2>7, <2>8 DEF OwnerNext
<1>9. ASSUME NEW s \in Senders, SenderStep(s) PROVE TypeFlags'
  BY <1>9 DEF SenderStep, SendBegin, SendQueue, SendReleased, SendAbandoned,
      TypeFlags
<1>10. ASSUME NEW p \in Closers, CloserStep(p) PROVE TypeFlags'
  BY <1>10 DEF CloserStep, Report, CloseWon, CloseLost, CloseReturns, TypeFlags
<1> QED
  BY <1>1, <1>2, <1>3, <1>4, <1>5, <1>6, <1>7, <1>8, <1>9, <1>10 DEF Next

(* The state of the connection keeps its type. *)
LEMMA NextTypeState == TypeState /\ [Next]_vars => TypeState'
<1> SUFFICES ASSUME TypeState, [Next]_vars PROVE TypeState'
  OBVIOUS
<1>1. CASE UNCHANGED vars
  BY <1>1 DEF TypeState
<1>2. CASE Start \/ OpenHook \/ Elapse
  BY <1>2 DEF Start, OpenHook, Elapse, TypeState
<1>3. CASE CloseBody
  BY <1>3 DEF CloseBody, CloseSends, CloseRead, CloseForce, CloseSocket,
      TypeState
<1>4. CASE WriterNext
  BY <1>4 DEF WriterNext, WriterTop, WriterForced, WriterTakes, WriterDrains,
      WriterDrained, WriteOk, WriteFails, TypeState
<1>5. CASE ReaderNext
  BY <1>5 DEF ReaderNext, Read, ReadBad, ReadSubmitted, ReadNoFrame,
      ReadStopping, ReadQueueFull, ReadNext, ReadControl, ReadError, TypeState
<1>6. CASE HeartbeatNext
  BY <1>6 DEF HeartbeatNext, HeartbeatExpired, HeartbeatStops, TypeState
<1>7. CASE SupervisorNext
  BY <1>7 DEF SupervisorNext, Finalize, CloseHook, Finalized, TypeState
<1>8. CASE OwnerNext
  BY <1>8 DEF OwnerNext, StopIntake, Quiesce, QuiesceCancel, QuiesceDeadline,
      StopSends, SendsDrained, ForceClose, OwnerReturns, TypeState
<1>9. ASSUME NEW s \in Senders, SenderStep(s) PROVE TypeState'
  BY <1>9 DEF SenderStep, SendBegin, SendQueue, SendReleased, SendAbandoned,
      TypeState
<1>10. ASSUME NEW p \in Closers, CloserStep(p) PROVE TypeState'
  BY <1>10 DEF CloserStep, Report, CloseWon, CloseLost, CloseReturns, TypeState
<1> QED
  BY <1>1, <1>2, <1>3, <1>4, <1>5, <1>6, <1>7, <1>8, <1>9, <1>10 DEF Next

(* The program counters keep their type. *)
LEMMA NextTypePc == TypePc /\ [Next]_vars => TypePc'
<1> SUFFICES ASSUME TypePc, [Next]_vars PROVE TypePc'
  OBVIOUS
<1> USE DEF RestLabel, Labels
<1>1. CASE UNCHANGED vars
  BY <1>1 DEF TypePc
<1>2. CASE Start \/ OpenHook \/ Elapse
  BY <1>2, SMTT(60) DEF Start, OpenHook, Elapse, TypePc
<1>3. CASE CloseBody
  BY <1>3 DEF CloseBody, CloseSends, CloseRead, CloseForce, CloseSocket, TypePc
<1>4. CASE WriterNext
  BY <1>4 DEF WriterNext, WriterTop, WriterForced, WriterTakes, WriterDrains,
      WriterDrained, WriteOk, WriteFails, TypePc
<1>5. CASE ReaderNext
  BY <1>5, ZenonT(60) DEF ReaderNext, Read, ReadBad, ReadSubmitted, ReadNoFrame,
      ReadStopping, ReadQueueFull, ReadNext, ReadControl, ReadError, TypePc
<1>6. CASE HeartbeatNext
  BY <1>6 DEF HeartbeatNext, HeartbeatExpired, HeartbeatStops, TypePc
<1>7. CASE SupervisorNext
  BY <1>7, SMTT(60) DEF SupervisorNext, Finalize, CloseHook, Finalized, TypePc
<1>8. CASE OwnerNext
  BY <1>8 DEF OwnerNext, StopIntake, Quiesce, QuiesceCancel, QuiesceDeadline,
      StopSends, SendsDrained, ForceClose, OwnerReturns, TypePc
<1>9. ASSUME NEW s \in Senders, SenderStep(s) PROVE TypePc'
  BY <1>9 DEF SenderStep, SendBegin, SendQueue, SendReleased, SendAbandoned,
      TypePc
<1>10. ASSUME NEW p \in Closers, CloserStep(p) PROVE TypePc'
  BY <1>10 DEF CloserStep, Report, CloseWon, CloseLost, CloseReturns, TypePc
<1> QED
  BY <1>1, <1>2, <1>3, <1>4, <1>5, <1>6, <1>7, <1>8, <1>9, <1>10 DEF Next

(* What the reader holds keeps its type. *)
LEMMA NextTypeInput == TypeState /\ TypeInput /\ [Next]_vars => TypeInput'
<1> SUFFICES ASSUME TypeState, TypeInput, [Next]_vars PROVE TypeInput'
  OBVIOUS
<1> USE Bounds
<1>1. CASE UNCHANGED vars
  BY <1>1 DEF TypeState, TypeInput
<1>2. CASE Start \/ OpenHook \/ Elapse
  BY <1>2 DEF Start, OpenHook, Elapse, TypeState, TypeInput
<1>3. CASE CloseBody
  BY <1>3 DEF CloseBody, CloseSends, CloseRead, CloseForce, CloseSocket,
      TypeState, TypeInput
<1>4. CASE WriterNext
  BY <1>4 DEF WriterNext, WriterTop, WriterForced, WriterTakes, WriterDrains,
      WriterDrained, WriteOk, WriteFails, TypeState, TypeInput
<1>5. CASE ReaderNext
  <2>1. CASE ReadBad
    BY <2>1 DEF ReadBad, TypeState, TypeInput
  <2>2. CASE ReadSubmitted
    BY <2>2 DEF ReadSubmitted, TypeState, TypeInput
  <2>3. CASE ReadNoFrame
    BY <2>3 DEF ReadNoFrame, TypeState, TypeInput
  <2>4. CASE ReadStopping
    BY <2>4 DEF ReadStopping, TypeState, TypeInput
  <2>5. CASE ReadQueueFull
    BY <2>5 DEF ReadQueueFull, TypeState, TypeInput
  <2>6. CASE ReadNext
    BY <2>6 DEF ReadNext, TypeState, TypeInput
  <2>7. CASE ReadControl
    BY <2>7 DEF ReadControl, TypeState, TypeInput
  <2>8. CASE ReadError
    BY <2>8 DEF ReadError, TypeState, TypeInput
  <2>9. CASE Read
    BY <2>9, ConnectionAssumption DEF Read, Inputs, Cut, TypeState, TypeInput
  <2> QED
    BY <1>5, <2>1, <2>2, <2>3, <2>4, <2>5, <2>6, <2>7, <2>8, <2>9 DEF ReaderNext
<1>6. CASE HeartbeatNext
  BY <1>6 DEF HeartbeatNext, HeartbeatExpired, HeartbeatStops, TypeState,
      TypeInput
<1>7. CASE SupervisorNext
  BY <1>7 DEF SupervisorNext, Finalize, CloseHook, Finalized, TypeState,
      TypeInput
<1>8. CASE OwnerNext
  BY <1>8 DEF OwnerNext, StopIntake, Quiesce, QuiesceCancel, QuiesceDeadline,
      StopSends, SendsDrained, ForceClose, OwnerReturns, TypeState, TypeInput
<1>9. ASSUME NEW s \in Senders, SenderStep(s) PROVE TypeInput'
  BY <1>9 DEF SenderStep, SendBegin, SendQueue, SendReleased, SendAbandoned,
      TypeState, TypeInput
<1>10. ASSUME NEW p \in Closers, CloserStep(p) PROVE TypeInput'
  BY <1>10 DEF CloserStep, Report, CloseWon, CloseLost, CloseReturns,
      TypeState, TypeInput
<1> QED
  BY <1>1, <1>2, <1>3, <1>4, <1>5, <1>6, <1>7, <1>8, <1>9, <1>10 DEF Next

(* Failures and reports keep their type. *)
LEMMA NextTypeFault ==
  TypeState /\ TypeInput /\ TypeFault /\ InputInv /\ [Next]_vars =>
    TypeFault'
<1> SUFFICES ASSUME TypeState, TypeInput, TypeFault, InputInv, [Next]_vars
             PROVE  TypeFault'
  OBVIOUS
<1> USE Bounds DEF Ops, Causes, ReportOrder
<1>1. CASE UNCHANGED vars
  BY <1>1 DEF TypeState, TypeInput, TypeFault, InputInv
<1>2. CASE Start \/ OpenHook \/ Elapse
  BY <1>2 DEF Start, OpenHook, Elapse, TypeState, TypeInput, TypeFault,
      InputInv
<1>3. CASE CloseBody
  BY <1>3 DEF CloseBody, CloseSends, CloseRead, CloseForce, CloseSocket,
      TypeState, TypeInput, TypeFault, InputInv
<1>4. CASE WriterNext
  BY <1>4 DEF WriterNext, WriterTop, WriterForced, WriterTakes, WriterDrains,
      WriterDrained, WriteOk, WriteFails, TypeState, TypeInput, TypeFault,
      InputInv
<1>5. CASE ReaderNext
  <2>1. CASE Read
    BY <2>1 DEF Read, TypeState, TypeInput, TypeFault, InputInv
  <2>2. CASE ReadBad
    BY <2>2 DEF ReadBad, TypeState, TypeInput, TypeFault, InputInv
  <2>3. CASE ReadSubmitted
    BY <2>3 DEF ReadSubmitted, TypeState, TypeInput, TypeFault, InputInv
  <2>4. CASE ReadNoFrame
    BY <2>4 DEF ReadNoFrame, TypeState, TypeInput, TypeFault, InputInv
  <2>5. CASE ReadStopping
    BY <2>5 DEF ReadStopping, TypeState, TypeInput, TypeFault, InputInv
  <2>6. CASE ReadQueueFull
    BY <2>6 DEF ReadQueueFull, TypeState, TypeInput, TypeFault, InputInv
  <2>7. CASE ReadNext
    BY <2>7 DEF ReadNext, TypeState, TypeInput, TypeFault, InputInv
  <2>8. CASE ReadControl
    BY <2>8 DEF ReadControl, TypeState, TypeInput, TypeFault, InputInv
  <2>9. CASE ReadError
    BY <2>9 DEF ReadError, TypeState, TypeInput, TypeFault, InputInv
  <2> QED
    BY <1>5, <2>1, <2>2, <2>3, <2>4, <2>5, <2>6, <2>7, <2>8, <2>9 DEF ReaderNext
<1>6. CASE HeartbeatNext
  BY <1>6 DEF HeartbeatNext, HeartbeatExpired, HeartbeatStops, TypeState,
      TypeInput, TypeFault, InputInv
<1>7. CASE SupervisorNext
  BY <1>7 DEF SupervisorNext, Finalize, CloseHook, Finalized, TypeState,
      TypeInput, TypeFault, InputInv
<1>8. CASE OwnerNext
  BY <1>8 DEF OwnerNext, StopIntake, Quiesce, QuiesceCancel, QuiesceDeadline,
      StopSends, SendsDrained, ForceClose, OwnerReturns, TypeState, TypeInput,
      TypeFault, InputInv
<1>9. ASSUME NEW s \in Senders, SenderStep(s) PROVE TypeFault'
  BY <1>9 DEF SenderStep, SendBegin, SendQueue, SendReleased, SendAbandoned,
      TypeState, TypeInput, TypeFault, InputInv
<1>10. ASSUME NEW p \in Closers, CloserStep(p) PROVE TypeFault'
  BY <1>10 DEF CloserStep, Report, CloseWon, CloseLost, CloseReturns,
      TypeState, TypeInput, TypeFault, InputInv
<1> QED
  BY <1>1, <1>2, <1>3, <1>4, <1>5, <1>6, <1>7, <1>8, <1>9, <1>10 DEF Next

(* The messages keep their types. *)
LEMMA NextTypeMessages ==
  TypeState /\ TypeMessages /\ [Next]_vars => TypeMessages'
<1> SUFFICES ASSUME TypeState, TypeMessages, [Next]_vars PROVE TypeMessages'
  OBVIOUS
<1> USE Bounds
<1>1. CASE UNCHANGED vars
  BY <1>1 DEF TypeState, TypeMessages
<1>2. CASE Start \/ OpenHook \/ Elapse
  BY <1>2 DEF Start, OpenHook, Elapse, TypeState, TypeMessages
<1>3. CASE CloseBody
  BY <1>3 DEF CloseBody, CloseSends, CloseRead, CloseForce, CloseSocket,
      TypeState, TypeMessages
<1>4. CASE WriterNext
  <2>1. CASE WriterTop
    BY <2>1 DEF WriterTop, TypeState, TypeMessages
  <2>2. CASE WriterForced
    BY <2>2 DEF WriterForced, TypeState, TypeMessages
  <2>3. CASE WriterTakes
    BY <2>3 DEF WriterTakes, TypeState, TypeMessages
  <2>4. CASE WriterDrains
    BY <2>4 DEF WriterDrains, TypeState, TypeMessages
  <2>5. CASE WriterDrained
    BY <2>5 DEF WriterDrained, TypeState, TypeMessages
  <2>6. CASE WriteOk
    BY <2>6 DEF WriteOk, TypeState, TypeMessages
  <2>7. CASE WriteFails
    BY <2>7 DEF WriteFails, TypeState, TypeMessages
  <2> QED
    BY <1>4, <2>1, <2>2, <2>3, <2>4, <2>5, <2>6, <2>7 DEF WriterNext
<1>5. CASE ReaderNext
  BY <1>5 DEF ReaderNext, Read, ReadBad, ReadSubmitted, ReadNoFrame,
      ReadStopping, ReadQueueFull, ReadNext, ReadControl, ReadError, TypeState,
      TypeMessages
<1>6. CASE HeartbeatNext
  BY <1>6 DEF HeartbeatNext, HeartbeatExpired, HeartbeatStops, TypeState,
      TypeMessages
<1>7. CASE SupervisorNext
  BY <1>7 DEF SupervisorNext, Finalize, CloseHook, Finalized, TypeState,
      TypeMessages
<1>8. CASE OwnerNext
  BY <1>8 DEF OwnerNext, StopIntake, Quiesce, QuiesceCancel, QuiesceDeadline,
      StopSends, SendsDrained, ForceClose, OwnerReturns, TypeState,
      TypeMessages
<1>9. ASSUME NEW s \in Senders, SenderStep(s) PROVE TypeMessages'
  <2>1. CASE SendBegin(s)
    BY <2>1 DEF SendBegin, TypeState, TypeMessages
  <2>2. CASE SendQueue(s)
    BY <2>2 DEF SendQueue, TypeState, TypeMessages
  <2>3. CASE SendReleased(s)
    BY <2>3 DEF SendReleased, TypeState, TypeMessages
  <2>4. CASE SendAbandoned(s)
    BY <2>4 DEF SendAbandoned, TypeState, TypeMessages
  <2> QED
    BY <1>9, <2>1, <2>2, <2>3, <2>4 DEF SenderStep
<1>10. ASSUME NEW p \in Closers, CloserStep(p) PROVE TypeMessages'
  BY <1>10 DEF CloserStep, Report, CloseWon, CloseLost, CloseReturns,
      TypeState, TypeMessages
<1> QED
  BY <1>1, <1>2, <1>3, <1>4, <1>5, <1>6, <1>7, <1>8, <1>9, <1>10 DEF Next

(* Nothing runs before start. *)
LEMMA NextStartInv == TypePc /\ StartInv /\ [Next]_vars => StartInv'
<1> SUFFICES ASSUME TypePc, StartInv, [Next]_vars PROVE StartInv'
  OBVIOUS
<1> USE DEF RestLabel
<1>1. CASE UNCHANGED vars
  BY <1>1 DEF TypePc, StartInv
<1>2. CASE Start \/ OpenHook \/ Elapse
  BY <1>2 DEF Start, OpenHook, Elapse, TypePc, StartInv
<1>3. CASE CloseBody
  BY <1>3 DEF CloseBody, CloseSends, CloseRead, CloseForce, CloseSocket,
      TypePc, StartInv
<1>4. CASE WriterNext
  BY <1>4 DEF WriterNext, WriterTop, WriterForced, WriterTakes, WriterDrains,
      WriterDrained, WriteOk, WriteFails, TypePc, StartInv
<1>5. CASE ReaderNext
  BY <1>5 DEF ReaderNext, Read, ReadBad, ReadSubmitted, ReadNoFrame,
      ReadStopping, ReadQueueFull, ReadNext, ReadControl, ReadError, TypePc,
      StartInv
<1>6. CASE HeartbeatNext
  BY <1>6 DEF HeartbeatNext, HeartbeatExpired, HeartbeatStops, TypePc, StartInv
<1>7. CASE SupervisorNext
  BY <1>7 DEF SupervisorNext, Finalize, CloseHook, Finalized, TypePc, StartInv
<1>8. CASE OwnerNext
  BY <1>8 DEF OwnerNext, StopIntake, Quiesce, QuiesceCancel, QuiesceDeadline,
      StopSends, SendsDrained, ForceClose, OwnerReturns, TypePc, StartInv
<1>9. ASSUME NEW s \in Senders, SenderStep(s) PROVE StartInv'
  BY <1>9 DEF SenderStep, SendBegin, SendQueue, SendReleased, SendAbandoned,
      TypePc, StartInv
<1>10. ASSUME NEW p \in Closers, CloserStep(p) PROVE StartInv'
  BY <1>10 DEF CloserStep, Report, CloseWon, CloseLost, CloseReturns, TypePc,
      StartInv
<1> QED
  BY <1>1, <1>2, <1>3, <1>4, <1>5, <1>6, <1>7, <1>8, <1>9, <1>10 DEF Next

LEMMA Pairs ==
  ASSUME NEW S, NEW x \in S, NEW y \in S
  PROVE  Append(<<>>, x) = <<x>> /\ Append(<<x>>, y) = <<x, y>>
<1>1. <<>> \in Seq(S) /\ <<x>> \in Seq(S) /\ <<x, y>> \in Seq(S)
  OBVIOUS
<1>2. /\ Append(<<>>, x) \in Seq(S) /\ Len(Append(<<>>, x)) = 1
      /\ Append(<<>>, x)[1] = x
  BY <1>1, AppendProperties
<1>3. /\ Len(<<x>>) = 1 /\ <<x>>[1] = x
      /\ Len(<<x, y>>) = 2 /\ <<x, y>>[1] = x /\ <<x, y>>[2] = y
  OBVIOUS
<1>4. /\ Append(<<x>>, y) \in Seq(S) /\ Len(Append(<<x>>, y)) = 2
      /\ Append(<<x>>, y)[1] = x /\ Append(<<x>>, y)[2] = y
  BY <1>1, <1>3, AppendProperties
<1>5. Append(<<>>, x) = <<x>>
  BY <1>1, <1>2, <1>3, SeqEqual
<1>6. \A i \in 1..2 : Append(<<x>>, y)[i] = <<x, y>>[i]
  BY <1>3, <1>4
<1>7. Append(<<x>>, y) = <<x, y>>
  BY <1>1, <1>3, <1>4, <1>6, SeqEqual
<1> QED
  BY <1>5, <1>7

LEMMA HookSequences == /\ Append(<<>>, "open") = <<"open">>
                       /\ Append(<<"open">>, "close") = <<"open", "close">>
<1> DEFINE S == {"open", "close"}
<1>1. "open" \in S /\ "close" \in S
  OBVIOUS
<1> HIDE DEF S
<1> QED
  BY <1>1, Pairs

(* The hooks run in the order the two goroutines give them. *)
LEMMA NextHookInv == TypePc /\ HookInv /\ EndInv /\ [Next]_vars => HookInv'
<1> SUFFICES ASSUME TypePc, HookInv, EndInv, [Next]_vars PROVE HookInv'
  OBVIOUS
<1> USE HookSequences DEF RestLabel, Finalizing
<1>1. CASE UNCHANGED vars
  BY <1>1 DEF TypePc, HookInv, EndInv
<1>2. CASE Start \/ OpenHook \/ Elapse
  BY <1>2 DEF Start, OpenHook, Elapse, TypePc, HookInv, EndInv
<1>3. CASE CloseBody
  BY <1>3 DEF CloseBody, CloseSends, CloseRead, CloseForce, CloseSocket,
      TypePc, HookInv, EndInv
<1>4. CASE WriterNext
  BY <1>4 DEF WriterNext, WriterTop, WriterForced, WriterTakes, WriterDrains,
      WriterDrained, WriteOk, WriteFails, TypePc, HookInv, EndInv
<1>5. CASE ReaderNext
  BY <1>5 DEF ReaderNext, Read, ReadBad, ReadSubmitted, ReadNoFrame,
      ReadStopping, ReadQueueFull, ReadNext, ReadControl, ReadError, TypePc,
      HookInv, EndInv
<1>6. CASE HeartbeatNext
  BY <1>6 DEF HeartbeatNext, HeartbeatExpired, HeartbeatStops, TypePc, HookInv,
      EndInv
<1>7. CASE SupervisorNext
  BY <1>7 DEF SupervisorNext, Finalize, CloseHook, Finalized, TypePc, HookInv,
      EndInv
<1>8. CASE OwnerNext
  BY <1>8 DEF OwnerNext, StopIntake, Quiesce, QuiesceCancel, QuiesceDeadline,
      StopSends, SendsDrained, ForceClose, OwnerReturns, TypePc, HookInv,
      EndInv
<1>9. ASSUME NEW s \in Senders, SenderStep(s) PROVE HookInv'
  BY <1>9 DEF SenderStep, SendBegin, SendQueue, SendReleased, SendAbandoned,
      TypePc, HookInv, EndInv
<1>10. ASSUME NEW p \in Closers, CloserStep(p) PROVE HookInv'
  BY <1>10 DEF CloserStep, Report, CloseWon, CloseLost, CloseReturns, TypePc,
      HookInv, EndInv
<1> QED
  BY <1>1, <1>2, <1>3, <1>4, <1>5, <1>6, <1>7, <1>8, <1>9, <1>10 DEF Next

(* What ended stays ended. *)
LEMMA NextEndInv ==
  TypeState /\ TypePc /\ TypeFlags /\ EndInv /\ [Next]_vars => EndInv'
<1> SUFFICES ASSUME TypeState, TypePc, TypeFlags, EndInv, [Next]_vars
             PROVE  EndInv'
  OBVIOUS
<1> USE DEF RestLabel, Finalizing, MayClose
<1>1. CASE UNCHANGED vars
  BY <1>1 DEF TypeState, TypePc, TypeFlags, EndInv
<1>2. CASE Start \/ OpenHook \/ Elapse
  BY <1>2 DEF Start, OpenHook, Elapse, TypeState, TypePc, TypeFlags, EndInv
<1>3. CASE CloseBody
  BY <1>3 DEF CloseBody, CloseSends, CloseRead, CloseForce, CloseSocket,
      TypeState, TypePc, TypeFlags, EndInv
<1>4. CASE WriterNext
  BY <1>4 DEF WriterNext, WriterTop, WriterForced, WriterTakes, WriterDrains,
      WriterDrained, WriteOk, WriteFails, TypeState, TypePc, TypeFlags, EndInv
<1>5. CASE ReaderNext
  <2>1. CASE Read
    BY <2>1 DEF Read, TypeState, TypePc, TypeFlags, EndInv
  <2>2. CASE ReadBad
    BY <2>2 DEF ReadBad, TypeState, TypePc, TypeFlags, EndInv
  <2>3. CASE ReadSubmitted
    BY <2>3 DEF ReadSubmitted, TypeState, TypePc, TypeFlags, EndInv
  <2>4. CASE ReadNoFrame
    BY <2>4 DEF ReadNoFrame, TypeState, TypePc, TypeFlags, EndInv
  <2>5. CASE ReadStopping
    BY <2>5 DEF ReadStopping, TypeState, TypePc, TypeFlags, EndInv
  <2>6. CASE ReadQueueFull
    BY <2>6 DEF ReadQueueFull, TypeState, TypePc, TypeFlags, EndInv
  <2>7. CASE ReadNext
    BY <2>7 DEF ReadNext, TypeState, TypePc, TypeFlags, EndInv
  <2>8. CASE ReadControl
    BY <2>8 DEF ReadControl, TypeState, TypePc, TypeFlags, EndInv
  <2>9. CASE ReadError
    BY <2>9 DEF ReadError, TypeState, TypePc, TypeFlags, EndInv
  <2> QED
    BY <1>5, <2>1, <2>2, <2>3, <2>4, <2>5, <2>6, <2>7, <2>8, <2>9 DEF ReaderNext
<1>6. CASE HeartbeatNext
  BY <1>6 DEF HeartbeatNext, HeartbeatExpired, HeartbeatStops, TypeState,
      TypePc, TypeFlags, EndInv
<1>7. CASE SupervisorNext
  BY <1>7 DEF SupervisorNext, Finalize, CloseHook, Finalized, TypeState,
      TypePc, TypeFlags, EndInv
<1>8. CASE OwnerNext
  BY <1>8 DEF OwnerNext, StopIntake, Quiesce, QuiesceCancel, QuiesceDeadline,
      StopSends, SendsDrained, ForceClose, OwnerReturns, TypeState, TypePc,
      TypeFlags, EndInv
<1>9. ASSUME NEW s \in Senders, SenderStep(s) PROVE EndInv'
  BY <1>9 DEF SenderStep, SendBegin, SendQueue, SendReleased, SendAbandoned,
      TypeState, TypePc, TypeFlags, EndInv
<1>10. ASSUME NEW p \in Closers, CloserStep(p) PROVE EndInv'
  BY <1>10 DEF CloserStep, Report, CloseWon, CloseLost, CloseReturns,
      TypeState, TypePc, TypeFlags, EndInv
<1> QED
  BY <1>1, <1>2, <1>3, <1>4, <1>5, <1>6, <1>7, <1>8, <1>9, <1>10 DEF Next

(* The order of closeOnce. *)
LEMMA NextCloseInv ==
  TypeState /\ TypePc /\ CloseInv /\ EndInv /\ [Next]_vars => CloseInv'
<1> SUFFICES ASSUME TypeState, TypePc, CloseInv, EndInv, [Next]_vars
             PROVE  CloseInv'
  OBVIOUS
<1> USE DEF RestLabel, Finalizing, MayClose
<1>1. CASE UNCHANGED vars
  BY <1>1 DEF TypeState, TypePc, CloseInv, EndInv
<1>2. CASE Start \/ OpenHook \/ Elapse
  BY <1>2 DEF Start, OpenHook, Elapse, TypeState, TypePc, CloseInv, EndInv
<1>3. CASE CloseBody
  BY <1>3 DEF CloseBody, CloseSends, CloseRead, CloseForce, CloseSocket,
      TypeState, TypePc, CloseInv, EndInv
<1>4. CASE WriterNext
  BY <1>4 DEF WriterNext, WriterTop, WriterForced, WriterTakes, WriterDrains,
      WriterDrained, WriteOk, WriteFails, TypeState, TypePc, CloseInv, EndInv
<1>5. CASE ReaderNext
  BY <1>5 DEF ReaderNext, Read, ReadBad, ReadSubmitted, ReadNoFrame,
      ReadStopping, ReadQueueFull, ReadNext, ReadControl, ReadError, TypeState,
      TypePc, CloseInv, EndInv
<1>6. CASE HeartbeatNext
  BY <1>6 DEF HeartbeatNext, HeartbeatExpired, HeartbeatStops, TypeState,
      TypePc, CloseInv, EndInv
<1>7. CASE SupervisorNext
  BY <1>7 DEF SupervisorNext, Finalize, CloseHook, Finalized, TypeState,
      TypePc, CloseInv, EndInv
<1>8. CASE OwnerNext
  BY <1>8 DEF OwnerNext, StopIntake, Quiesce, QuiesceCancel, QuiesceDeadline,
      StopSends, SendsDrained, ForceClose, OwnerReturns, TypeState, TypePc,
      CloseInv, EndInv
<1>9. ASSUME NEW s \in Senders, SenderStep(s) PROVE CloseInv'
  BY <1>9 DEF SenderStep, SendBegin, SendQueue, SendReleased, SendAbandoned,
      TypeState, TypePc, CloseInv, EndInv
<1>10. ASSUME NEW p \in Closers, CloserStep(p) PROVE CloseInv'
  BY <1>10 DEF CloserStep, Report, CloseWon, CloseLost, CloseReturns,
      TypeState, TypePc, CloseInv, EndInv
<1> QED
  BY <1>1, <1>2, <1>3, <1>4, <1>5, <1>6, <1>7, <1>8, <1>9, <1>10 DEF Next

(* The owner cancels reads before it sets the deadline. *)
LEMMA NextOwnerInv ==
  TypePc /\ TypeFlags /\ TypeFault /\ OwnerInv /\ [Next]_vars => OwnerInv'
<1> SUFFICES ASSUME TypePc, TypeFlags, TypeFault, OwnerInv, [Next]_vars
             PROVE  OwnerInv'
  OBVIOUS
<1> USE DEF RestLabel
<1>1. CASE UNCHANGED vars
  BY <1>1 DEF TypePc, TypeFlags, TypeFault, OwnerInv
<1>2. CASE Start \/ OpenHook \/ Elapse
  BY <1>2 DEF Start, OpenHook, Elapse, TypePc, TypeFlags, TypeFault, OwnerInv
<1>3. CASE CloseBody
  BY <1>3 DEF CloseBody, CloseSends, CloseRead, CloseForce, CloseSocket,
      TypePc, TypeFlags, TypeFault, OwnerInv
<1>4. CASE WriterNext
  BY <1>4 DEF WriterNext, WriterTop, WriterForced, WriterTakes, WriterDrains,
      WriterDrained, WriteOk, WriteFails, TypePc, TypeFlags, TypeFault,
      OwnerInv
<1>5. CASE ReaderNext
  <2>1. CASE Read
    BY <2>1 DEF Read, TypePc, TypeFlags, TypeFault, OwnerInv
  <2>2. CASE ReadBad
    BY <2>2 DEF ReadBad, TypePc, TypeFlags, TypeFault, OwnerInv
  <2>3. CASE ReadSubmitted
    BY <2>3 DEF ReadSubmitted, TypePc, TypeFlags, TypeFault, OwnerInv
  <2>4. CASE ReadNoFrame
    BY <2>4 DEF ReadNoFrame, TypePc, TypeFlags, TypeFault, OwnerInv
  <2>5. CASE ReadStopping
    BY <2>5 DEF ReadStopping, TypePc, TypeFlags, TypeFault, OwnerInv
  <2>6. CASE ReadQueueFull
    BY <2>6 DEF ReadQueueFull, TypePc, TypeFlags, TypeFault, OwnerInv
  <2>7. CASE ReadNext
    BY <2>7 DEF ReadNext, TypePc, TypeFlags, TypeFault, OwnerInv
  <2>8. CASE ReadControl
    BY <2>8 DEF ReadControl, TypePc, TypeFlags, TypeFault, OwnerInv
  <2>9. CASE ReadError
    BY <2>9 DEF ReadError, TypePc, TypeFlags, TypeFault, OwnerInv
  <2> QED
    BY <1>5, <2>1, <2>2, <2>3, <2>4, <2>5, <2>6, <2>7, <2>8, <2>9 DEF ReaderNext
<1>6. CASE HeartbeatNext
  BY <1>6 DEF HeartbeatNext, HeartbeatExpired, HeartbeatStops, TypePc,
      TypeFlags, TypeFault, OwnerInv
<1>7. CASE SupervisorNext
  BY <1>7 DEF SupervisorNext, Finalize, CloseHook, Finalized, TypePc,
      TypeFlags, TypeFault, OwnerInv
<1>8. CASE OwnerNext
  BY <1>8 DEF OwnerNext, StopIntake, Quiesce, QuiesceCancel, QuiesceDeadline,
      StopSends, SendsDrained, ForceClose, OwnerReturns, TypePc, TypeFlags,
      TypeFault, OwnerInv
<1>9. ASSUME NEW s \in Senders, SenderStep(s) PROVE OwnerInv'
  BY <1>9 DEF SenderStep, SendBegin, SendQueue, SendReleased, SendAbandoned,
      TypePc, TypeFlags, TypeFault, OwnerInv
<1>10. ASSUME NEW p \in Closers, CloserStep(p) PROVE OwnerInv'
  BY <1>10 DEF CloserStep, Report, CloseWon, CloseLost, CloseReturns, TypePc,
      TypeFlags, TypeFault, OwnerInv
<1> QED
  BY <1>1, <1>2, <1>3, <1>4, <1>5, <1>6, <1>7, <1>8, <1>9, <1>10 DEF Next

(* A read error this side provoked finds reads cancelled. *)
LEMMA NextInputInv ==
  TypeState /\ TypePc /\ TypeFlags /\ TypeInput /\ EndInv /\ CloseInv /\
    OwnerInv /\ InputInv /\ [Next]_vars => InputInv'
<1> SUFFICES ASSUME TypeState, TypePc, TypeFlags, TypeInput, EndInv, CloseInv,
                    OwnerInv, InputInv, [Next]_vars
             PROVE  InputInv'
  OBVIOUS
<1> USE DEF RestLabel, Finalizing
<1>1. CASE UNCHANGED vars
  BY <1>1 DEF TypeState, TypePc, TypeFlags, TypeInput, EndInv, CloseInv,
      OwnerInv, InputInv
<1>2. CASE Start \/ OpenHook \/ Elapse
  BY <1>2 DEF Start, OpenHook, Elapse, TypeState, TypePc, TypeFlags, TypeInput,
      EndInv, CloseInv, OwnerInv, InputInv
<1>3. CASE CloseBody
  BY <1>3 DEF CloseBody, CloseSends, CloseRead, CloseForce, CloseSocket,
      TypeState, TypePc, TypeFlags, TypeInput, EndInv, CloseInv, OwnerInv,
      InputInv
<1>4. CASE WriterNext
  BY <1>4 DEF WriterNext, WriterTop, WriterForced, WriterTakes, WriterDrains,
      WriterDrained, WriteOk, WriteFails, TypeState, TypePc, TypeFlags,
      TypeInput, EndInv, CloseInv, OwnerInv, InputInv
<1>5. CASE ReaderNext
  <2>1. CASE ReadBad
    BY <2>1 DEF ReadBad, TypeState, TypePc, TypeFlags, TypeInput, EndInv,
        CloseInv, OwnerInv, InputInv
  <2>2. CASE ReadSubmitted
    BY <2>2 DEF ReadSubmitted, TypeState, TypePc, TypeFlags, TypeInput, EndInv,
        CloseInv, OwnerInv, InputInv
  <2>3. CASE ReadNoFrame
    BY <2>3 DEF ReadNoFrame, TypeState, TypePc, TypeFlags, TypeInput, EndInv,
        CloseInv, OwnerInv, InputInv
  <2>4. CASE ReadStopping
    BY <2>4 DEF ReadStopping, TypeState, TypePc, TypeFlags, TypeInput, EndInv,
        CloseInv, OwnerInv, InputInv
  <2>5. CASE ReadQueueFull
    BY <2>5 DEF ReadQueueFull, TypeState, TypePc, TypeFlags, TypeInput, EndInv,
        CloseInv, OwnerInv, InputInv
  <2>6. CASE ReadNext
    BY <2>6 DEF ReadNext, TypeState, TypePc, TypeFlags, TypeInput, EndInv,
        CloseInv, OwnerInv, InputInv
  <2>7. CASE ReadControl
    BY <2>7 DEF ReadControl, TypeState, TypePc, TypeFlags, TypeInput, EndInv,
        CloseInv, OwnerInv, InputInv
  <2>8. CASE ReadError
    BY <2>8 DEF ReadError, TypeState, TypePc, TypeFlags, TypeInput, EndInv,
        CloseInv, OwnerInv, InputInv
  <2>9. CASE Read
    BY <2>9, ConnectionAssumption DEF Read, TypeState, TypePc, TypeFlags,
        TypeInput, EndInv, CloseInv, OwnerInv, InputInv, Inputs, Cut
  <2> QED
    BY <1>5, <2>1, <2>2, <2>3, <2>4, <2>5, <2>6, <2>7, <2>8, <2>9 DEF ReaderNext
<1>6. CASE HeartbeatNext
  BY <1>6 DEF HeartbeatNext, HeartbeatExpired, HeartbeatStops, TypeState,
      TypePc, TypeFlags, TypeInput, EndInv, CloseInv, OwnerInv, InputInv
<1>7. CASE SupervisorNext
  BY <1>7 DEF SupervisorNext, Finalize, CloseHook, Finalized, TypeState,
      TypePc, TypeFlags, TypeInput, EndInv, CloseInv, OwnerInv, InputInv
<1>8. CASE OwnerNext
  BY <1>8 DEF OwnerNext, StopIntake, Quiesce, QuiesceCancel, QuiesceDeadline,
      StopSends, SendsDrained, ForceClose, OwnerReturns, TypeState, TypePc,
      TypeFlags, TypeInput, EndInv, CloseInv, OwnerInv, InputInv
<1>9. ASSUME NEW s \in Senders, SenderStep(s) PROVE InputInv'
  BY <1>9 DEF SenderStep, SendBegin, SendQueue, SendReleased, SendAbandoned,
      TypeState, TypePc, TypeFlags, TypeInput, EndInv, CloseInv, OwnerInv,
      InputInv
<1>10. ASSUME NEW p \in Closers, CloserStep(p) PROVE InputInv'
  BY <1>10 DEF CloserStep, Report, CloseWon, CloseLost, CloseReturns,
      TypeState, TypePc, TypeFlags, TypeInput, EndInv, CloseInv, OwnerInv,
      InputInv
<1> QED
  BY <1>1, <1>2, <1>3, <1>4, <1>5, <1>6, <1>7, <1>8, <1>9, <1>10 DEF Next

(* Failures of our own making come after the close. *)
LEMMA NextFaultInv ==
  TypeState /\ TypePc /\ TypeFault /\ TypeInput /\ StartInv /\ EndInv /\
    CloseInv /\ InputInv /\ FaultInv /\ [Next]_vars => FaultInv'
<1> SUFFICES ASSUME TypeState, TypePc, TypeFault, TypeInput, StartInv, EndInv,
                    CloseInv, InputInv, FaultInv, [Next]_vars
             PROVE  FaultInv'
  OBVIOUS
<1> USE DEF RestLabel, Finalizing, ReportOrder, MayClose
<1>1. CASE UNCHANGED vars
  BY <1>1 DEF TypeState, TypePc, TypeFault, TypeInput, StartInv, EndInv,
      CloseInv, InputInv, FaultInv
<1>2. CASE Start \/ OpenHook \/ Elapse
  BY <1>2 DEF Start, OpenHook, Elapse, TypeState, TypePc, TypeFault, TypeInput,
      StartInv, EndInv, CloseInv, InputInv, FaultInv
<1>3. CASE CloseBody
  BY <1>3 DEF CloseBody, CloseSends, CloseRead, CloseForce, CloseSocket,
      TypeState, TypePc, TypeFault, TypeInput, StartInv, EndInv, CloseInv,
      InputInv, FaultInv
<1>4. CASE WriterNext
  <2>1. CASE WriterTop
    BY <2>1 DEF WriterTop, TypeState, TypePc, TypeFault, TypeInput, StartInv,
        EndInv, CloseInv, InputInv, FaultInv
  <2>2. CASE WriterForced
    BY <2>2 DEF WriterForced, TypeState, TypePc, TypeFault, TypeInput,
        StartInv, EndInv, CloseInv, InputInv, FaultInv
  <2>3. CASE WriterTakes
    BY <2>3 DEF WriterTakes, TypeState, TypePc, TypeFault, TypeInput, StartInv,
        EndInv, CloseInv, InputInv, FaultInv
  <2>4. CASE WriterDrains
    BY <2>4 DEF WriterDrains, TypeState, TypePc, TypeFault, TypeInput,
        StartInv, EndInv, CloseInv, InputInv, FaultInv
  <2>5. CASE WriterDrained
    BY <2>5 DEF WriterDrained, TypeState, TypePc, TypeFault, TypeInput,
        StartInv, EndInv, CloseInv, InputInv, FaultInv
  <2>6. CASE WriteOk
    BY <2>6 DEF WriteOk, TypeState, TypePc, TypeFault, TypeInput, StartInv,
        EndInv, CloseInv, InputInv, FaultInv
  <2>7. CASE WriteFails
    BY <2>7 DEF WriteFails, TypeState, TypePc, TypeFault, TypeInput, StartInv,
        EndInv, CloseInv, InputInv, FaultInv
  <2> QED
    BY <1>4, <2>1, <2>2, <2>3, <2>4, <2>5, <2>6, <2>7 DEF WriterNext
<1>5. CASE ReaderNext
  <2>1. CASE Read
    BY <2>1 DEF Read, TypeState, TypePc, TypeFault, TypeInput, StartInv,
        EndInv, CloseInv, InputInv, FaultInv
  <2>2. CASE ReadBad
    BY <2>2 DEF ReadBad, TypeState, TypePc, TypeFault, TypeInput, StartInv,
        EndInv, CloseInv, InputInv, FaultInv
  <2>3. CASE ReadSubmitted
    BY <2>3 DEF ReadSubmitted, TypeState, TypePc, TypeFault, TypeInput,
        StartInv, EndInv, CloseInv, InputInv, FaultInv
  <2>4. CASE ReadNoFrame
    BY <2>4 DEF ReadNoFrame, TypeState, TypePc, TypeFault, TypeInput, StartInv,
        EndInv, CloseInv, InputInv, FaultInv
  <2>5. CASE ReadStopping
    BY <2>5 DEF ReadStopping, TypeState, TypePc, TypeFault, TypeInput,
        StartInv, EndInv, CloseInv, InputInv, FaultInv
  <2>6. CASE ReadQueueFull
    BY <2>6 DEF ReadQueueFull, TypeState, TypePc, TypeFault, TypeInput,
        StartInv, EndInv, CloseInv, InputInv, FaultInv
  <2>7. CASE ReadNext
    BY <2>7 DEF ReadNext, TypeState, TypePc, TypeFault, TypeInput, StartInv,
        EndInv, CloseInv, InputInv, FaultInv
  <2>8. CASE ReadControl
    BY <2>8 DEF ReadControl, TypeState, TypePc, TypeFault, TypeInput, StartInv,
        EndInv, CloseInv, InputInv, FaultInv
  <2>9. CASE ReadError
    BY <2>9 DEF ReadError, TypeState, TypePc, TypeFault, TypeInput, StartInv,
        EndInv, CloseInv, InputInv, FaultInv
  <2> QED
    BY <1>5, <2>1, <2>2, <2>3, <2>4, <2>5, <2>6, <2>7, <2>8, <2>9 DEF ReaderNext
<1>6. CASE HeartbeatNext
  BY <1>6 DEF HeartbeatNext, HeartbeatExpired, HeartbeatStops, TypeState,
      TypePc, TypeFault, TypeInput, StartInv, EndInv, CloseInv, InputInv,
      FaultInv
<1>7. CASE SupervisorNext
  BY <1>7 DEF SupervisorNext, Finalize, CloseHook, Finalized, TypeState,
      TypePc, TypeFault, TypeInput, StartInv, EndInv, CloseInv, InputInv,
      FaultInv
<1>8. CASE OwnerNext
  BY <1>8 DEF OwnerNext, StopIntake, Quiesce, QuiesceCancel, QuiesceDeadline,
      StopSends, SendsDrained, ForceClose, OwnerReturns, TypeState, TypePc,
      TypeFault, TypeInput, StartInv, EndInv, CloseInv, InputInv, FaultInv
<1>9. ASSUME NEW s \in Senders, SenderStep(s) PROVE FaultInv'
  BY <1>9 DEF SenderStep, SendBegin, SendQueue, SendReleased, SendAbandoned,
      TypeState, TypePc, TypeFault, TypeInput, StartInv, EndInv, CloseInv,
      InputInv, FaultInv
<1>10. ASSUME NEW p \in Closers, CloserStep(p) PROVE FaultInv'
  BY <1>10 DEF CloserStep, Report, CloseWon, CloseLost, CloseReturns,
      TypeState, TypePc, TypeFault, TypeInput, StartInv, EndInv, CloseInv,
      InputInv, FaultInv
<1> QED
  BY <1>1, <1>2, <1>3, <1>4, <1>5, <1>6, <1>7, <1>8, <1>9, <1>10 DEF Next

(* A failure that is only closed on is not reported. *)
LEMMA NextReportInv ==
  TypePc /\ TypeFault /\ ReportInv /\ [Next]_vars => ReportInv'
<1> SUFFICES ASSUME TypePc, TypeFault, ReportInv, [Next]_vars PROVE ReportInv'
  OBVIOUS
<1> USE DEF RestLabel, ReportOrder
<1>1. CASE UNCHANGED vars
  BY <1>1 DEF TypePc, TypeFault, ReportInv
<1>2. CASE Start \/ OpenHook \/ Elapse
  BY <1>2 DEF Start, OpenHook, Elapse, TypePc, TypeFault, ReportInv
<1>3. CASE CloseBody
  BY <1>3 DEF CloseBody, CloseSends, CloseRead, CloseForce, CloseSocket,
      TypePc, TypeFault, ReportInv
<1>4. CASE WriterNext
  BY <1>4 DEF WriterNext, WriterTop, WriterForced, WriterTakes, WriterDrains,
      WriterDrained, WriteOk, WriteFails, TypePc, TypeFault, ReportInv
<1>5. CASE ReaderNext
  <2>1. CASE Read
    BY <2>1 DEF Read, TypePc, TypeFault, ReportInv
  <2>2. CASE ReadBad
    BY <2>2 DEF ReadBad, TypePc, TypeFault, ReportInv
  <2>3. CASE ReadSubmitted
    BY <2>3 DEF ReadSubmitted, TypePc, TypeFault, ReportInv
  <2>4. CASE ReadNoFrame
    BY <2>4 DEF ReadNoFrame, TypePc, TypeFault, ReportInv
  <2>5. CASE ReadStopping
    BY <2>5 DEF ReadStopping, TypePc, TypeFault, ReportInv
  <2>6. CASE ReadQueueFull
    BY <2>6 DEF ReadQueueFull, TypePc, TypeFault, ReportInv
  <2>7. CASE ReadNext
    BY <2>7 DEF ReadNext, TypePc, TypeFault, ReportInv
  <2>8. CASE ReadControl
    BY <2>8 DEF ReadControl, TypePc, TypeFault, ReportInv
  <2>9. CASE ReadError
    BY <2>9 DEF ReadError, TypePc, TypeFault, ReportInv
  <2> QED
    BY <1>5, <2>1, <2>2, <2>3, <2>4, <2>5, <2>6, <2>7, <2>8, <2>9 DEF ReaderNext
<1>6. CASE HeartbeatNext
  BY <1>6 DEF HeartbeatNext, HeartbeatExpired, HeartbeatStops, TypePc,
      TypeFault, ReportInv
<1>7. CASE SupervisorNext
  BY <1>7 DEF SupervisorNext, Finalize, CloseHook, Finalized, TypePc,
      TypeFault, ReportInv
<1>8. CASE OwnerNext
  BY <1>8 DEF OwnerNext, StopIntake, Quiesce, QuiesceCancel, QuiesceDeadline,
      StopSends, SendsDrained, ForceClose, OwnerReturns, TypePc, TypeFault,
      ReportInv
<1>9. ASSUME NEW s \in Senders, SenderStep(s) PROVE ReportInv'
  BY <1>9 DEF SenderStep, SendBegin, SendQueue, SendReleased, SendAbandoned,
      TypePc, TypeFault, ReportInv
<1>10. ASSUME NEW p \in Closers, CloserStep(p) PROVE ReportInv'
  BY <1>10 DEF CloserStep, Report, CloseWon, CloseLost, CloseReturns, TypePc,
      TypeFault, ReportInv
<1> QED
  BY <1>1, <1>2, <1>3, <1>4, <1>5, <1>6, <1>7, <1>8, <1>9, <1>10 DEF Next

(* One winner, whose failure is the reason of the close. *)
LEMMA NextWinnerInv ==
  TypeState /\ TypePc /\ TypeFault /\ StartInv /\ CloseInv /\ ReportInv /\
    WinnerInv /\ [Next]_vars => WinnerInv'
<1> SUFFICES ASSUME TypeState, TypePc, TypeFault, StartInv, CloseInv,
                    ReportInv, WinnerInv, [Next]_vars
             PROVE  WinnerInv'
  OBVIOUS
<1> USE DEF RestLabel, ReportOrder, MayClose
<1>1. CASE UNCHANGED vars
  BY <1>1 DEF TypeState, TypePc, TypeFault, StartInv, CloseInv, ReportInv,
      WinnerInv, Winner, Own
<1>2. CASE Start \/ OpenHook \/ Elapse
  <2>1. CASE Start
    BY <2>1 DEF Start, TypeState, TypePc, TypeFault, StartInv, CloseInv,
        ReportInv, WinnerInv, Winner, Own
  <2>2. CASE OpenHook
    BY <2>2 DEF OpenHook, TypeState, TypePc, TypeFault, StartInv, CloseInv,
        ReportInv, WinnerInv, Winner, Own
  <2>3. CASE Elapse
    BY <2>3 DEF Elapse, TypeState, TypePc, TypeFault, StartInv, CloseInv,
        ReportInv, WinnerInv, Winner, Own
  <2> QED
    BY <1>2, <2>1, <2>2, <2>3
<1>3. CASE CloseBody
  BY <1>3 DEF CloseBody, CloseSends, CloseRead, CloseForce, CloseSocket,
      TypeState, TypePc, TypeFault, StartInv, CloseInv, ReportInv, WinnerInv,
      Winner, Own
<1>4. CASE WriterNext
  BY <1>4 DEF WriterNext, WriterTop, WriterForced, WriterTakes, WriterDrains,
      WriterDrained, WriteOk, WriteFails, TypeState, TypePc, TypeFault,
      StartInv, CloseInv, ReportInv, WinnerInv, Winner, Own
<1>5. CASE ReaderNext
  <2>1. CASE Read
    BY <2>1 DEF Read, TypeState, TypePc, TypeFault, StartInv, CloseInv,
        ReportInv, WinnerInv, Winner, Own
  <2>2. CASE ReadBad
    BY <2>2 DEF ReadBad, TypeState, TypePc, TypeFault, StartInv, CloseInv,
        ReportInv, WinnerInv, Winner, Own
  <2>3. CASE ReadSubmitted
    BY <2>3 DEF ReadSubmitted, TypeState, TypePc, TypeFault, StartInv,
        CloseInv, ReportInv, WinnerInv, Winner, Own
  <2>4. CASE ReadNoFrame
    BY <2>4 DEF ReadNoFrame, TypeState, TypePc, TypeFault, StartInv, CloseInv,
        ReportInv, WinnerInv, Winner, Own
  <2>5. CASE ReadStopping
    BY <2>5 DEF ReadStopping, TypeState, TypePc, TypeFault, StartInv, CloseInv,
        ReportInv, WinnerInv, Winner, Own
  <2>6. CASE ReadQueueFull
    BY <2>6 DEF ReadQueueFull, TypeState, TypePc, TypeFault, StartInv,
        CloseInv, ReportInv, WinnerInv, Winner, Own
  <2>7. CASE ReadNext
    BY <2>7 DEF ReadNext, TypeState, TypePc, TypeFault, StartInv, CloseInv,
        ReportInv, WinnerInv, Winner, Own
  <2>8. CASE ReadControl
    BY <2>8 DEF ReadControl, TypeState, TypePc, TypeFault, StartInv, CloseInv,
        ReportInv, WinnerInv, Winner, Own
  <2>9. CASE ReadError
    BY <2>9 DEF ReadError, TypeState, TypePc, TypeFault, StartInv, CloseInv,
        ReportInv, WinnerInv, Winner, Own
  <2> QED
    BY <1>5, <2>1, <2>2, <2>3, <2>4, <2>5, <2>6, <2>7, <2>8, <2>9 DEF ReaderNext
<1>6. CASE HeartbeatNext
  BY <1>6 DEF HeartbeatNext, HeartbeatExpired, HeartbeatStops, TypeState,
      TypePc, TypeFault, StartInv, CloseInv, ReportInv, WinnerInv, Winner, Own
<1>7. CASE SupervisorNext
  BY <1>7 DEF SupervisorNext, Finalize, CloseHook, Finalized, TypeState,
      TypePc, TypeFault, StartInv, CloseInv, ReportInv, WinnerInv, Winner, Own
<1>8. CASE OwnerNext
  BY <1>8 DEF OwnerNext, StopIntake, Quiesce, QuiesceCancel, QuiesceDeadline,
      StopSends, SendsDrained, ForceClose, OwnerReturns, TypeState, TypePc,
      TypeFault, StartInv, CloseInv, ReportInv, WinnerInv, Winner, Own
<1>9. ASSUME NEW s \in Senders, SenderStep(s) PROVE WinnerInv'
  BY <1>9 DEF SenderStep, SendBegin, SendQueue, SendReleased, SendAbandoned,
      TypeState, TypePc, TypeFault, StartInv, CloseInv, ReportInv, WinnerInv,
      Winner, Own
<1>10. ASSUME NEW p \in Closers, CloserStep(p) PROVE WinnerInv'
  <2>1. CASE CloseWon(p)
    BY <2>1 DEF CloseWon, TypeState, TypePc, TypeFault, StartInv, CloseInv,
        ReportInv, WinnerInv, Winner, Own
  <2>2. CASE CloseLost(p)
    BY <2>2 DEF CloseLost, TypeState, TypePc, TypeFault, StartInv, CloseInv,
        ReportInv, WinnerInv, Winner, Own
  <2>3. CASE CloseReturns(p)
    BY <2>3 DEF CloseReturns, TypeState, TypePc, TypeFault, StartInv, CloseInv,
        ReportInv, WinnerInv, Winner, Own
  <2>4. CASE Report(p)
    <3> DEFINE r == <<p, fault[p].op, fault[p].cause>>
    <3> USE DEF Report
    <3>1. /\ reported' = reported \cup {r}
          /\ UNCHANGED <<kind, closeStep, reason>>
          /\ \A q \in Closers : q # p => pc'[q] = pc[q] /\ fault'[q] = fault[q]
          /\ pc[p] = "report"
      BY <2>4, <1>10 DEF TypePc, TypeFault
    <3>2. r[1] = p /\ r[2] = fault[p].op /\ r[3] = fault[p].cause
      OBVIOUS
    <3>3. CASE fault[p].report = "first"
      <4>1. pc'[p] = "close" /\ fault' = fault
        BY <2>4, <1>10, <3>3 DEF TypePc, TypeFault
      <4>2. \A q \in Closers : Winner(q)' => Winner(q)
        BY <3>1, <4>1 DEF Winner
      <4>3. kind = "websocket" => p \notin {"reader", "writer"}
        BY <3>3 DEF WinnerInv
      <4>4. kind = "websocket" => Own' = Own
        BY <3>1, <3>2, <4>3 DEF Own
      <4> HIDE DEF r
      <4> QED
        BY <3>1, <4>1, <4>2, <4>4 DEF WinnerInv
    <3>4. CASE fault[p].report # "first"
      <4>1. pc'[p] \notin {"closing", "report"} /\ fault'[p].report = "never"
        BY <2>4, <1>10, <3>4 DEF TypePc, TypeFault, RestLabel
      <4>2. CASE Winner(p)
        <5>1. \A q \in Closers : ~Winner(q)'
          BY <3>1, <4>1, <4>2, <1>10 DEF WinnerInv, Winner
        <5>2. kind = "websocket" => Own = {}
          BY <4>2, <1>10 DEF WinnerInv
        <5>3. kind = "websocket" => Own' \subseteq {r}
          BY <3>1, <5>2 DEF Own
        <5>4. closeStep # "none" /\ reason = [op |-> r[2], cause |-> r[3]]
          BY <3>2, <4>2, <1>10 DEF WinnerInv
        <5>5. kind = "websocket" => \A q \in {"reader", "writer"} : fault'[q].report # "first"
          BY <3>1, <4>1 DEF WinnerInv
        <5> HIDE DEF r
        <5> QED
          BY <3>1, <5>1, <5>3, <5>4, <5>5 DEF WinnerInv
      <4>3. CASE ~Winner(p)
        <5>1. fault[p].report = "never"
          BY <3>1, <3>4, <4>3, <1>10 DEF Winner, TypeFault
        <5> QED
          BY <5>1, <3>1, <1>10 DEF ReportInv
      <4> QED
        BY <4>2, <4>3
    <3> QED
      BY <3>3, <3>4
  <2> QED
    BY <1>10, <2>1, <2>2, <2>3, <2>4 DEF CloserStep
<1> QED
  BY <1>1, <1>2, <1>3, <1>4, <1>5, <1>6, <1>7, <1>8, <1>9, <1>10 DEF Next

(* Where the writer is says what it holds. *)
LEMMA NextWriterInv ==
  TypePc /\ TypeFlags /\ TypeMessages /\ TypeState /\ StartInv /\ DrainInv
    /\ WriterInv /\ [Next]_vars => WriterInv'
<1> SUFFICES ASSUME TypePc, TypeFlags, TypeMessages, TypeState, StartInv,
                    DrainInv, WriterInv, [Next]_vars
             PROVE  WriterInv'
  OBVIOUS
<1> USE DEF RestLabel, NoSendInFlight
<1>1. CASE UNCHANGED vars
  BY <1>1 DEF TypePc, TypeFlags, TypeMessages, TypeState, StartInv, DrainInv,
      WriterInv
<1>2. CASE Start \/ OpenHook \/ Elapse
  BY <1>2 DEF Start, OpenHook, Elapse, TypePc, TypeFlags, TypeMessages,
      TypeState, StartInv, DrainInv, WriterInv
<1>3. CASE CloseBody
  BY <1>3 DEF CloseBody, CloseSends, CloseRead, CloseForce, CloseSocket,
      TypePc, TypeFlags, TypeMessages, TypeState, StartInv, DrainInv, WriterInv
<1>4. CASE WriterNext
  BY <1>4 DEF WriterNext, WriterTop, WriterForced, WriterTakes, WriterDrains,
      WriterDrained, WriteOk, WriteFails, TypePc, TypeFlags, TypeMessages,
      TypeState, StartInv, DrainInv, WriterInv
<1>5. CASE ReaderNext
  BY <1>5, ZenonT(60) DEF ReaderNext, Read, ReadBad, ReadSubmitted, ReadNoFrame,
      ReadStopping, ReadQueueFull, ReadNext, ReadControl, ReadError, TypePc,
      TypeFlags, TypeMessages, TypeState, StartInv, DrainInv, WriterInv
<1>6. CASE HeartbeatNext
  BY <1>6 DEF HeartbeatNext, HeartbeatExpired, HeartbeatStops, TypePc,
      TypeFlags, TypeMessages, TypeState, StartInv, DrainInv, WriterInv
<1>7. CASE SupervisorNext
  BY <1>7 DEF SupervisorNext, Finalize, CloseHook, Finalized, TypePc,
      TypeFlags, TypeMessages, TypeState, StartInv, DrainInv, WriterInv
<1>8. CASE OwnerNext
  BY <1>8 DEF OwnerNext, StopIntake, Quiesce, QuiesceCancel, QuiesceDeadline,
      StopSends, SendsDrained, ForceClose, OwnerReturns, TypePc, TypeFlags,
      TypeMessages, TypeState, StartInv, DrainInv, WriterInv
<1>9. ASSUME NEW s \in Senders, SenderStep(s) PROVE WriterInv'
  BY <1>9 DEF SenderStep, SendBegin, SendQueue, SendReleased, SendAbandoned,
      TypePc, TypeFlags, TypeMessages, TypeState, StartInv, DrainInv, WriterInv
<1>10. ASSUME NEW p \in Closers, CloserStep(p) PROVE WriterInv'
  BY <1>10 DEF CloserStep, Report, CloseWon, CloseLost, CloseReturns, TypePc,
      TypeFlags, TypeMessages, TypeState, StartInv, DrainInv, WriterInv
<1> QED
  BY <1>1, <1>2, <1>3, <1>4, <1>5, <1>6, <1>7, <1>8, <1>9, <1>10 DEF Next

(* No Send begins once the writer drains. *)
LEMMA NextDrainInv ==
  TypePc /\ TypeFlags /\ TypeMessages /\ TypeState /\ DrainInv /\
    [Next]_vars => DrainInv'
<1> SUFFICES ASSUME TypePc, TypeFlags, TypeMessages, TypeState, DrainInv,
                    [Next]_vars
             PROVE  DrainInv'
  OBVIOUS
<1> USE DEF NoSendInFlight
<1>1. CASE UNCHANGED vars
  BY <1>1 DEF TypePc, TypeFlags, TypeMessages, TypeState, DrainInv
<1>2. CASE Start \/ OpenHook \/ Elapse
  BY <1>2 DEF Start, OpenHook, Elapse, TypePc, TypeFlags, TypeMessages,
      TypeState, DrainInv
<1>3. CASE CloseBody
  BY <1>3 DEF CloseBody, CloseSends, CloseRead, CloseForce, CloseSocket,
      TypePc, TypeFlags, TypeMessages, TypeState, DrainInv
<1>4. CASE WriterNext
  BY <1>4 DEF WriterNext, WriterTop, WriterForced, WriterTakes, WriterDrains,
      WriterDrained, WriteOk, WriteFails, TypePc, TypeFlags, TypeMessages,
      TypeState, DrainInv
<1>5. CASE ReaderNext
  <2>1. CASE Read
    BY <2>1 DEF Read, TypePc, TypeFlags, TypeMessages, TypeState, DrainInv
  <2>2. CASE ReadBad
    BY <2>2 DEF ReadBad, TypePc, TypeFlags, TypeMessages, TypeState, DrainInv
  <2>3. CASE ReadSubmitted
    BY <2>3 DEF ReadSubmitted, TypePc, TypeFlags, TypeMessages, TypeState,
        DrainInv
  <2>4. CASE ReadNoFrame
    BY <2>4 DEF ReadNoFrame, TypePc, TypeFlags, TypeMessages, TypeState,
        DrainInv
  <2>5. CASE ReadStopping
    BY <2>5 DEF ReadStopping, TypePc, TypeFlags, TypeMessages, TypeState,
        DrainInv
  <2>6. CASE ReadQueueFull
    BY <2>6 DEF ReadQueueFull, TypePc, TypeFlags, TypeMessages, TypeState,
        DrainInv
  <2>7. CASE ReadNext
    BY <2>7 DEF ReadNext, TypePc, TypeFlags, TypeMessages, TypeState, DrainInv
  <2>8. CASE ReadControl
    BY <2>8 DEF ReadControl, TypePc, TypeFlags, TypeMessages, TypeState,
        DrainInv
  <2>9. CASE ReadError
    BY <2>9 DEF ReadError, TypePc, TypeFlags, TypeMessages, TypeState, DrainInv
  <2> QED
    BY <1>5, <2>1, <2>2, <2>3, <2>4, <2>5, <2>6, <2>7, <2>8, <2>9 DEF ReaderNext
<1>6. CASE HeartbeatNext
  BY <1>6 DEF HeartbeatNext, HeartbeatExpired, HeartbeatStops, TypePc,
      TypeFlags, TypeMessages, TypeState, DrainInv
<1>7. CASE SupervisorNext
  BY <1>7 DEF SupervisorNext, Finalize, CloseHook, Finalized, TypePc,
      TypeFlags, TypeMessages, TypeState, DrainInv
<1>8. CASE OwnerNext
  BY <1>8 DEF OwnerNext, StopIntake, Quiesce, QuiesceCancel, QuiesceDeadline,
      StopSends, SendsDrained, ForceClose, OwnerReturns, TypePc, TypeFlags,
      TypeMessages, TypeState, DrainInv
<1>9. ASSUME NEW s \in Senders, SenderStep(s) PROVE DrainInv'
  BY <1>9 DEF SenderStep, SendBegin, SendQueue, SendReleased, SendAbandoned,
      TypePc, TypeFlags, TypeMessages, TypeState, DrainInv
<1>10. ASSUME NEW p \in Closers, CloserStep(p) PROVE DrainInv'
  BY <1>10 DEF CloserStep, Report, CloseWon, CloseLost, CloseReturns, TypePc,
      TypeFlags, TypeMessages, TypeState, DrainInv
<1> QED
  BY <1>1, <1>2, <1>3, <1>4, <1>5, <1>6, <1>7, <1>8, <1>9, <1>10 DEF Next

LEMMA Sequencing ==
  ASSUME NEW S, NEW a \in Seq(S), NEW b \in Seq(S), NEW m \in S
  PROVE  /\ Append(a \o b, m) = a \o Append(b, m)
         /\ b # <<>> => a \o b = Append(a, Head(b)) \o Tail(b)
         /\ a \o <<>> = a
<1>1. Append(a \o b, m) = a \o Append(b, m)
  OBVIOUS
<1>2. ASSUME b # <<>> PROVE a \o b = Append(a, Head(b)) \o Tail(b)
  BY <1>2
<1>3. a \o <<>> = a
  OBVIOUS
<1> QED
  BY <1>1, <1>2, <1>3

(* Nothing is lost between Send and the transport. *)
LEMMA NextQueueInv ==
  TypePc /\ TypeMessages /\ WriterInv /\ DrainInv /\ QueueInv /\ [Next]_vars
    => QueueInv'
<1> SUFFICES ASSUME TypePc, TypeMessages, WriterInv, DrainInv, QueueInv,
                    [Next]_vars
             PROVE  QueueInv'
  OBVIOUS
<1> USE DEF NoSendInFlight
<1>1. CASE UNCHANGED vars
  BY <1>1 DEF TypePc, TypeMessages, WriterInv, DrainInv, QueueInv
<1>2. CASE Start \/ OpenHook \/ Elapse
  BY <1>2 DEF Start, OpenHook, Elapse, TypePc, TypeMessages, WriterInv,
      DrainInv, QueueInv
<1>3. CASE CloseBody
  BY <1>3 DEF CloseBody, CloseSends, CloseRead, CloseForce, CloseSocket,
      TypePc, TypeMessages, WriterInv, DrainInv, QueueInv
<1>4. CASE WriterNext
  <2>1. CASE WriterTop
    BY <2>1 DEF WriterTop, TypePc, TypeMessages, WriterInv, DrainInv, QueueInv
  <2>2. CASE WriterForced
    BY <2>2 DEF WriterForced, TypePc, TypeMessages, WriterInv, DrainInv,
        QueueInv
  <2>3. CASE WriterDrains
    BY <2>3 DEF WriterDrains, TypePc, TypeMessages, WriterInv, DrainInv,
        QueueInv
  <2>4. CASE WriteOk
    BY <2>4 DEF WriteOk, TypePc, TypeMessages, WriterInv, DrainInv, QueueInv
  <2>5. CASE WriteFails
    BY <2>5 DEF WriteFails, TypePc, TypeMessages, WriterInv, DrainInv, QueueInv
  <2>6. CASE WriterDrained
    BY <2>6 DEF WriterDrained, TypePc, TypeMessages, WriterInv, DrainInv,
        QueueInv
  <2>7. CASE WriterTakes
    <3> USE DEF WriterTakes, TypeMessages
    <3>1. Head(outgoing) \in Senders /\ Tail(outgoing) \in Seq(Senders)
      BY <2>7
    <3>2. written \o outgoing = Append(written, Head(outgoing)) \o Tail(outgoing)
      BY <2>7, <3>1, Sequencing
    <3>3. inWrite = {} /\ writerExit = "none"
      BY <2>7 DEF WriterInv
    <3>4. /\ outgoing' = Tail(outgoing) /\ inWrite' = {Head(outgoing)}
          /\ UNCHANGED <<written, sent, writerExit>>
      BY <2>7
    <3> QED
      BY <3>2, <3>3, <3>4 DEF QueueInv
  <2> QED
    BY <1>4, <2>1, <2>2, <2>3, <2>4, <2>5, <2>6, <2>7 DEF WriterNext
<1>5. CASE ReaderNext
  BY <1>5 DEF ReaderNext, Read, ReadBad, ReadSubmitted, ReadNoFrame,
      ReadStopping, ReadQueueFull, ReadNext, ReadControl, ReadError, TypePc,
      TypeMessages, WriterInv, DrainInv, QueueInv
<1>6. CASE HeartbeatNext
  BY <1>6 DEF HeartbeatNext, HeartbeatExpired, HeartbeatStops, TypePc,
      TypeMessages, WriterInv, DrainInv, QueueInv
<1>7. CASE SupervisorNext
  BY <1>7 DEF SupervisorNext, Finalize, CloseHook, Finalized, TypePc,
      TypeMessages, WriterInv, DrainInv, QueueInv
<1>8. CASE OwnerNext
  BY <1>8 DEF OwnerNext, StopIntake, Quiesce, QuiesceCancel, QuiesceDeadline,
      StopSends, SendsDrained, ForceClose, OwnerReturns, TypePc, TypeMessages,
      WriterInv, DrainInv, QueueInv
<1>9. ASSUME NEW s \in Senders, SenderStep(s) PROVE QueueInv'
  <2>1. CASE SendBegin(s)
    BY <2>1 DEF SendBegin, TypePc, TypeMessages, WriterInv, DrainInv, QueueInv
  <2>2. CASE SendReleased(s)
    BY <2>2 DEF SendReleased, TypePc, TypeMessages, WriterInv, DrainInv,
        QueueInv
  <2>3. CASE SendAbandoned(s)
    BY <2>3 DEF SendAbandoned, TypePc, TypeMessages, WriterInv, DrainInv,
        QueueInv
  <2>4. CASE SendQueue(s)
    <3> USE DEF SendQueue
    <3>0. s \in Senders /\ written \in Seq(Senders) /\ outgoing \in Seq(Senders)
      BY <1>9 DEF TypeMessages
    <3>1. Append(written \o outgoing, s) = written \o Append(outgoing, s)
      BY <3>0, Sequencing
    <3>2. \A m \in Senders : Append(Append(written, m) \o outgoing, s)
                               = Append(written, m) \o Append(outgoing, s)
      <4> TAKE m \in Senders
      <4>1. Append(written, m) \in Seq(Senders)
        BY <3>0, AppendProperties
      <4> QED
        BY <4>1, <3>0, Sequencing
    <3>3. writerExit # "drained"
      BY <2>4 DEF WriterInv, DrainInv
    <3>4. /\ sent' = Append(sent, s) /\ outgoing' = Append(outgoing, s)
          /\ UNCHANGED <<written, inWrite, writerExit>>
      BY <2>4
    <3> QED
      BY <3>1, <3>2, <3>3, <3>4, SMTT(60) DEF QueueInv
  <2> QED
    BY <1>9, <2>1, <2>2, <2>3, <2>4 DEF SenderStep
<1>10. ASSUME NEW p \in Closers, CloserStep(p) PROVE QueueInv'
  BY <1>10 DEF CloserStep, Report, CloseWon, CloseLost, CloseReturns, TypePc,
      TypeMessages, WriterInv, DrainInv, QueueInv
<1> QED
  BY <1>1, <1>2, <1>3, <1>4, <1>5, <1>6, <1>7, <1>8, <1>9, <1>10 DEF Next

(* A report names a failure that was not of our own making. *)
LEMMA NextNoSelfInflicted ==
  TypePc /\ TypeFault /\ FaultInv /\ NoSelfInflictedReport /\ [Next]_vars =>
    NoSelfInflictedReport'
<1> SUFFICES ASSUME TypePc, TypeFault, FaultInv, NoSelfInflictedReport,
                    [Next]_vars
             PROVE  NoSelfInflictedReport'
  OBVIOUS
<1>1. CASE UNCHANGED vars
  BY <1>1 DEF TypePc, TypeFault, FaultInv, NoSelfInflictedReport
<1>2. CASE Start \/ OpenHook \/ Elapse
  BY <1>2 DEF Start, OpenHook, Elapse, TypePc, TypeFault, FaultInv,
      NoSelfInflictedReport
<1>3. CASE CloseBody
  BY <1>3 DEF CloseBody, CloseSends, CloseRead, CloseForce, CloseSocket,
      TypePc, TypeFault, FaultInv, NoSelfInflictedReport
<1>4. CASE WriterNext
  BY <1>4 DEF WriterNext, WriterTop, WriterForced, WriterTakes, WriterDrains,
      WriterDrained, WriteOk, WriteFails, TypePc, TypeFault, FaultInv,
      NoSelfInflictedReport
<1>5. CASE ReaderNext
  BY <1>5 DEF ReaderNext, Read, ReadBad, ReadSubmitted, ReadNoFrame,
      ReadStopping, ReadQueueFull, ReadNext, ReadControl, ReadError, TypePc,
      TypeFault, FaultInv, NoSelfInflictedReport
<1>6. CASE HeartbeatNext
  BY <1>6 DEF HeartbeatNext, HeartbeatExpired, HeartbeatStops, TypePc,
      TypeFault, FaultInv, NoSelfInflictedReport
<1>7. CASE SupervisorNext
  BY <1>7 DEF SupervisorNext, Finalize, CloseHook, Finalized, TypePc,
      TypeFault, FaultInv, NoSelfInflictedReport
<1>8. CASE OwnerNext
  BY <1>8 DEF OwnerNext, StopIntake, Quiesce, QuiesceCancel, QuiesceDeadline,
      StopSends, SendsDrained, ForceClose, OwnerReturns, TypePc, TypeFault,
      FaultInv, NoSelfInflictedReport
<1>9. ASSUME NEW s \in Senders, SenderStep(s) PROVE NoSelfInflictedReport'
  BY <1>9 DEF SenderStep, SendBegin, SendQueue, SendReleased, SendAbandoned,
      TypePc, TypeFault, FaultInv, NoSelfInflictedReport
<1>10. ASSUME NEW p \in Closers, CloserStep(p) PROVE NoSelfInflictedReport'
  BY <1>10 DEF CloserStep, Report, CloseWon, CloseLost, CloseReturns, TypePc,
      TypeFault, FaultInv, NoSelfInflictedReport
<1> QED
  BY <1>1, <1>2, <1>3, <1>4, <1>5, <1>6, <1>7, <1>8, <1>9, <1>10 DEF Next

-----------------------------------------------------------------------------
LEMMA InitInv == Init => IInv
<1> SUFFICES ASSUME Init PROVE IInv
  OBVIOUS
<1>1. TypeFlags /\ TypeState /\ TypePc
  <2>1. TypeFlags
    BY DEF Init, TypeFlags
  <2>2. TypeState
    BY DEF Init, TypeState
  <2>3. \A p \in Procs : pc[p] \in Labels
    BY DEF Init, Labels
  <2>4. pc \in [Procs -> Labels]
    BY <2>3 DEF Init
  <2> QED
    BY <2>1, <2>2, <2>4 DEF TypePc, Init
<1>2. TypeInput /\ TypeFault
  BY Bounds DEF Init, TypeInput, TypeFault, Ops, Causes
<1>3. TypeMessages
  BY Bounds DEF Init, TypeMessages
<1>4. StartInv /\ HookInv /\ EndInv /\ CloseInv /\ OwnerInv /\ InputInv
  BY DEF Init, StartInv, HookInv, EndInv, CloseInv, OwnerInv, InputInv,
      Finalizing
<1>5. FaultInv /\ ReportInv /\ WinnerInv /\ NoSelfInflictedReport
  BY DEF Init, FaultInv, ReportInv, WinnerInv, Winner, Own,
      NoSelfInflictedReport
<1>6. WriterInv /\ DrainInv
  BY DEF Init, WriterInv, DrainInv, NoSendInFlight
<1>7. QueueInv
  BY DEF Init, QueueInv
<1> QED
  BY <1>1, <1>2, <1>3, <1>4, <1>5, <1>6, <1>7, TypeParts DEF IInv

LEMMA NextInv == IInv /\ [Next]_vars => IInv'
<1> SUFFICES ASSUME IInv, [Next]_vars PROVE IInv'
  OBVIOUS
<1>1. /\ TypeFlags /\ TypeState /\ TypePc /\ TypeInput /\ TypeFault /\ TypeMessages
      /\ StartInv /\ HookInv /\ EndInv /\ CloseInv /\ OwnerInv /\ InputInv
      /\ FaultInv /\ ReportInv /\ WinnerInv /\ NoSelfInflictedReport
      /\ WriterInv /\ DrainInv /\ QueueInv
  BY TypeParts DEF IInv
<1>2. /\ TypeFlags' /\ TypeState' /\ TypePc' /\ TypeInput' /\ TypeFault'
      /\ TypeMessages'
  BY <1>1, NextTypeFlags, NextTypeState, NextTypePc, NextTypeInput,
     NextTypeFault, NextTypeMessages
<1>3. TypeOK'
  BY <1>2 DEF TypeOK, TypeFlags, TypeState, TypePc, TypeInput, TypeFault,
      TypeMessages
<1>4. StartInv' /\ HookInv' /\ EndInv' /\ CloseInv' /\ OwnerInv' /\ InputInv'
  BY <1>1, NextStartInv, NextHookInv, NextEndInv, NextCloseInv, NextOwnerInv,
     NextInputInv
<1>5. FaultInv' /\ ReportInv' /\ WinnerInv' /\ NoSelfInflictedReport'
  BY <1>1, NextFaultInv, NextReportInv, NextWinnerInv, NextNoSelfInflicted
<1>6. WriterInv' /\ DrainInv' /\ QueueInv'
  BY <1>1, NextWriterInv, NextDrainInv, NextQueueInv
<1> QED
  BY <1>3, <1>4, <1>5, <1>6 DEF IInv

(* The inductive invariant holds of every behaviour of a connection. *)
THEOREM Inductive == Spec => []IInv
  BY InitInv, NextInv, PTL DEF Spec

(* Every variable keeps its type, and the outgoing channel its capacity.   *)
THEOREM TypeCorrect == Spec => []TypeOK
<1>1. IInv => TypeOK
  BY DEF IInv
<1> QED
  BY <1>1, Inductive, PTL

(* reportConnectionError is never called for a failure this side provoked: *)
(* quiesceReads' deadline, or the socket that requestClose closed.         *)
THEOREM OwnFailuresAreSilent == Spec => []NoSelfInflictedReport
<1>1. IInv => NoSelfInflictedReport
  BY DEF IInv
<1> QED
  BY <1>1, Inductive, PTL

(* invokeOpenHook and invokeCloseHook run once each and in order, the      *)
(* second one after every goroutine of the connection and its socket.      *)
THEOREM HooksRunInOrder == Spec => []HooksOrdered
<1>1. IInv => HooksOrdered
  <2> SUFFICES ASSUME IInv PROVE HooksOrdered
    OBVIOUS
  <2>1. HookInv /\ EndInv
    BY DEF IInv
  <2>2. hooks \in {<<>>, <<"open">>, <<"open", "close">>}
    BY <2>1 DEF HookInv
  <2>3. CASE Finalizing
    BY <2>1, <2>2, <2>3 DEF EndInv, HooksOrdered
  <2>4. CASE ~Finalizing
    <3>1. hooks \in {<<>>, <<"open">>}
      BY <2>1, <2>4 DEF HookInv, Finalizing
    <3>2. \A i \in 1..Len(hooks) : hooks[i] # "close"
      BY <3>1
    <3> QED
      BY <2>2, <3>2 DEF HooksOrdered
  <2> QED
    BY <2>3, <2>4
<1> QED
  BY <1>1, Inductive, PTL

(* fail reports for a WebSocket connection only what won the close.        *)
THEOREM OneReportOfTheClose == Spec => []WebSocketReportsTheClose
<1>1. IInv => WebSocketReportsTheClose
  <2> SUFFICES ASSUME IInv, kind = "websocket"
               PROVE  /\ Cardinality(Own) <= 1
                      /\ \A r \in Own : reason = [op |-> r[2], cause |-> r[3]]
    BY DEF WebSocketReportsTheClose, Own
  <2>1. WinnerInv
    BY DEF IInv
  <2>2. CASE Own = {}
    BY <2>2, FS_EmptySet
  <2>3. CASE Own # {}
    <3>1. PICK r \in Own : TRUE
      BY <2>3
    <3>2. Own = {r}
      BY <2>1, <3>1 DEF WinnerInv
    <3>3. Cardinality(Own) = 1
      BY <3>2, FS_Singleton
    <3> QED
      BY <2>1, <3>3 DEF WinnerInv
  <2> QED
    BY <2>2, <2>3
<1> QED
  BY <1>1, Inductive, PTL

(* stopSendsAndDrain loses no message whose Send returned nil.             *)
THEOREM DrainLosesNothing == Spec => []GracefulDrainWritesAll
<1>1. IInv => GracefulDrainWritesAll
  <2> SUFFICES ASSUME IInv, writerExit = "drained" PROVE written = sent
    BY DEF GracefulDrainWritesAll
  <2>1. TypeMessages /\ WriterInv /\ QueueInv
    BY TypeParts DEF IInv
  <2>2. inWrite = {} /\ outgoing = <<>>
    BY <2>1 DEF WriterInv
  <2>3. written \o <<>> = written
    BY <2>1, ConcatEmptySeq DEF TypeMessages
  <2> QED
    BY <2>1, <2>2, <2>3 DEF QueueInv
<1> QED
  BY <1>1, Inductive, PTL

(* The stores to c.state only move it forward. *)
LEMMA StateMoves == TypeState /\ EndInv /\ [Next]_vars => Rank(state') >= Rank(state)
<1> SUFFICES ASSUME TypeState, EndInv, [Next]_vars
             PROVE  Rank(state') >= Rank(state)
  OBVIOUS
<1> USE DEF Rank, MayClose
<1>1. CASE UNCHANGED vars
  BY <1>1 DEF TypeState, EndInv
<1>2. CASE Start \/ OpenHook \/ Elapse
  BY <1>2 DEF Start, OpenHook, Elapse, TypeState, EndInv
<1>3. CASE CloseBody
  BY <1>3 DEF CloseBody, CloseSends, CloseRead, CloseForce, CloseSocket,
      TypeState, EndInv
<1>4. CASE WriterNext
  BY <1>4 DEF WriterNext, WriterTop, WriterForced, WriterTakes, WriterDrains,
      WriterDrained, WriteOk, WriteFails, TypeState, EndInv
<1>5. CASE ReaderNext
  <2>1. CASE Read
    BY <2>1 DEF Read, TypeState, EndInv
  <2>2. CASE ReadBad
    BY <2>2 DEF ReadBad, TypeState, EndInv
  <2>3. CASE ReadSubmitted
    BY <2>3 DEF ReadSubmitted, TypeState, EndInv
  <2>4. CASE ReadNoFrame
    BY <2>4 DEF ReadNoFrame, TypeState, EndInv
  <2>5. CASE ReadStopping
    BY <2>5 DEF ReadStopping, TypeState, EndInv
  <2>6. CASE ReadQueueFull
    BY <2>6 DEF ReadQueueFull, TypeState, EndInv
  <2>7. CASE ReadNext
    BY <2>7 DEF ReadNext, TypeState, EndInv
  <2>8. CASE ReadControl
    BY <2>8 DEF ReadControl, TypeState, EndInv
  <2>9. CASE ReadError
    BY <2>9 DEF ReadError, TypeState, EndInv
  <2> QED
    BY <1>5, <2>1, <2>2, <2>3, <2>4, <2>5, <2>6, <2>7, <2>8, <2>9 DEF ReaderNext
<1>6. CASE HeartbeatNext
  BY <1>6 DEF HeartbeatNext, HeartbeatExpired, HeartbeatStops, TypeState,
      EndInv
<1>7. CASE SupervisorNext
  BY <1>7 DEF SupervisorNext, Finalize, CloseHook, Finalized, TypeState, EndInv
<1>8. CASE OwnerNext
  BY <1>8 DEF OwnerNext, StopIntake, Quiesce, QuiesceCancel, QuiesceDeadline,
      StopSends, SendsDrained, ForceClose, OwnerReturns, TypeState, EndInv
<1>9. ASSUME NEW s \in Senders, SenderStep(s) PROVE Rank(state') >= Rank(state)
  BY <1>9 DEF SenderStep, SendBegin, SendQueue, SendReleased, SendAbandoned,
      TypeState, EndInv
<1>10. ASSUME NEW p \in Closers, CloserStep(p) PROVE Rank(state') >= Rank(state)
  BY <1>10 DEF CloserStep, Report, CloseWon, CloseLost, CloseReturns,
      TypeState, EndInv
<1> QED
  BY <1>1, <1>2, <1>3, <1>4, <1>5, <1>6, <1>7, <1>8, <1>9, <1>10 DEF Next

(* Nobody is left to report, write or run a hook once c.done is closed. *)
LEMMA SilentOnceDone ==
    TypePc /\ EndInv /\ OwnerInv /\ [Next]_vars
        => (done => UNCHANGED <<reported, written, hooks>>)
<1> SUFFICES ASSUME TypePc, EndInv, OwnerInv, [Next]_vars
             PROVE  done => UNCHANGED <<reported, written, hooks>>
  OBVIOUS
<1> USE DEF Finalizing
<1>1. CASE UNCHANGED vars
  BY <1>1 DEF TypePc, EndInv, OwnerInv
<1>2. CASE Start \/ OpenHook \/ Elapse
  BY <1>2 DEF Start, OpenHook, Elapse, TypePc, EndInv, OwnerInv
<1>3. CASE CloseBody
  BY <1>3 DEF CloseBody, CloseSends, CloseRead, CloseForce, CloseSocket,
      TypePc, EndInv, OwnerInv
<1>4. CASE WriterNext
  BY <1>4 DEF WriterNext, WriterTop, WriterForced, WriterTakes, WriterDrains,
      WriterDrained, WriteOk, WriteFails, TypePc, EndInv, OwnerInv
<1>5. CASE ReaderNext
  BY <1>5 DEF ReaderNext, Read, ReadBad, ReadSubmitted, ReadNoFrame,
      ReadStopping, ReadQueueFull, ReadNext, ReadControl, ReadError, TypePc,
      EndInv, OwnerInv
<1>6. CASE HeartbeatNext
  BY <1>6 DEF HeartbeatNext, HeartbeatExpired, HeartbeatStops, TypePc, EndInv,
      OwnerInv
<1>7. CASE SupervisorNext
  BY <1>7 DEF SupervisorNext, Finalize, CloseHook, Finalized, TypePc, EndInv,
      OwnerInv
<1>8. CASE OwnerNext
  BY <1>8 DEF OwnerNext, StopIntake, Quiesce, QuiesceCancel, QuiesceDeadline,
      StopSends, SendsDrained, ForceClose, OwnerReturns, TypePc, EndInv,
      OwnerInv
<1>9. ASSUME NEW s \in Senders, SenderStep(s)
      PROVE  done => UNCHANGED <<reported, written, hooks>>
  BY <1>9 DEF SenderStep, SendBegin, SendQueue, SendReleased, SendAbandoned,
      TypePc, EndInv, OwnerInv
<1>10. ASSUME NEW p \in Closers, CloserStep(p)
       PROVE  done => UNCHANGED <<reported, written, hooks>>
  BY <1>10 DEF CloserStep, Report, CloseWon, CloseLost, CloseReturns, TypePc,
      EndInv, OwnerInv
<1> QED
  BY <1>1, <1>2, <1>3, <1>4, <1>5, <1>6, <1>7, <1>8, <1>9, <1>10 DEF Next

(* Whoever closes a draining connection is not the heartbeat. *)
LEMMA DrainClosers ==
    TypeState /\ FaultInv /\ [Next]_vars
        => (state = "draining" /\ state' = "closing" => reason'.op # "heartbeat")
<1> SUFFICES ASSUME TypeState, FaultInv, [Next]_vars
             PROVE  state = "draining" /\ state' = "closing" => reason'.op # "heartbeat"
  OBVIOUS
<1> USE DEF MayClose
<1>1. CASE UNCHANGED vars
  BY <1>1 DEF TypeState, FaultInv
<1>2. CASE Start \/ OpenHook \/ Elapse
  BY <1>2 DEF Start, OpenHook, Elapse, TypeState, FaultInv
<1>3. CASE CloseBody
  BY <1>3 DEF CloseBody, CloseSends, CloseRead, CloseForce, CloseSocket,
      TypeState, FaultInv
<1>4. CASE WriterNext
  BY <1>4 DEF WriterNext, WriterTop, WriterForced, WriterTakes, WriterDrains,
      WriterDrained, WriteOk, WriteFails, TypeState, FaultInv
<1>5. CASE ReaderNext
  BY <1>5 DEF ReaderNext, Read, ReadBad, ReadSubmitted, ReadNoFrame,
      ReadStopping, ReadQueueFull, ReadNext, ReadControl, ReadError, TypeState,
      FaultInv
<1>6. CASE HeartbeatNext
  BY <1>6 DEF HeartbeatNext, HeartbeatExpired, HeartbeatStops, TypeState,
      FaultInv
<1>7. CASE SupervisorNext
  BY <1>7 DEF SupervisorNext, Finalize, CloseHook, Finalized, TypeState,
      FaultInv
<1>8. CASE OwnerNext
  BY <1>8 DEF OwnerNext, StopIntake, Quiesce, QuiesceCancel, QuiesceDeadline,
      StopSends, SendsDrained, ForceClose, OwnerReturns, TypeState, FaultInv
<1>9. ASSUME NEW s \in Senders, SenderStep(s)
      PROVE  state = "draining" /\ state' = "closing" => reason'.op # "heartbeat"
  BY <1>9 DEF SenderStep, SendBegin, SendQueue, SendReleased, SendAbandoned,
      TypeState, FaultInv
<1>10. ASSUME NEW p \in Closers, CloserStep(p)
       PROVE  state = "draining" /\ state' = "closing" => reason'.op # "heartbeat"
  BY <1>10 DEF CloserStep, Report, CloseWon, CloseLost, CloseReturns,
      TypeState, FaultInv
<1> QED
  BY <1>1, <1>2, <1>3, <1>4, <1>5, <1>6, <1>7, <1>8, <1>9, <1>10 DEF Next

(* quiesceReads, stopSendsAndDrain, requestClose and the supervisor only   *)
(* ever move c.state forward.                                              *)
THEOREM StateOnlyAdvances == Spec => StateMonotone
<1>1. IInv /\ [Next]_vars => [Rank(state') >= Rank(state)]_vars
  BY StateMoves, TypeParts DEF IInv
<1> QED
  BY <1>1, Inductive, PTL DEF Spec, StateMonotone

(* After c.done is closed the connection reports, writes and calls nothing. *)
THEOREM DoneIsSilent == Spec => NothingAfterDone
<1>1. IInv /\ [Next]_vars => [done => UNCHANGED <<reported, written, hooks>>]_vars
  BY SilentOnceDone, TypeParts DEF IInv
<1> QED
  BY <1>1, Inductive, PTL DEF Spec, NothingAfterDone

(* checkHeartbeat does not close a connection that began to drain.         *)
THEOREM HeartbeatSparesDrain == Spec => DrainSparedByHeartbeat
<1>1. IInv /\ [Next]_vars
        => [state = "draining" /\ state' = "closing" => reason'.op # "heartbeat"]_vars
  BY DrainClosers, TypeParts DEF IInv
<1> QED
  BY <1>1, Inductive, PTL DEF Spec, DrainSparedByHeartbeat

=============================================================================
