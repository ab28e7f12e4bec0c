------------------------------ MODULE AciSetup -----------------------------
(***************************************************************************)
(* do_aci_setup of Source/aci_setup.c: the application has the nRF8001     *)
(* take N setup messages, as many at a time as the command queue holds,    *)
(* and watches its command responses.  While the routine runs, the         *)
(* interrupt-driven transport moves commands to the radio and events from  *)
(* it; here the transport is its two queues (see AciTransport).            *)
(*                                                                         *)
(* The radio is external: it takes the messages in order, answers each     *)
(* with a command response, refuses one it does not expect, and may report *)
(* something else at any time, or fall silent for as long as it likes.     *)
(***************************************************************************)
EXTENDS Integers, Sequences, FiniteSets

CONSTANTS N,         \* aci_setup_info.num_setup_msgs
          QueueSize, \* ACI_QUEUE_SIZE
          Guard,     \* 0xFFFFE: rounds of the loop without an answer
          MaxCalls,  \* bound on the calls after one lib_aci_init
          MaxInits,  \* bound on the calls of lib_aci_init
          MaxOthers  \* bound on the events that are no command responses

ASSUME SetupAssumption ==
    /\ N \in Nat \ {0}
    /\ QueueSize \in Nat \ {0}
    /\ Guard \in Nat
    /\ MaxCalls \in Nat /\ MaxInits \in Nat /\ MaxOthers \in Nat

VARIABLES txq, rxq,   \* the command and the event queue
          pending,    \* events the radio has not handed over
          accepted,   \* setup messages the radio has taken since its reset
          others,     \* events produced that are no command responses
          seen,       \* such events the application has got
          pc,         \* where the main context is
          offset,     \* setup_offset: messages put in the queue by this call
          i,          \* the guard counter
          status,     \* cmd_status
          result,     \* what the last call returned
          calls, inits,
          prompt      \* the radio answers before the guard runs out, and reports
                      \* nothing else; fixed from the start

queues == <<txq, rxq, pending>>
device == <<accepted, others>>
locals == <<offset, i, status>>
bounds == <<calls, inits>>
setupVars == <<queues, device, seen, pc, locals, result, bounds, prompt>>

Responses == {"continue", "complete", "refused"}
SetupEvents == Responses \cup {"started", "other"}

Results == {"none", "SUCCESS", "COMMAND_QUEUE_NOT_EMPTY", "EVENT_QUEUE_NOT_EMPTY",
            "TIMEOUT", "NOT_SETUP_EVENT", "NOT_COMMAND_RESPONSE"}

SetupTypeOK ==
    /\ txq \in Seq(1 .. N) /\ Len(txq) <= QueueSize
    /\ rxq \in Seq(SetupEvents) /\ Len(rxq) <= QueueSize
    /\ pending \in Seq(SetupEvents)
    /\ accepted \in 0 .. N
    /\ others \in Nat /\ seen \in Nat
    /\ pc \in {"app", "fill", "loop", "get"}
    /\ offset \in 0 .. N
    /\ i \in 0 .. Guard + 1
    /\ status \in {"mismatch", "continue", "complete"}
    /\ result \in Results
    /\ calls \in 0 .. MaxCalls /\ inits \in 0 .. MaxInits
    /\ prompt \in BOOLEAN

\* After lib_aci_init: the radio has been reset and reports that it started.
SetupInit ==
    /\ txq = << >> /\ rxq = << >>
    /\ pending = <<"started">>
    /\ accepted = 0
    /\ others = 1 /\ seen = 0
    /\ pc = "app"
    /\ offset = 0 /\ i = 0 /\ status = "mismatch"
    /\ result = "none"
    /\ calls = 0 /\ inits = 0
    /\ prompt \in BOOLEAN

-----------------------------------------------------------------------------
(* The radio and the transport (external to aci_setup.c) *)

Expected == accepted < N /\ Head(txq) = accepted + 1

RadioTakes ==
    /\ txq # << >>
    /\ txq' = Tail(txq)
    /\ IF Expected
       THEN /\ accepted' = accepted + 1
            /\ IF accepted' = N
               THEN pending' = pending \o <<"complete", "started">> /\ others' = others + 1
               ELSE pending' = Append(pending, "continue") /\ UNCHANGED others
       ELSE pending' = Append(pending, "refused") /\ UNCHANGED device
    /\ UNCHANGED <<rxq, seen, pc, locals, result, bounds, prompt>>

RadioReports ==
    /\ ~prompt /\ others < MaxOthers
    /\ others' = others + 1
    /\ pending' = Append(pending, "other")
    /\ UNCHANGED <<txq, rxq, accepted, seen, pc, locals, result, bounds, prompt>>

Deliver ==
    /\ pending # << >> /\ Len(rxq) < QueueSize
    /\ rxq' = Append(rxq, Head(pending))
    /\ pending' = Tail(pending)
    /\ UNCHANGED <<txq, device, seen, pc, locals, result, bounds, prompt>>

-----------------------------------------------------------------------------
(* The application *)

IsForeign(e) == e \notin Responses

AppGet ==
    /\ pc = "app" /\ rxq # << >>
    /\ rxq' = Tail(rxq)
    /\ seen' = IF IsForeign(Head(rxq)) THEN seen + 1 ELSE seen
    /\ UNCHANGED <<txq, pending, device, pc, locals, result, bounds, prompt>>

\* lib_aci_init again: queues emptied, radio reset by its pin.
AppInit ==
    /\ pc = "app" /\ inits < MaxInits
    /\ inits' = inits + 1 /\ calls' = 0
    /\ txq' = << >> /\ rxq' = << >> /\ pending' = <<"started">>
    /\ accepted' = 0 /\ others' = 1 /\ seen' = 0
    /\ result' = "none"
    /\ UNCHANGED <<pc, locals, prompt>>

-----------------------------------------------------------------------------
(* do_aci_setup *)

Return(code) == pc' = "app" /\ result' = code

\* What the tests before the first message say.
Entry ==
    IF txq # << >> THEN "COMMAND_QUEUE_NOT_EMPTY"
    ELSE IF rxq # << >> THEN "EVENT_QUEUE_NOT_EMPTY" ELSE "READY"

Call ==
    /\ pc = "app" /\ calls < MaxCalls
    /\ calls' = calls + 1
    /\ IF Entry = "READY"
       THEN /\ pc' = "fill"
            /\ offset' = 0 /\ i' = 0 /\ status' = "mismatch"
            /\ result' = "none"
       ELSE Return(Entry) /\ UNCHANGED locals
    /\ UNCHANGED <<queues, device, seen, inits, prompt>>

\* Seeded fault: the offset passes a message the queue had no room for.
FaultFillSkips ==
    /\ pc = "fill" /\ offset < N
    /\ offset' = offset + 1
    /\ txq' = IF Len(txq) < QueueSize THEN Append(txq, offset + 1) ELSE txq
    /\ UNCHANGED <<rxq, pending, device, seen, pc, i, status, result, bounds, prompt>>

\* aci_setup_fill puts one more message in the queue.
FillSend ==
    /\ pc = "fill" /\ offset < N /\ Len(txq) < QueueSize
    /\ txq' = Append(txq, offset + 1)
    /\ offset' = offset + 1
    /\ UNCHANGED <<rxq, pending, device, seen, pc, i, status, result, bounds, prompt>>

\* It stops at the last message or a full queue; called for a CONTINUE, the
\* event is then taken from its queue.
FillDone ==
    /\ pc = "fill" /\ (offset = N \/ Len(txq) = QueueSize)
    /\ pc' = IF status = "continue" THEN "get" ELSE "loop"
    /\ UNCHANGED <<queues, device, seen, locals, result, bounds, prompt>>

\* Seeded fault: a CONTINUE ends the loop as a COMPLETE does.
FaultAnyResponse ==
    /\ pc = "loop" /\ status \in {"continue", "complete"}
    /\ Return("SUCCESS")
    /\ UNCHANGED <<queues, device, seen, locals, bounds, prompt>>

LoopSuccess ==
    /\ pc = "loop" /\ status = "complete"
    /\ Return("SUCCESS")
    /\ UNCHANGED <<queues, device, seen, locals, bounds, prompt>>

InLoop == pc = "loop" /\ status # "complete"

LoopTimeout ==
    /\ InLoop /\ i > Guard
    /\ Return("TIMEOUT")
    /\ UNCHANGED <<queues, device, seen, locals, bounds, prompt>>

\* An answer is on its way that a prompt radio delivers before the guard
\* counts any further.
AnswerDue == prompt /\ (pending # << >> \/ txq # << >>)

\* Seeded fault: a round without an event does not count.
FaultUncounted ==
    /\ InLoop /\ i <= Guard /\ rxq = << >> /\ ~AnswerDue
    /\ UNCHANGED setupVars

LoopNothing ==
    /\ InLoop /\ i <= Guard /\ rxq = << >> /\ ~AnswerDue
    /\ i' = i + 1
    /\ UNCHANGED <<queues, device, seen, pc, offset, status, result, bounds, prompt>>

\* Seeded fault: the queue is not filled again.
FaultNoRefill ==
    /\ InLoop /\ i <= Guard /\ rxq # << >> /\ Head(rxq) = "continue"
    /\ status' = "continue"
    /\ i' = 0
    /\ pc' = "get"
    /\ UNCHANGED <<queues, device, seen, offset, result, bounds, prompt>>

LoopContinue ==
    /\ InLoop /\ i <= Guard /\ rxq # << >> /\ Head(rxq) = "continue"
    /\ status' = "continue"
    /\ i' = 0
    /\ pc' = "fill"
    /\ UNCHANGED <<queues, device, seen, offset, result, bounds, prompt>>

LoopComplete ==
    /\ InLoop /\ i <= Guard /\ rxq # << >> /\ Head(rxq) = "complete"
    /\ status' = "complete"
    /\ i' = i + 1
    /\ pc' = "get"
    /\ UNCHANGED <<queues, device, seen, offset, result, bounds, prompt>>

\* Seeded fault: the event is taken from the queue before it is examined.
FaultTakesFirst ==
    /\ InLoop /\ i <= Guard /\ rxq # << >>
    /\ Head(rxq) \notin {"continue", "complete"}
    /\ rxq' = Tail(rxq)
    /\ Return(IF Head(rxq) = "refused" THEN "NOT_SETUP_EVENT" ELSE "NOT_COMMAND_RESPONSE")
    /\ UNCHANGED <<txq, pending, device, seen, locals, bounds, prompt>>

\* Any other event is the application's: it stays in the queue.
LoopOther ==
    /\ InLoop /\ i <= Guard /\ rxq # << >>
    /\ Head(rxq) \notin {"continue", "complete"}
    /\ Return(IF Head(rxq) = "refused" THEN "NOT_SETUP_EVENT" ELSE "NOT_COMMAND_RESPONSE")
    /\ UNCHANGED <<queues, device, seen, locals, bounds, prompt>>

GetEvent ==
    /\ pc = "get"
    /\ rxq' = Tail(rxq)
    /\ pc' = "loop"
    /\ UNCHANGED <<txq, pending, device, seen, locals, result, bounds, prompt>>

Setup ==
    \/ FillSend \/ FillDone
    \/ LoopSuccess \/ LoopTimeout \/ LoopNothing
    \/ LoopContinue \/ LoopComplete \/ LoopOther
    \/ GetEvent

SetupNext == RadioTakes \/ RadioReports \/ Deliver \/ AppGet \/ AppInit \/ Call \/ Setup

SetupSpec == SetupInit /\ [][SetupNext]_setupVars

\* The main context runs on; a prompt radio and the transport go on too.
Fairness == WF_setupVars(Setup) /\ WF_setupVars(prompt /\ (RadioTakes \/ Deliver))

SetupFairSpec == SetupSpec /\ Fairness

-----------------------------------------------------------------------------
(***************************************************************************)
(* A call offers the messages one after the other from the first: what is  *)
(* in the command queue is the end of what this call has offered           *)
(* (aci_setup.c:54-79, 101-104).                                           *)
(***************************************************************************)
OfferedInOrder ==
    pc # "app" =>
        /\ Len(txq) <= offset
        /\ \A k \in 1 .. Len(txq) : txq[k] = offset - Len(txq) + k

(***************************************************************************)
(* SETUP_SUCCESS means that the radio has taken all the messages, however  *)
(* late its answers come and however often the application tried           *)
(* (aci_setup.c:120, 152-154, 169).                                        *)
(***************************************************************************)
SuccessConfigured == result = "SUCCESS" => accepted = N

(***************************************************************************)
(* do_aci_setup takes no event that is not its own: every other event of   *)
(* the radio gets to the application (aci_setup.c:132-136, 155-165).       *)
(***************************************************************************)
Foreign(q) == Cardinality({k \in DOMAIN q : IsForeign(q[k])})

OthersReachApp == others = seen + Foreign(rxq) + Foreign(pending)

(***************************************************************************)
(* Every call returns, whatever the radio does or does not do              *)
(* (aci_setup.c:122-128).                                                  *)
(***************************************************************************)
CallReturns == pc # "app" ~> pc = "app"

(***************************************************************************)
(* If the radio is prompt, has taken no message yet, and its started event *)
(* was handled, the call configures it, however many messages there are    *)
(* for the command queue (aci_setup.c:114-166).                            *)
(***************************************************************************)
SetupSucceeds ==
    prompt /\ pc = "fill" /\ accepted = 0 /\ seen = others ~> result = "SUCCESS"
=============================================================================
