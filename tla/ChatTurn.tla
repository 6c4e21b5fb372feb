------------------------------ MODULE ChatTurn ------------------------------
(***************************************************************************)
(* The turns of one chat (MessageProcessingDelegate.rs, with the callers   *)
(* in MessageCoordinationDelegate.rs, ChatServiceCore.rs and               *)
(* WorkActivityService.rs).                                                *)
(*                                                                         *)
(* A send leases the chat, begins a turn in the runtime of the chat and    *)
(* leaves a worker behind that collects the response, commits it and ends  *)
(* the turn; the worker may continue in a turn of its own.  Sends and      *)
(* cancellations of users take turns under the lock of the chat holder,    *)
(* while workers, continuations and the stop action of a work item run     *)
(* beside it.  They meet in the runtime, whose lock each of them takes for *)
(* one small step at a time: an action below is one such step.             *)
(*                                                                         *)
(* A task is one run of sendMessageInternal together with its worker.  Its *)
(* number names its lease, its receipt, its work item and its inbox.  What *)
(* a response says is left out; a response stream ends well or fails.      *)
(***************************************************************************)
EXTENDS Naturals, FiniteSets

CONSTANTS
    MaxTasks,     \* bound on sends, continuations included
    Scenarios     \* bound: the sets of events that may meet in one execution,
                  \* each event once

EventKind == {"cancel", "delete", "stop", "steer", "reject", "route", "drop"}

ASSUME TurnBounds == MaxTasks \in Nat /\ Scenarios \subseteq SUBSET EventKind

Task == 1 .. MaxTasks
Canceller == {"user", "stop"}
User == MaxTasks + 1

VARIABLES
    runtime,    \* the ChatRuntime of the chat
    lease,      \* the generation that leases the chat in the store, or 0
    task,       \* the sends, their workers and their local variables
    answer,     \* what the receiver of each submission has got
    work,       \* the status of the work item of each task
    inbox,      \* the guidance inboxes
    committed,  \* the tasks whose response is in the history
    holder,     \* who holds the lock of the chat holder: a task, User or 0
    op,         \* the cancellation under the holder, and the stop action
    silenced,   \* the tasks whose cancellation answers nobody
    abandoned,  \* the turns whose send or cancellation was dropped by its caller
    deleted,    \* the chat has been deleted
    overrun,    \* a task or a cancellation has ended the turn of another one
    used        \* the events there were

vars == <<runtime, lease, task, answer, work, inbox, committed, holder, op, silenced, abandoned, deleted, overrun, used>>

NoTask == [pc |-> "free", turn |-> 0, lease |-> 0, inbox |-> 0, origin |-> 0, stage |-> "send",
           error |-> FALSE, guided |-> FALSE, returned |-> FALSE, controls |-> 0]
NoOp == [pc |-> "free", kind |-> "cancel", expected |-> 0, mine |-> 0]

Init ==
    /\ runtime = [turn |-> 0, cancelling |-> FALSE, loading |-> FALSE,
                  lease |-> 0, receipt |-> 0, work |-> 0, inbox |-> 0]
    /\ lease = 0
    /\ task = [i \in Task |-> NoTask]
    /\ answer = [i \in Task |-> "none"]
    /\ work = [i \in Task |-> "none"]
    /\ inbox = [i \in Task |-> [accepting |-> FALSE, pending |-> 0]]
    /\ committed = {}
    /\ holder = 0
    /\ op = [c \in Canceller |-> NoOp]
    /\ silenced = {}
    /\ abandoned = {}
    /\ deleted = FALSE
    /\ overrun = FALSE
    /\ used = {}

-----------------------------------------------------------------------------
(* What the steps are made of                                              *)

\* isCurrentChatTurn.
IsCurrent(i) == runtime.turn = task[i].turn /\ ~runtime.cancelling

\* Task i goes on; the locals of one that is over are gone.
Over(t) == [NoTask EXCEPT !.pc = "done", !.turn = t.turn, !.origin = t.origin,
                          !.returned = TRUE, !.controls = t.controls]
Goto(i, there) == task' = [task EXCEPT ![i] = IF there = "done" THEN Over(@) ELSE [@ EXCEPT !.pc = there]]
At(i, here) == task[i].pc = here

\* ChatExecutionLease::release: only the own generation.
Release(l) == lease' = IF lease = l THEN 0 ELSE lease

\* updateWork with a terminal state: an ended item stays as it is.
EndWork(i, status) ==
    work' = [k \in Task |-> IF k = i /\ work[k] = "running" THEN status ELSE work[k]]

\* ChatTurnReceiptState::deliver: the first result is the only one.
Deliver(i, result) ==
    answer' = [k \in Task |-> IF k = i /\ answer[k] = "pending" THEN result ELSE answer[k]]

Event(kind) ==
    /\ kind \notin used
    /\ \E s \in Scenarios : used \cup {kind} \subseteq s
    /\ used' = used \cup {kind}

CloseInbox(b) ==
    inbox' = [k \in Task |-> IF k = b THEN [accepting |-> FALSE, pending |-> 0] ELSE inbox[k]]

\* The tasks that hold a clone of their lease, beside the one in the runtime,
\* and those that hold a clone of their receipt.
HoldsLease(i) ==
    \/ task[i].pc \in {"admitted", "begun", "receipted", "building", "accepted", "refused",
                       "dropping", "draining", "summarizing", "spawning"}
    \/ task[i].pc \in {"cleanup", "check", "fail", "finish", "publish"} /\ task[i].stage = "send"
HoldsReceipt(i) ==
    \/ task[i].pc \in {"summarizing", "spawning", "waiting", "answering"}
    \/ task[i].pc \in {"cleanup", "check", "fail", "finish", "publish"} /\ task[i].stage = "deliver"

\* The tasks whose submissions wait for the end of a turn, as its send or as
\* the origin of its continuation.
Waiting(turn) == {i \in Task : task[i].turn = turn \/ HoldsReceipt(i)}

\* Mutant: a clone that goes away releases nothing.
DropSilently(i) == UNCHANGED lease

\* The clone of task i goes away without a release: the last one releases.
DropLease(i) == IF runtime.lease = task[i].lease THEN UNCHANGED lease ELSE Release(task[i].lease)

\* Mutant: a send that returns keeps the chat holder.
KeepHolder(i) == UNCHANGED holder

FreeHolder(i) == holder' = IF holder = i THEN 0 ELSE holder

-----------------------------------------------------------------------------
(* A send                                                                  *)

\* sendMessageInternal up to its lease: a chat that is leased refuses it and
\* shows the error, which ends the work item the runtime names.
SendAdmitted(i) ==
    /\ holder = 0 /\ ~deleted
    /\ At(i, "free") /\ (i > 1 => ~At(i - 1, "free"))
    /\ lease = 0
    /\ lease' = i
    /\ holder' = i
    /\ task' = [task EXCEPT ![i].pc = "admitted", ![i].lease = i]
    /\ UNCHANGED <<runtime, answer, work, inbox, committed, op, silenced, abandoned, deleted, overrun, used>>

SendRejected ==
    /\ holder = 0 /\ ~deleted
    /\ lease # 0
    /\ Event("reject")
    /\ EndWork(runtime.work, "failed")
    /\ UNCHANGED <<runtime, lease, task, answer, inbox, committed, holder, op, silenced, abandoned, deleted, overrun>>

\* The configuration cannot be resolved, and the lease is dropped.
SendUnconfigured(i) ==
    /\ At(i, "admitted")
    /\ EndWork(runtime.work, "failed")
    /\ DropLease(i)
    /\ Goto(i, "returning")
    /\ UNCHANGED <<runtime, answer, inbox, committed, holder, op, silenced, abandoned, deleted, overrun, used>>

\* sendUserMessage fails before it begins a turn.
SendInvalid(i) ==
    /\ At(i, "admitted")
    /\ task' = [task EXCEPT ![i].pc = "dropping", ![i].error = TRUE]
    /\ UNCHANGED <<runtime, lease, answer, work, inbox, committed, holder, op, silenced, abandoned, deleted, overrun, used>>

\* beginChatTurn: a continuation inherits an inbox that is still accepting.
Begin(i) ==
    LET old == runtime.inbox
        inherits == task[i].origin # 0 /\ old # 0 /\ inbox[old].accepting
        new == IF inherits THEN old ELSE i
        last == \A k \in Task : HoldsLease(k) => task[k].lease # runtime.lease
    IN /\ At(i, "admitted")
       /\ runtime' = [runtime EXCEPT !.turn = @ + 1, !.cancelling = FALSE, !.loading = TRUE,
                                     !.lease = task[i].lease, !.inbox = new]
       /\ IF last THEN Release(runtime.lease) ELSE UNCHANGED lease
       /\ inbox' = [k \in Task |-> IF ~inherits /\ k \in {i, old}
                                   THEN [accepting |-> k = i, pending |-> 0] ELSE inbox[k]]
       /\ task' = [task EXCEPT ![i].pc = "begun", ![i].turn = runtime.turn + 1, ![i].inbox = new]
       /\ UNCHANGED <<answer, work, committed, holder, op, silenced, abandoned, deleted, overrun, used>>

\* The receipt replaces the one of an earlier turn; a receiver whose sender
\* goes away unanswered gets an error.
InstallReceipt(i) ==
    LET old == runtime.receipt
    IN /\ At(i, "begun")
       /\ runtime' = [runtime EXCEPT !.receipt = i]
       /\ answer' = [k \in Task |->
                        CASE k = i -> "pending"
                          [] k = old /\ k # i /\ answer[k] = "pending" /\ ~HoldsReceipt(k) -> "closed"
                          [] OTHER -> answer[k]]
       /\ Goto(i, "receipted")
       /\ UNCHANGED <<lease, work, inbox, committed, holder, op, silenced, abandoned, deleted, overrun, used>>

\* startChatExecution: the stop action of the new item is for the turn that is
\* current now.
StartChatExecution(i) ==
    /\ At(i, "receipted")
    /\ runtime' = [runtime EXCEPT !.work = i]
    /\ work' = [work EXCEPT ![i] = "running"]
    /\ task' = [task EXCEPT ![i].pc = "building", ![i].controls = runtime.turn]
    /\ UNCHANGED <<lease, answer, inbox, committed, holder, op, silenced, abandoned, deleted, overrun, used>>

\* The message cannot be built or the response stream not be created, which
\* ends the turn, or the user's message not be protected or committed.
BuildFails(i) ==
    /\ At(i, "building")
    /\ \E there \in {"cleanup", "dropping"} :
          task' = [task EXCEPT ![i].pc = there, ![i].error = TRUE]
    /\ UNCHANGED <<runtime, lease, answer, work, inbox, committed, holder, op, silenced, abandoned, deleted, overrun, used>>

\* The stream is accepted only by the current turn.
StreamCreated(i) ==
    /\ At(i, "building")
    /\ Goto(i, IF IsCurrent(i) THEN "accepted" ELSE "refused")
    /\ UNCHANGED <<runtime, lease, answer, work, inbox, committed, holder, op, silenced, abandoned, deleted, overrun, used>>

\* protectRevision fails when the generation has lost its lease.
ProtectFails(i) ==
    /\ task[i].pc \in {"accepted", "refused"}
    /\ lease # task[i].lease
    /\ task' = [task EXCEPT ![i].pc = "dropping", ![i].error = TRUE]
    /\ UNCHANGED <<runtime, lease, answer, work, inbox, committed, holder, op, silenced, abandoned, deleted, overrun, used>>

\* A turn that was overtaken returns its submission and leaves no worker; its
\* guards end the work item and the lease.
SendOvertaken(i) ==
    /\ task[i].pc \in {"accepted", "refused"}
    /\ lease = task[i].lease
    /\ At(i, "refused") \/ ~IsCurrent(i)
    /\ EndWork(i, "failed")
    /\ Release(task[i].lease)
    /\ Goto(i, "done")
    /\ FreeHolder(i)
    /\ UNCHANGED <<runtime, answer, inbox, committed, op, silenced, abandoned, deleted, overrun, used>>

\* Mutant: the request guard is still armed when the worker takes over.
SpawnWorkerGuarded(i) ==
    /\ At(i, "accepted")
    /\ lease = task[i].lease
    /\ IsCurrent(i)
    /\ task' = [task EXCEPT ![i].pc = "streaming", ![i].stage = "worker", ![i].returned = TRUE]
    /\ FreeHolder(i)
    /\ Release(task[i].lease)
    /\ UNCHANGED <<runtime, answer, work, inbox, committed, op, silenced, abandoned, deleted, overrun, used>>

\* The worker is scheduled and takes over from the guards.
SpawnWorker(i) ==
    /\ At(i, "accepted")
    /\ lease = task[i].lease
    /\ IsCurrent(i)
    /\ task' = [task EXCEPT ![i].pc = "streaming", ![i].stage = "worker", ![i].returned = TRUE]
    /\ FreeHolder(i)
    /\ UNCHANGED <<runtime, lease, answer, work, inbox, committed, op, silenced, abandoned, deleted, overrun, used>>

\* The presentation of the response cannot start, which ends the turn, or the
\* worker cannot be scheduled; the turn may be over by then.
SpawnFails(i) ==
    /\ At(i, "accepted")
    /\ \E there \in {"cleanup", "dropping"} :
          task' = [task EXCEPT ![i].pc = there, ![i].error = TRUE]
    /\ UNCHANGED <<runtime, lease, answer, work, inbox, committed, holder, op, silenced, abandoned, deleted, overrun, used>>

\* sendUserMessage returns an error: its guards are dropped, and the
\* coordinator ends the execution of the chat whichever turn is current.
DropGuards(i) ==
    /\ At(i, "dropping")
    /\ EndWork(i, "failed")
    /\ Release(task[i].lease)
    /\ task' = [task EXCEPT ![i].pc = "fail", ![i].stage = "coordinator"]
    /\ UNCHANGED <<runtime, answer, inbox, committed, holder, op, silenced, abandoned, deleted, overrun, used>>

\* The caller gets the error.
SendReturns(i) ==
    /\ At(i, "returning")
    /\ answer' = [answer EXCEPT ![i] = "failed"]
    /\ Goto(i, "done")
    /\ FreeHolder(i)
    /\ UNCHANGED <<runtime, lease, work, inbox, committed, op, silenced, abandoned, deleted, overrun, used>>

\* The future of a user's send is dropped where it waits, for the
\* configuration, the message, the stream or the presentation: its caller was
\* a peer whose connection has ended.  Its guards are all that runs: they end
\* the work item and the lease, and nobody is left to hear an answer.
SendDropped(i) ==
    /\ Event("drop")
    /\ task[i].origin = 0
    /\ \/ At(i, "admitted") /\ DropLease(i) /\ UNCHANGED <<work, silenced, abandoned>>
       \/ /\ task[i].pc \in {"building", "accepted"}
          /\ EndWork(i, "failed")
          /\ Release(task[i].lease)
          /\ silenced' = silenced \cup {i}
          /\ abandoned' = abandoned \cup {task[i].turn}
    /\ Goto(i, "done")
    /\ FreeHolder(i)
    /\ UNCHANGED <<runtime, answer, inbox, committed, op, deleted, overrun>>

-----------------------------------------------------------------------------
(* The end of a turn, for sends, workers and continuations                 *)

\* cleanupRuntimeAfterTurn.
CleanupRuntimeAfterTurn(i) ==
    /\ At(i, "cleanup")
    /\ IF IsCurrent(i)
       THEN /\ CloseInbox(runtime.inbox)
            /\ Release(runtime.lease)
            /\ runtime' = [runtime EXCEPT !.lease = 0, !.loading = FALSE]
       ELSE UNCHANGED <<runtime, lease, inbox>>
    /\ Goto(i, "check")
    /\ UNCHANGED <<answer, work, committed, holder, op, silenced, abandoned, deleted, overrun, used>>

\* Where a task goes on when it has ended its turn.
AfterFinish(i) ==
    CASE task[i].stage = "send" -> "dropping"
      [] task[i].stage = "coordinator" -> "returning"
      [] task[i].stage = "deliver" -> "answering"
      [] task[i].stage = "worker" /\ task[i].error -> "done"
      [] OTHER -> "completing"

\* finishChatExecutionForTurn asks whether the turn is current ...
CheckTurn(i) ==
    /\ At(i, "check")
    /\ Goto(i, IF ~IsCurrent(i) THEN AfterFinish(i) ELSE IF task[i].error THEN "fail" ELSE "finish")
    /\ UNCHANGED <<runtime, lease, answer, work, inbox, committed, holder, op, silenced, abandoned, deleted, overrun, used>>

\* Mutant: the failure is shown, and the receipt left to the worker.
FailUnreceipted(i) ==
    /\ At(i, "fail")
    /\ Goto(i, "finish")
    /\ UNCHANGED <<runtime, lease, answer, work, inbox, committed, holder, op, silenced, abandoned, deleted, overrun, used>>

\* ... and finishChatExecution then ends the execution of the chat in three
\* steps: the receipt of a failed turn, the runtime, the state that is shown.
FailTurnReceipt(i) ==
    /\ At(i, "fail")
    /\ Deliver(runtime.receipt, "failed")
    /\ Goto(i, "finish")
    /\ UNCHANGED <<runtime, lease, work, inbox, committed, holder, op, silenced, abandoned, deleted, overrun, used>>

FinishRuntime(turn) ==
    /\ overrun' = (overrun \/ (runtime.loading /\ runtime.turn # turn))
    /\ CloseInbox(runtime.inbox)
    /\ Release(runtime.lease)
    /\ runtime' = [runtime EXCEPT !.lease = 0, !.loading = FALSE]

FinishChatExecution(i) ==
    /\ At(i, "finish")
    /\ FinishRuntime(task[i].turn)
    /\ Goto(i, "publish")
    /\ UNCHANGED <<answer, work, committed, holder, op, silenced, abandoned, deleted, used>>

PublishTerminalState(i) ==
    /\ At(i, "publish")
    /\ EndWork(runtime.work, IF task[i].error THEN "failed" ELSE "completed")
    /\ Goto(i, AfterFinish(i))
    /\ UNCHANGED <<runtime, lease, answer, inbox, committed, holder, op, silenced, abandoned, deleted, overrun, used>>

-----------------------------------------------------------------------------
(* The worker                                                              *)

\* The response stream ends; a worker whose turn is over returns.
StreamEnds(i) ==
    /\ At(i, "streaming")
    /\ \/ ~IsCurrent(i) /\ Goto(i, "done")
       \/ /\ IsCurrent(i)
          /\ \E failed \in BOOLEAN : task' = [task EXCEPT ![i].pc = "committing", ![i].error = failed]
    /\ UNCHANGED <<runtime, lease, answer, work, inbox, committed, holder, op, silenced, abandoned, deleted, overrun, used>>

\* Mutant: a worker whose commit fails returns.
CommitOrReturn(i) ==
    /\ At(i, "committing")
    /\ \/ /\ committed' = committed \cup {i}
          /\ Goto(i, IF task[i].error THEN "cleanup" ELSE "guidance")
       \/ Goto(i, "done") /\ UNCHANGED committed
    /\ UNCHANGED <<runtime, lease, answer, work, inbox, holder, op, silenced, abandoned, deleted, overrun, used>>

\* commitAssistantMessageSegment, of a failed response as well; the commit of
\* a good one may fail.
CommitAssistant(i) ==
    /\ At(i, "committing")
    /\ \/ /\ committed' = committed \cup {i}
          /\ Goto(i, IF task[i].error THEN "cleanup" ELSE "guidance")
       \/ /\ task' = [task EXCEPT ![i].pc = "cleanup", ![i].error = TRUE]
          /\ UNCHANGED committed
    /\ UNCHANGED <<runtime, lease, answer, work, inbox, holder, op, silenced, abandoned, deleted, overrun, used>>

\* The lease for the guidance is read while the turn is current and has one.
ReadGuidanceLease(i) ==
    /\ At(i, "guidance")
    /\ Goto(i, IF IsCurrent(i) /\ runtime.lease # 0 THEN "draining" ELSE "done")
    /\ UNCHANGED <<runtime, lease, answer, work, inbox, committed, holder, op, silenced, abandoned, deleted, overrun, used>>

\* commitGuidanceMessages: an empty inbox closes, another one is drained into
\* the history; the commit may fail.
DrainGuidance(i) ==
    LET b == task[i].inbox
    IN /\ At(i, "draining")
       /\ IF inbox[b].pending = 0
          THEN /\ inbox' = [inbox EXCEPT ![b].accepting = FALSE]
               /\ Goto(i, "decide")
          ELSE /\ inbox' = [inbox EXCEPT ![b].pending = 0]
               /\ \E failed \in BOOLEAN :
                     task' = [task EXCEPT ![i].pc = IF failed THEN "cleanup" ELSE "decide",
                                          ![i].error = failed, ![i].guided = ~failed]
       /\ DropLease(i)
       /\ UNCHANGED <<runtime, answer, work, committed, holder, op, silenced, abandoned, deleted, overrun, used>>

\* What comes after the commit: nothing for a turn that is over, a change of
\* route, which gives the lease away, a continuation for guidance or for the
\* limit of tokens, or the end of the turn.
Decide(i) ==
    /\ At(i, "decide")
    /\ \/ ~IsCurrent(i) /\ Goto(i, "done") /\ UNCHANGED <<runtime, lease, used>>
       \/ /\ IsCurrent(i) /\ runtime.lease # 0
          /\ Event("route")
          /\ Release(runtime.lease)
          /\ runtime' = [runtime EXCEPT !.lease = 0]
          /\ Goto(i, "routing")
       \/ /\ IsCurrent(i)
          /\ \E next \in IF task[i].guided THEN {"owning"} ELSE {"owning", "finalizing"} : Goto(i, next)
          /\ UNCHANGED <<runtime, lease, used>>
    /\ UNCHANGED <<answer, work, inbox, committed, holder, op, silenced, abandoned, deleted, overrun>>

\* requestCoreRouteChange returns.
RouteChanged(i) ==
    /\ At(i, "routing")
    /\ \E failed \in BOOLEAN :
          task' = [task EXCEPT ![i].pc = IF failed THEN "check" ELSE "finalizing", ![i].error = failed]
    /\ UNCHANGED <<runtime, lease, answer, work, inbox, committed, holder, op, silenced, abandoned, deleted, overrun, used>>

\* finalizeMessageAndNotify: the work item of the runtime is completed, then
\* the turn is cleaned up and finished, and its receipt completed at the end.
FinalizeMessage(i) ==
    /\ At(i, "finalizing")
    /\ Goto(i, IF IsCurrent(i) THEN "notifying" ELSE "done")
    /\ UNCHANGED <<runtime, lease, answer, work, inbox, committed, holder, op, silenced, abandoned, deleted, overrun, used>>

PublishCompleted(i) ==
    /\ At(i, "notifying")
    /\ EndWork(runtime.work, "completed")
    /\ Goto(i, "cleanup")
    /\ UNCHANGED <<runtime, lease, answer, inbox, committed, holder, op, silenced, abandoned, deleted, overrun, used>>

\* Mutant: the receipt of the chat is completed, whichever turn it is of.
CompleteAnyReceipt(i) ==
    /\ At(i, "completing")
    /\ Deliver(runtime.receipt, "completed")
    /\ Goto(i, "done")
    /\ UNCHANGED <<runtime, lease, work, inbox, committed, holder, op, silenced, abandoned, deleted, overrun, used>>

CompleteTurnReceipt(i) ==
    /\ At(i, "completing")
    /\ IF runtime.receipt = i THEN Deliver(i, "completed") ELSE UNCHANGED answer
    /\ Goto(i, "done")
    /\ UNCHANGED <<runtime, lease, work, inbox, committed, holder, op, silenced, abandoned, deleted, overrun, used>>

-----------------------------------------------------------------------------
(* The continuation of a turn                                              *)

\* continuationOwnership: the receipt and the lease of a current turn; the
\* limit of tokens waits for a summary first.  A current turn without a lease
\* panics under the lock of the runtimes; the model ends such a task here.
OwnContinuation(i) ==
    /\ At(i, "owning")
    /\ IsCurrent(i) => runtime.lease # 0
    /\ \/ ~IsCurrent(i) /\ Goto(i, "done")
       \/ /\ IsCurrent(i)
          /\ task' = [task EXCEPT ![i].pc = IF task[i].guided THEN "spawning" ELSE "summarizing",
                                  ![i].lease = runtime.lease]
    /\ UNCHANGED <<runtime, lease, answer, work, inbox, committed, holder, op, silenced, abandoned, deleted, overrun, used>>

\* A continuation that cannot start answers its origin with the error.
ContinuationFails(i) ==
    /\ task[i].pc \in {"summarizing", "spawning"}
    /\ DropLease(i)
    /\ task' = [task EXCEPT ![i].pc = "delivering", ![i].error = TRUE]
    /\ UNCHANGED <<runtime, answer, work, inbox, committed, holder, op, silenced, abandoned, deleted, overrun, used>>

\* handleTokenLimitExceeded asks again after the summary.
SummaryEnds(i) ==
    /\ At(i, "summarizing")
    /\ IsCurrent(i)
    /\ Goto(i, "spawning")
    /\ UNCHANGED <<runtime, lease, answer, work, inbox, committed, holder, op, silenced, abandoned, deleted, overrun, used>>

\* sendMessageInternal with the admitted lease, outside the chat holder.
ContinueTurn(i, j) ==
    /\ At(i, "spawning") /\ ~deleted
    /\ At(j, "free") /\ (j > 1 => ~At(j - 1, "free"))
    /\ task' = [task EXCEPT ![i].pc = "waiting",
                            ![j].pc = "admitted", ![j].lease = task[i].lease, ![j].origin = i]
    /\ UNCHANGED <<runtime, lease, answer, work, inbox, committed, holder, op, silenced, abandoned, deleted, overrun, used>>

\* The submission of the continuation is over.
ContinuationEnds(i) ==
    /\ At(i, "waiting")
    /\ \E j \in Task :
          /\ task[j].origin = i /\ task[j].returned
          /\ answer[j] \notin {"none", "pending"}
          /\ task' = [task EXCEPT ![i].pc = "delivering", ![i].error = answer[j] \in {"failed", "closed"}]
    /\ UNCHANGED <<runtime, lease, answer, work, inbox, committed, holder, op, silenced, abandoned, deleted, overrun, used>>

\* deliverContinuationResult: a cancelled origin keeps its receipt for the
\* cancellation; a failure ends the turn first, if it is still current.
DeliverContinuation(i) ==
    /\ At(i, "delivering")
    /\ IF runtime.turn # task[i].turn /\ runtime.receipt = i
       THEN Goto(i, "done")
       ELSE task' = [task EXCEPT ![i].stage = "deliver",
                                 ![i].pc = IF task[i].error /\ IsCurrent(i) THEN "cleanup" ELSE "answering"]
    /\ UNCHANGED <<runtime, lease, answer, work, inbox, committed, holder, op, silenced, abandoned, deleted, overrun, used>>

AnswerOrigin(i) ==
    /\ At(i, "answering")
    /\ Deliver(i, IF task[i].error THEN "failed"
                  ELSE answer[CHOOSE j \in Task : task[j].origin = i])
    /\ Goto(i, "done")
    /\ UNCHANGED <<runtime, lease, work, inbox, committed, holder, op, silenced, abandoned, deleted, overrun, used>>

-----------------------------------------------------------------------------
(* Cancellation                                                            *)

\* cancelMessage and deleteChatHistory, under the lock of the holder.
CancelRequested(kind) ==
    /\ holder = 0 /\ ~deleted
    /\ Event(kind)
    /\ holder' = User
    /\ op' = [op EXCEPT !["user"] = [NoOp EXCEPT !.pc = "reserve", !.kind = kind]]
    /\ UNCHANGED <<runtime, lease, task, answer, work, inbox, committed, silenced, abandoned, deleted, overrun>>

\* stopWork reads the turn a running work item controls.
StopWork(i) ==
    /\ Event("stop")
    /\ work[i] = "running"
    /\ op["stop"].pc = "free"
    /\ op' = [op EXCEPT !["stop"] = [NoOp EXCEPT !.pc = "reserve", !.kind = "stop", !.expected = task[i].controls]]
    /\ UNCHANGED <<runtime, lease, task, answer, work, inbox, committed, holder, silenced, abandoned, deleted, overrun>>

\* reserveCancellation: the cancellation takes a turn number of its own.
Reserve(c) ==
    /\ op[c].pc = "reserve"
    /\ op[c].expected \in {0, runtime.turn}
    /\ runtime.loading /\ ~runtime.cancelling
    /\ runtime' = [runtime EXCEPT !.cancelling = TRUE, !.turn = @ + 1]
    /\ CloseInbox(runtime.inbox)
    /\ op' = [op EXCEPT ![c].pc = "aborting", ![c].mine = runtime.turn + 1]
    /\ silenced' = IF op[c].kind = "cancel" THEN silenced
                   ELSE silenced \cup Waiting(runtime.turn)
    /\ UNCHANGED <<lease, task, answer, work, committed, holder, abandoned, deleted, overrun, used>>

\* Nothing to cancel: an error for the stop action, no partial response for
\* the others.
NothingToCancel(c) ==
    /\ op[c].pc = "reserve"
    /\ ~(op[c].expected \in {0, runtime.turn} /\ runtime.loading /\ ~runtime.cancelling)
    /\ op' = [op EXCEPT ![c].pc = "answer"]
    /\ UNCHANGED <<runtime, lease, task, answer, work, inbox, committed, holder, silenced, abandoned, deleted, overrun, used>>

\* Mutant: the mark of the cancellation stays.
SettleCancelling(c) ==
    /\ op[c].pc = "aborting"
    /\ IF runtime.turn = op[c].mine /\ runtime.cancelling
       THEN /\ Release(runtime.lease)
            /\ runtime' = [runtime EXCEPT !.lease = 0, !.loading = FALSE]
            /\ op' = [op EXCEPT ![c].pc = "finish"]
       ELSE op' = [op EXCEPT ![c].pc = "answer"] /\ UNCHANGED <<runtime, lease>>
    /\ UNCHANGED <<task, answer, work, inbox, committed, holder, silenced, abandoned, deleted, overrun, used>>

\* The producer is cancelled and the stream closed, and the runtime goes idle
\* unless another turn has begun; finishChatExecution follows as two steps.
SettleCancellation(c) ==
    /\ op[c].pc = "aborting"
    /\ IF runtime.turn = op[c].mine /\ runtime.cancelling
       THEN /\ Release(runtime.lease)
            /\ runtime' = [runtime EXCEPT !.lease = 0, !.loading = FALSE, !.cancelling = FALSE]
            /\ op' = [op EXCEPT ![c].pc = "finish"]
       ELSE op' = [op EXCEPT ![c].pc = "answer"] /\ UNCHANGED <<runtime, lease>>
    /\ UNCHANGED <<task, answer, work, inbox, committed, holder, silenced, abandoned, deleted, overrun, used>>

FinishCancellation(c) ==
    /\ op[c].pc = "finish"
    /\ FinishRuntime(op[c].mine)
    /\ op' = [op EXCEPT ![c].pc = "publish"]
    /\ UNCHANGED <<task, answer, work, committed, holder, silenced, abandoned, deleted, used>>

PublishCancelled(c) ==
    /\ op[c].pc = "publish"
    /\ EndWork(runtime.work, "cancelled")
    /\ op' = [op EXCEPT ![c].pc = "answer"]
    /\ UNCHANGED <<runtime, lease, task, answer, inbox, committed, holder, silenced, abandoned, deleted, overrun, used>>

\* cancelMessage settles the receipt of the chat once the partial response is
\* committed, or fails it; the other two leave it as it is.
AnswerCancellation(c) ==
    /\ op[c].pc = "answer"
    /\ IF op[c].kind = "cancel"
       THEN \E result \in {"cancelled", "failed"} : Deliver(runtime.receipt, result)
       ELSE UNCHANGED answer
    /\ deleted' = (deleted \/ op[c].kind = "delete")
    /\ op' = [op EXCEPT ![c] = NoOp]
    /\ IF c = "user" THEN holder' = 0 ELSE UNCHANGED holder
    /\ UNCHANGED <<runtime, lease, task, work, inbox, committed, silenced, abandoned, overrun, used>>

\* The future of cancelMessage is dropped while it waits for the producer to
\* stop: the reservation stays, and with it the lease of the chat.
CancelDropped ==
    /\ Event("drop")
    /\ op["user"].pc = "aborting" /\ op["user"].kind = "cancel"
    /\ abandoned' = abandoned \cup {op["user"].mine}
    /\ silenced' = IF runtime.turn = op["user"].mine THEN silenced \cup Waiting(runtime.turn - 1) ELSE silenced
    /\ op' = [op EXCEPT !["user"] = NoOp]
    /\ holder' = 0
    /\ UNCHANGED <<runtime, lease, task, answer, work, inbox, committed, deleted, overrun>>

\* steerMessage.
SteerMessage ==
    /\ holder = 0
    /\ Event("steer")
    /\ runtime.loading /\ ~runtime.cancelling
    /\ runtime.inbox # 0 /\ inbox[runtime.inbox].accepting
    /\ inbox' = [inbox EXCEPT ![runtime.inbox].pending = @ + 1]
    /\ UNCHANGED <<runtime, lease, task, answer, work, committed, holder, op, silenced, abandoned, deleted, overrun>>

-----------------------------------------------------------------------------
SendStep(i) ==
    \/ SendUnconfigured(i) \/ SendInvalid(i) \/ Begin(i) \/ InstallReceipt(i) \/ StartChatExecution(i)
    \/ BuildFails(i) \/ StreamCreated(i) \/ ProtectFails(i) \/ SendOvertaken(i) \/ SpawnWorker(i)
    \/ SpawnFails(i) \/ DropGuards(i) \/ SendReturns(i)

FinishStep(i) ==
    \/ CleanupRuntimeAfterTurn(i) \/ CheckTurn(i) \/ FailTurnReceipt(i)
    \/ FinishChatExecution(i) \/ PublishTerminalState(i)

WorkerStep(i) ==
    \/ StreamEnds(i) \/ CommitAssistant(i) \/ ReadGuidanceLease(i) \/ DrainGuidance(i) \/ Decide(i)
    \/ RouteChanged(i) \/ FinalizeMessage(i) \/ PublishCompleted(i) \/ CompleteTurnReceipt(i)

ContinuationStep(i) ==
    \/ OwnContinuation(i) \/ ContinuationFails(i) \/ SummaryEnds(i)
    \/ (\E j \in Task : ContinueTurn(i, j))
    \/ ContinuationEnds(i) \/ DeliverContinuation(i) \/ AnswerOrigin(i)

TaskStep(i) == SendStep(i) \/ FinishStep(i) \/ WorkerStep(i) \/ ContinuationStep(i)

CancelStep(c) ==
    \/ Reserve(c) \/ NothingToCancel(c) \/ SettleCancellation(c)
    \/ FinishCancellation(c) \/ PublishCancelled(c) \/ AnswerCancellation(c)

Next ==
    \/ \E i \in Task : SendAdmitted(i) \/ TaskStep(i) \/ SendDropped(i) \/ StopWork(i)
    \/ SendRejected \/ CancelDropped
    \/ \E kind \in {"cancel", "delete"} : CancelRequested(kind)
    \/ \E c \in Canceller : CancelStep(c)
    \/ SteerMessage

Spec == Init /\ [][Next]_vars

\* Tasks and cancellations that have begun go on; in particular a response
\* stream and a summary end, unless their caller drops them, which nothing makes
\* it do.  Users are free to do nothing.
Fairness ==
    /\ \A i \in Task : WF_vars(TaskStep(i))
    /\ \A c \in Canceller : WF_vars(CancelStep(c))

LiveSpec == Spec /\ Fairness

-----------------------------------------------------------------------------
(* Properties                                                              *)

Ended == {"free", "done"}

\* The types of the state, and that a task inside a user's send is the one
\* that holds the chat holder.
TypeOK ==
    /\ runtime.lease \in Task \cup {0} /\ lease \in Task \cup {0}
    /\ {runtime.receipt, runtime.work, runtime.inbox} \subseteq Task \cup {0}
    /\ answer \in [Task -> {"none", "pending", "completed", "failed", "cancelled", "closed"}]
    /\ work \in [Task -> {"none", "running", "completed", "failed", "cancelled"}]
    /\ committed \subseteq Task
    /\ holder \in Task \cup {0, User} /\ (holder = User <=> op["user"].pc # "free")
    /\ \A i \in Task : holder = i <=> task[i].origin = 0 /\ ~task[i].returned /\ ~At(i, "free")

\* The chat is leased only for somebody who will give it back: the runtime, a
\* send whose guard is armed, or a continuation on its way.
LeaseHasOwner ==
    lease # 0 => runtime.lease = lease \/ \E i \in Task : HoldsLease(i) /\ task[i].lease = lease

\* A chat that is loading has a task of its turn, or the cancellation of it,
\* still at work: no combination of early returns leaves it loading for ever.
\* Only a turn whose send or cancellation was dropped by its caller stays so.
LoadingHasOwner ==
    runtime.loading =>
        \/ runtime.turn \in abandoned
        \/ \E i \in Task : task[i].turn = runtime.turn /\ task[i].pc \notin Ended
        \/ \E c \in Canceller : op[c].pc = "aborting" /\ op[c].mine = runtime.turn

\* A send that is told its turn completed has its response in the history,
\* also when it is the continuation of the turn that answers.
CompletedIsCommitted ==
    \A i \in Task : answer[i] = "completed" => i \in committed

\* A worker that collects the response of the current turn holds the chat: no
\* other send is admitted and no plugin changes what the turn has read.  It still
\* does when it hands over to a continuation, where continuationOwnership asserts,
\* under the lock of all chat runtimes, "active turn must have an execution lease".
GenerationKeepsLease ==
    ~overrun => \A i \in Task : IsCurrent(i) =>
        /\ At(i, "streaming") => lease = task[i].lease /\ runtime.lease = lease
        /\ At(i, "owning") => runtime.lease # 0

\* Once users do nothing more, the chat comes to rest: it does not load, and
\* it is free for the next send.  A send dropped by its caller leaves the chat
\* loading, but free; only a dropped cancellation leaves it leased.
ChatComesToRest ==
    <>[] \/ ~runtime.loading /\ ~runtime.cancelling /\ lease = 0
         \/ runtime.turn \in abandoned /\ (runtime.cancelling \/ lease = 0)

\* Every submission is answered in the end, unless its turn was cancelled by
\* the stop action of its work item or by the deletion of the chat, or its
\* send or its cancellation was dropped by its caller.
SubmissionsAnswered == \A i \in Task : (answer[i] = "pending") ~> (answer[i] # "pending" \/ i \in silenced \/ overrun)

\* Every submission is answered: ChatTurnSubmission::Pending "observes one
\* specific originating generation, including its failure or cancellation".
EverySubmissionAnswered == \A i \in Task : (answer[i] = "pending") ~> (answer[i] # "pending")
=============================================================================
