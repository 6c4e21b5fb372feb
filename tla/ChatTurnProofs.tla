--------------------------- MODULE ChatTurnProofs ---------------------------
(***************************************************************************)
(* Proofs, for any number of sends and continuations and any set of        *)
(* events, that no combination of early returns, cancellations and         *)
(* failures leaves a chat leased or loading without somebody who ends it,  *)
(* short of a caller that drops a call half-way, and that a completed      *)
(* submission has its response in the history.                             *)
(***************************************************************************)
EXTENDS ChatTurn, TLAPS

(* The program counters of a task: inside the send, in its worker, and in  *)
(* the end of a turn, which both of them and a continuation share.         *)
SendPc == {"admitted", "begun", "receipted", "building", "accepted", "refused", "dropping"}
WorkerPc == {"streaming", "committing", "guidance", "draining", "decide", "routing", "finalizing",
             "notifying", "completing", "owning", "summarizing", "spawning", "waiting", "delivering"}
FinishPc == {"cleanup", "check", "fail", "finish", "publish"}
Pc == SendPc \cup WorkerPc \cup FinishPc \cup {"free", "returning", "answering", "done"}

Maybe == Task \cup {0}
Answers == {"none", "pending", "completed", "failed", "cancelled", "closed"}
Statuses == {"none", "running", "completed", "failed", "cancelled"}
TaskRecord == [pc : Pc, turn : Nat, lease : Maybe, inbox : Maybe, origin : Maybe,
               stage : {"send", "coordinator", "worker", "deliver"},
               error : BOOLEAN, guided : BOOLEAN, returned : BOOLEAN, controls : Nat]
OpRecord == [pc : {"free", "reserve", "aborting", "finish", "publish", "answer"},
             kind : {"cancel", "delete", "stop"}, expected : Nat, mine : Nat]

(* The types of all variables the invariant speaks of, in full.            *)
Types ==
    /\ runtime \in [turn : Nat, cancelling : BOOLEAN, loading : BOOLEAN,
                    lease : Maybe, receipt : Maybe, work : Maybe, inbox : Maybe]
    /\ lease \in Maybe
    /\ task \in [Task -> TaskRecord]
    /\ answer \in [Task -> Answers]
    /\ work \in [Task -> Statuses]
    /\ inbox \in [Task -> [accepting : BOOLEAN, pending : Nat]]
    /\ committed \in SUBSET Task
    /\ holder \in Task \cup {0, User}
    /\ op \in [Canceller -> OpRecord]
    /\ overrun \in BOOLEAN

-----------------------------------------------------------------------------
(* What holds of one task                                                  *)

(* Where a task is tells on whose behalf it runs, and whether its caller   *)
(* still waits for it.                                                     *)
Staged(i) ==
    /\ At(i, "free") => task[i] = NoTask
    /\ At(i, "done") => task[i].returned
    /\ task[i].pc \in SendPc => task[i].stage = "send"
    /\ task[i].pc \in WorkerPc => task[i].stage = "worker"
    /\ At(i, "returning") => task[i].stage \in {"send", "coordinator"}
    /\ At(i, "answering") => task[i].stage = "deliver"
    /\ task[i].stage \in {"worker", "deliver"} => task[i].returned
    /\ holder = i <=> task[i].origin = 0 /\ ~task[i].returned /\ ~At(i, "free")

(* A task has a turn from its beginChatTurn on; an answer other than the   *)
(* error of a send without a turn comes from a turn; and who was refused,  *)
(* or continued well, has seen a later turn than its own.                  *)
Timed(i) ==
    /\ task[i].turn <= runtime.turn
    /\ runtime.cancelling => task[i].turn # runtime.turn
    /\ task[i].pc \in {"free", "admitted"} => task[i].turn = 0
    /\ task[i].pc \in SendPc \ {"admitted", "dropping"} => task[i].turn > 0
    /\ task[i].stage \in {"worker", "deliver"} => task[i].turn > 0
    /\ answer[i] \notin {"none", "failed"} => task[i].turn > 0
    /\ At(i, "refused") => task[i].turn < runtime.turn
    /\ At(i, "delivering") /\ ~task[i].error => task[i].turn < runtime.turn

(* A task that may still use the lease in its locals as its own.           *)
Active(i) ==
    /\ task[i].pc \notin {"free", "waiting", "delivering", "answering", "done"}
    /\ task[i].stage # "deliver"

(* The runtime has the lease of its turn, or none; and a send whose turn   *)
(* is current has lost its lease in the store if the runtime has none.     *)
Leased(i) ==
    /\ task[i].pc \in (SendPc \ {"dropping"}) \cup {"summarizing", "spawning"} => task[i].lease # 0
    /\ task[i].turn = runtime.turn /\ task[i].turn # 0 /\ Active(i) =>
          runtime.lease \in {0, task[i].lease}
    /\ IsCurrent(i) /\ task[i].pc \in {"begun", "receipted", "building", "accepted"} =>
          runtime.lease = task[i].lease \/ lease # task[i].lease

(* A task that is about to end without a look at the runtime has no turn   *)
(* that is loading, and a worker whose chat loads without a lease is on    *)
(* its way to the end of its turn.                                         *)
Settled(i) ==
    task[i].turn = runtime.turn /\ runtime.loading =>
        /\ task[i].pc \notin {"publish", "completing", "returning", "answering"}
        /\ runtime.lease = 0 /\ task[i].pc \in WorkerPc => task[i].pc \in {"routing", "finalizing", "notifying"}

(* A worker past its commit has committed, and so has one that ends its    *)
(* turn without an error.                                                  *)
HasCommitted(i) ==
    \/ task[i].pc \in WorkerPc \ {"streaming", "committing"}
    \/ task[i].stage = "deliver"
    \/ task[i].pc \in FinishPc /\ task[i].stage = "worker" /\ ~task[i].error
    \/ answer[i] = "completed"
    => i \in committed

(* As long as nobody has ended the turn of another one, a generation keeps *)
(* the runtime loading and its lease in it, and its worker the chat.       *)
GeneratingPc == {"begun", "receipted", "building", "accepted", "streaming", "committing",
                 "guidance", "draining", "decide", "owning"}
Generating(i) ==
    ~overrun /\ IsCurrent(i) /\ task[i].pc \in GeneratingPc =>
        /\ runtime.loading /\ runtime.lease # 0 /\ runtime.lease = task[i].lease
        /\ At(i, "streaming") => lease = task[i].lease

TaskInv(i) ==
    Staged(i) /\ Timed(i) /\ Leased(i) /\ Settled(i) /\ HasCommitted(i) /\ Generating(i)

-----------------------------------------------------------------------------
(* What holds between tasks, and of cancellations                          *)

(* A turn number is handed out once, and a lease passes from a turn to its *)
(* continuation.                                                           *)
Distinct ==
    \A i, k \in Task :
        /\ task[i].turn = task[k].turn /\ task[i].turn # 0 => i = k
        /\ Active(i) /\ Active(k) /\ task[i].lease = task[k].lease /\ task[i].lease # 0 => i = k

(* A continuation begins after the turn it continues, and an origin that   *)
(* answers well has one.                                                   *)
Continued ==
    \A i \in Task :
        /\ task[i].origin # 0 =>
              /\ task[task[i].origin].turn > 0
              /\ task[i].turn # 0 => task[i].turn > task[task[i].origin].turn
        /\ (At(i, "delivering") \/ task[i].stage = "deliver") /\ ~task[i].error =>
              \E j \in Task : task[j].origin = i

(* A cancellation has a turn number of its own, and marks the runtime as   *)
(* long as that is the current one.                                        *)
Cancelling ==
    /\ holder = User <=> op["user"].pc # "free"
    /\ runtime.loading \/ runtime.cancelling => runtime.turn > 0
    /\ \A c \in Canceller :
        /\ op[c].mine <= runtime.turn
        /\ \A i \in Task : op[c].mine # 0 => task[i].turn # op[c].mine
        /\ op[c].pc \in {"aborting", "finish"} => op[c].mine # 0
        /\ op[c].pc = "aborting" /\ op[c].mine = runtime.turn => runtime.cancelling
        /\ \A d \in Canceller : op[c].mine = op[d].mine /\ op[c].mine # 0 => c = d

(* The leases in use were acquired once, by the task that names them, and  *)
(* are never acquired again.                                               *)
Acquired ==
    /\ \A i \in Task : task[i].lease # 0 => ~At(task[i].lease, "free")
    /\ runtime.lease # 0 => ~At(runtime.lease, "free")
    /\ lease # 0 => ~At(lease, "free")

IInv ==
    /\ Types
    /\ \A i \in Task : TaskInv(i)
    /\ Distinct
    /\ Continued
    /\ Cancelling
    /\ Acquired
    /\ LeaseHasOwner
    /\ LoadingHasOwner

-----------------------------------------------------------------------------
(* Init establishes the inductive invariant.                               *)
LEMMA InitIInv == Init => IInv
<1> SUFFICES ASSUME Init PROVE IInv
  OBVIOUS
<1> USE TurnBounds DEF Init, Task, Maybe, NoTask, NoOp, At
<1>1. Types
  BY DEF Types, TaskRecord, OpRecord, Pc, User, Canceller, Answers, Statuses
<1>2. ASSUME NEW i \in Task PROVE TaskInv(i)
  BY <1>2 DEF TaskInv, Staged, Timed, Leased, Settled, HasCommitted, Generating,
     IsCurrent, Active, SendPc, WorkerPc, FinishPc, GeneratingPc
<1>3. Distinct /\ Continued /\ Cancelling /\ Acquired
  BY DEF Distinct, Continued, Cancelling, Acquired, Canceller, User, Active
<1>4. LeaseHasOwner /\ LoadingHasOwner
  BY DEF LeaseHasOwner, LoadingHasOwner
<1> QED BY <1>1, <1>2, <1>3, <1>4 DEF IInv

-----------------------------------------------------------------------------
(* A step of one task beside the runtime                                   *)

(* Task i goes on in its turn; what the runtime says of the turn and of    *)
(* its lease stays, and only receipts that were pending are answered.      *)
Moves(i) ==
    /\ \A k \in Task : k # i => task'[k] = task[k]
    /\ ~At(i, "free") /\ task'[i].pc # "free"
    /\ task'[i].turn = task[i].turn /\ task'[i].origin = task[i].origin
    /\ task'[i].lease \in {0, task[i].lease}
    /\ runtime'.turn = runtime.turn /\ runtime'.cancelling = runtime.cancelling
    /\ runtime'.loading = runtime.loading /\ runtime'.lease = runtime.lease
    /\ \A k \in Task : k # i => \/ answer'[k] = answer[k]
                                \/ answer[k] = "pending" /\ answer'[k] # "completed"
    /\ committed \subseteq committed'
    /\ holder' = holder \/ (holder = i /\ holder' = 0)
    /\ op' = op /\ overrun' = overrun /\ abandoned \subseteq abandoned'

(* What such a step owes to the others: the lease it gives back is its     *)
(* own, a clone that goes away leaves another owner, a task of a loading   *)
(* turn does not just end unless it is dropped, and an origin answers well *)
(* for a continuation.                                                     *)
Owes(i) ==
    /\ lease' = lease \/ (Active(i) /\ task[i].lease = lease /\ lease' = 0)
    /\ Active(i)' => Active(i) /\ task'[i].lease = task[i].lease
    /\ HoldsLease(i) /\ lease' # 0 /\ task[i].lease = lease' =>
          runtime.lease = lease' \/ (HoldsLease(i)' /\ task'[i].lease = lease')
    /\ runtime.loading /\ task[i].turn = runtime.turn =>
          task'[i].pc # "done" \/ runtime.turn \in abandoned'
    /\ (task'[i].pc = "delivering" \/ task'[i].stage = "deliver") /\ ~task'[i].error =>
          \E j \in Task : task[j].origin = i

(* A step of task i that keeps what holds of i keeps the invariant.        *)
LEMMA MoveKeeps ==
    ASSUME IInv, NEW i \in Task, Types', Moves(i), Owes(i), TaskInv(i)'
    PROVE  IInv'
<1> USE TurnBounds DEF IInv
<1>0. 0 \notin Task /\ User \notin Task /\ User # 0 /\ i # 0
  BY DEF Task, User
<1>1. ASSUME NEW k \in Task PROVE TaskInv(k)'
  <2>1. CASE k = i
    BY <2>1
  <2> SUFFICES ASSUME k # i PROVE TaskInv(k)'
    BY <2>1
  <2>2. task'[k] = task[k] /\ TaskInv(k)
    BY DEF Moves
  <2>3. holder' = k <=> holder = k
    BY <1>0 DEF Moves
  <2>4. Staged(k)'
    BY <2>2, <2>3 DEF TaskInv, Staged, At
  <2>5. Timed(k)'
    BY <2>2 DEF Moves, TaskInv, Timed, At
  <2>6. Leased(k)'
    <3>1. lease' = lease \/ lease' = 0
      BY DEF Owes
    <3>2. IsCurrent(k)' <=> IsCurrent(k)
      BY <2>2 DEF IsCurrent, Moves
    <3>3. Active(k)' <=> Active(k)
      BY <2>2 DEF Active
    <3> QED BY <2>2, <3>1, <3>2, <3>3 DEF TaskInv, Leased, Moves, SendPc
  <2>7. Settled(k)' /\ HasCommitted(k)'
    BY <2>2 DEF Moves, TaskInv, Settled, HasCommitted
  <2>8. Generating(k)'
    <3>1. ASSUME lease' # lease, IsCurrent(k), ~overrun, At(k, "streaming") PROVE FALSE
      <4>1. Active(k)
        BY <2>2, <3>1 DEF TaskInv, Staged, Active, At, WorkerPc
      <4>2. task[k].lease = lease /\ lease # 0
        BY <2>2, <3>1 DEF TaskInv, Generating, GeneratingPc, At
      <4> QED BY <3>1, <4>1, <4>2 DEF Owes, Distinct
    <3> QED BY <2>2, <3>1 DEF TaskInv, Generating, IsCurrent, At, Moves, Owes
  <2> QED BY <2>4, <2>5, <2>6, <2>7, <2>8 DEF TaskInv
<1>2. Distinct'
  <2> SUFFICES ASSUME NEW k \in Task, NEW l \in Task
               PROVE /\ task'[k].turn = task'[l].turn /\ task'[k].turn # 0 => k = l
                     /\ Active(k)' /\ Active(l)' /\ task'[k].lease = task'[l].lease
                           /\ task'[k].lease # 0 => k = l
    BY DEF Distinct
  <2>1. \A m \in Task : /\ task'[m].turn = task[m].turn
                        /\ Active(m)' => Active(m) /\ task'[m].lease = task[m].lease
    BY DEF Moves, Owes, Active
  <2> QED BY <2>1 DEF Distinct
<1>3. Continued'
  <2>1. \A m \in Task : task'[m].turn = task[m].turn /\ task'[m].origin = task[m].origin
    BY DEF Moves
  <2>2. \A m \in Task : task[m].origin \in Maybe
    BY DEF Types, TaskRecord
  <2>3. ASSUME NEW k \in Task, At(k, "delivering")' \/ task'[k].stage = "deliver", ~task'[k].error
        PROVE  \E j \in Task : task[j].origin = k
    BY <2>3 DEF Moves, Owes, Continued, At
  <2> QED BY <2>1, <2>2, <2>3 DEF Continued, Maybe
<1>4. Cancelling'
  <2>1. \A m \in Task : task'[m].turn = task[m].turn
    BY DEF Moves
  <2>2. holder' = User <=> holder = User
    BY <1>0 DEF Moves
  <2> QED BY <2>1, <2>2 DEF Moves, Cancelling
<1>5. Acquired'
  <2>1. \A l \in Task : task'[l].pc = "free" => task[l].pc = "free"
    BY DEF Moves
  <2>2. runtime.lease \in Maybe /\ lease \in Maybe
    BY DEF Types
  <2>3. runtime'.lease = runtime.lease /\ (lease' = lease \/ lease' = 0)
    BY DEF Moves, Owes
  <2>4. \A k \in Task : task[k].lease \in Maybe /\ task'[k].lease \in {0, task[k].lease}
    BY DEF Types, TaskRecord, Moves
  <2> QED BY <2>1, <2>2, <2>3, <2>4 DEF Acquired, At, Maybe
<1>6. LeaseHasOwner'
  <2> SUFFICES ASSUME lease' # 0, runtime.lease # lease'
               PROVE \E k \in Task : HoldsLease(k)' /\ task'[k].lease = lease'
    BY DEF LeaseHasOwner, Moves
  <2>1. lease' = lease
    BY DEF Owes
  <2>2. PICK k \in Task : HoldsLease(k) /\ task[k].lease = lease
    BY <2>1 DEF LeaseHasOwner
  <2>3. CASE k = i
    BY <2>1, <2>2, <2>3 DEF Owes
  <2>4. CASE k # i
    <3>1. task'[k] = task[k]
      BY <2>4 DEF Moves
    <3> QED BY <2>1, <2>2, <3>1 DEF HoldsLease
  <2> QED BY <2>3, <2>4
<1>7. LoadingHasOwner'
  <2> SUFFICES ASSUME runtime'.loading, runtime'.turn \notin abandoned'
               PROVE \/ \E k \in Task : task'[k].turn = runtime'.turn /\ task'[k].pc \notin Ended
                     \/ \E c \in Canceller : op'[c].pc = "aborting" /\ op'[c].mine = runtime'.turn
    BY DEF LoadingHasOwner
  <2>1. CASE \E c \in Canceller : op[c].pc = "aborting" /\ op[c].mine = runtime.turn
    BY <2>1 DEF Moves
  <2>2. CASE \E k \in Task : task[k].turn = runtime.turn /\ task[k].pc \notin Ended
    <3>1. PICK k \in Task : task[k].turn = runtime.turn /\ task[k].pc \notin Ended
      BY <2>2
    <3>2. task'[k].turn = runtime'.turn /\ task'[k].pc \notin Ended
      BY <3>1 DEF Moves, Owes, Ended
    <3> QED BY <3>2
  <2> QED BY <2>1, <2>2 DEF LoadingHasOwner, Moves
<1> QED BY <1>1, <1>2, <1>3, <1>4, <1>5, <1>6, <1>7

-----------------------------------------------------------------------------
(* The steps of a task that leave the runtime alone                        *)

(* Task i goes there, and keeps its turn, its origin and its lease.        *)
Went(i, there, stage, failed, returned) ==
    /\ task' \in [Task -> TaskRecord]
    /\ \A k \in Task : k # i => task'[k] = task[k]
    /\ task'[i].pc = there /\ there \notin {"free", "done"} /\ task'[i].stage = stage
    /\ task'[i].error = failed /\ task'[i].returned = returned
    /\ task'[i].turn = task[i].turn /\ task'[i].origin = task[i].origin
    /\ task'[i].lease = task[i].lease

(* Task i is over.                                                         *)
Ends(i) ==
    /\ task' \in [Task -> TaskRecord]
    /\ \A k \in Task : k # i => task'[k] = task[k]
    /\ task'[i].pc = "done" /\ task'[i].stage = "send" /\ task'[i].returned = TRUE
    /\ task'[i].turn = task[i].turn /\ task'[i].origin = task[i].origin /\ task'[i].lease = 0

(* The assignments to the locals of a task that the steps make.            *)
LEMMA StepWent ==
    ASSUME Types, NEW i \in Task, NEW there \in Pc \ {"free", "done"}, NEW failed \in BOOLEAN,
           task' = [task EXCEPT ![i].pc = there, ![i].error = failed]
    PROVE  Went(i, there, task[i].stage, failed, task[i].returned)
<1>1. task \in [Task -> TaskRecord] /\ task[i] \in TaskRecord
  BY DEF Types
<1>2. task' = [task EXCEPT ![i] = [task[i] EXCEPT !.pc = there, !.error = failed]]
  BY <1>1
<1>3. [task[i] EXCEPT !.pc = there, !.error = failed] \in TaskRecord
  BY <1>1 DEF TaskRecord
<1>4. task'[i] = [task[i] EXCEPT !.pc = there, !.error = failed]
  BY <1>1, <1>2
<1>5. task' \in [Task -> TaskRecord] /\ \A k \in Task : k # i => task'[k] = task[k]
  BY <1>1, <1>2, <1>3
<1> QED BY <1>1, <1>4, <1>5 DEF Went, TaskRecord

(* Moving only the program counter changes no other local of the task.     *)
LEMMA GotoWent ==
    ASSUME Types, NEW i \in Task, NEW there \in Pc \ {"free", "done"}, Goto(i, there)
    PROVE  Went(i, there, task[i].stage, task[i].error, task[i].returned)
<1>1. task' = [task EXCEPT ![i].pc = there, ![i].error = task[i].error] /\ task[i].error \in BOOLEAN
  BY DEF Types, TaskRecord, Goto
<1> QED BY <1>1, StepWent

(* A task that goes to its end keeps its locals and owns nothing more.     *)
LEMMA GotoEnds ==
    ASSUME Types, NEW i \in Task, Goto(i, "done")
    PROVE  Ends(i)
<1>1. task \in [Task -> TaskRecord] /\ task[i] \in TaskRecord
  BY DEF Types
<1>2. task' = [task EXCEPT ![i] = Over(task[i])]
  BY DEF Goto
<1>3. /\ Over(task[i]) \in TaskRecord
      /\ Over(task[i]).pc = "done" /\ Over(task[i]).stage = "send" /\ Over(task[i]).returned = TRUE
      /\ Over(task[i]).turn = task[i].turn /\ Over(task[i]).origin = task[i].origin
      /\ Over(task[i]).lease = 0
  BY <1>1, TurnBounds DEF Over, NoTask, TaskRecord, Maybe, Pc, Task
<1> QED BY <1>1, <1>2, <1>3 DEF Ends

(* What the types say of one task and of the runtime.                      *)
LEMMA TaskTyped ==
    ASSUME Types, NEW i \in Task
    PROVE  task[i] \in TaskRecord /\ task[i].turn \in Nat /\ runtime.turn \in Nat /\ i # 0
BY TurnBounds DEF Types, TaskRecord, Task

(* A work item that ends has one of the statuses.                          *)
LEMMA EndWorkTyped ==
    ASSUME Types, NEW k, NEW status \in {"completed", "failed", "cancelled"}, EndWork(k, status)
    PROVE  work' \in [Task -> Statuses]
BY DEF Types, EndWork, Statuses

(* Only a pending receipt is answered, and only the one that is addressed. *)
LEMMA DeliverTyped ==
    ASSUME Types, NEW k, NEW result \in Answers, Deliver(k, result)
    PROVE  /\ answer' \in [Task -> Answers]
           /\ \A l \in Task : \/ answer'[l] = answer[l]
                              \/ l = k /\ answer[l] = "pending" /\ answer'[l] = result
BY DEF Types, Deliver

(* A step of task i that changes nothing but its locals and the status of  *)
(* work items.                                                             *)
Quiet ==
    /\ UNCHANGED <<runtime, lease, answer, inbox, committed, holder, op, abandoned, overrun>>
    /\ work' \in [Task -> Statuses]

(* A step of one task that leaves the runtime alone keeps the invariant.   *)
LEMMA StepKeeps ==
    ASSUME IInv, NEW i \in Task, NEW there, NEW stage, NEW failed,
           Went(i, there, stage, failed, task[i].returned), ~At(i, "free"), Quiet,
           Owes(i), TaskInv(i)'
    PROVE  IInv'
<1>1. Types'
  BY DEF IInv, Types, Went, Quiet
<1>2. Moves(i)
  BY DEF Went, Moves, Quiet
<1> QED BY <1>1, <1>2, MoveKeeps

(* A task that has returned to its caller ends, and may answer on the way. *)
LEMMA EndKeeps ==
    ASSUME IInv, NEW i \in Task, Ends(i), ~At(i, "free"), task[i].returned, ~HoldsLease(i),
           runtime.loading => task[i].turn # runtime.turn,
           UNCHANGED <<runtime, lease, inbox, committed, holder, op, abandoned, overrun>>,
           work' \in [Task -> Statuses],
           answer' \in [Task -> Answers],
           \A k \in Task : \/ answer'[k] = answer[k]
                           \/ answer[k] = "pending" /\ (answer'[k] = "completed" => k = i /\ i \in committed)
    PROVE  IInv'
<1>0. TaskInv(i)
  BY DEF IInv
<1>1. Types'
  BY DEF IInv, Types, Ends
<1>2. Moves(i)
  BY DEF Ends, Moves
<1>3. Owes(i)
  BY DEF Ends, Owes, Active
<1>4. TaskInv(i)'
  <2> USE <1>0 DEF Ends, TaskInv, At, IsCurrent
  <2>1. Staged(i)'
    BY DEF Staged, SendPc, WorkerPc
  <2>2. HasCommitted(i)'
    BY DEF HasCommitted, WorkerPc, FinishPc
  <2>3. Timed(i)'
    BY DEF Timed, SendPc
  <2>4. Leased(i)' /\ Settled(i)' /\ Generating(i)'
    BY DEF Leased, Settled, Generating, GeneratingPc, Active, SendPc, WorkerPc
  <2> QED BY <2>1, <2>2, <2>3, <2>4
<1> QED BY <1>1, <1>2, <1>3, <1>4, MoveKeeps

(* A task that ends without answering a receipt keeps the invariant.       *)
LEMMA QuietEndKeeps ==
    ASSUME IInv, NEW i \in Task, Ends(i), ~At(i, "free"), task[i].returned, ~HoldsLease(i),
           runtime.loading => task[i].turn # runtime.turn, Quiet
    PROVE  IInv'
<1>1. answer' \in [Task -> Answers]
  BY DEF IInv, Types, Quiet
<1> QED BY <1>1, EndKeeps DEF Quiet

-----------------------------------------------------------------------------
(* The steps of a send                                                     *)

(* SendInvalid keeps the invariant.                                        *)
LEMMA SendInvalidKeeps == ASSUME IInv, NEW i \in Task, SendInvalid(i) PROVE IInv'
<1>1. /\ Types /\ TaskInv(i) /\ At(i, "admitted") /\ ~At(i, "free") /\ Quiet
      /\ task[i].turn \in Nat /\ runtime.turn \in Nat /\ i # 0
  BY TaskTyped DEF IInv, Types, SendInvalid, Quiet, At
<1>2. Went(i, "dropping", task[i].stage, TRUE, task[i].returned)
  <2>1. "dropping" \in Pc \ {"free", "done"}
    BY DEF Pc, SendPc
  <2> QED BY <1>1, <2>1, StepWent DEF SendInvalid
<1>3. Owes(i)
  BY <1>1, <1>2 DEF Quiet, Went, Owes, Active, HoldsLease, At, TaskInv, Staged, SendPc, WorkerPc
<1>4. TaskInv(i)'
  <2> USE <1>1, <1>2 DEF Quiet, Went, TaskInv, At, SendPc, WorkerPc, FinishPc, IsCurrent, Active
  <2>1. Staged(i)'
    BY DEF Staged
  <2>2. Timed(i)'
    BY DEF Timed, Staged
  <2>3. Leased(i)' /\ Settled(i)'
    BY DEF Leased, Settled, Timed, Staged
  <2>4. HasCommitted(i)' /\ Generating(i)'
    BY DEF HasCommitted, Generating, GeneratingPc, Leased, Staged
  <2> QED BY <2>1, <2>2, <2>3, <2>4
<1> QED BY <1>1, <1>2, <1>3, <1>4, StepKeeps

(* BuildFails keeps the invariant.                                         *)
LEMMA BuildFailsKeeps == ASSUME IInv, NEW i \in Task, BuildFails(i) PROVE IInv'
<1>1. /\ Types /\ TaskInv(i) /\ At(i, "building") /\ ~At(i, "free") /\ Quiet
      /\ task[i].turn \in Nat /\ runtime.turn \in Nat /\ i # 0
  BY TaskTyped DEF IInv, Types, BuildFails, Quiet, At
<1>2. CASE task' = [task EXCEPT ![i].pc = "cleanup", ![i].error = TRUE]
  <2>1. Went(i, "cleanup", task[i].stage, TRUE, task[i].returned)
    <3>1. "cleanup" \in Pc \ {"free", "done"}
      BY DEF Pc, FinishPc
    <3> QED BY <1>1, <1>2, <3>1, StepWent
  <2>2. Owes(i)
    BY <1>1, <1>2, <2>1 DEF Quiet, Went, Owes, Active, HoldsLease, At, TaskInv, Staged, SendPc, WorkerPc, IInv, Continued
  <2>3. TaskInv(i)'
    <3> USE <1>1, <1>2, <2>1 DEF Quiet, Went, TaskInv, At, SendPc, WorkerPc, FinishPc, IsCurrent, Active
    <3>1. Staged(i)'
      BY DEF Staged
    <3>2. Timed(i)'
      BY DEF Timed, Staged
    <3>3. Leased(i)' /\ Settled(i)'
      BY DEF Leased, Settled, Timed, Staged
    <3>4. HasCommitted(i)' /\ Generating(i)'
      BY DEF HasCommitted, Generating, GeneratingPc, Leased, Staged
    <3> QED BY <3>1, <3>2, <3>3, <3>4
  <2> QED BY <1>1, <1>2, <2>1, <2>2, <2>3, StepKeeps
<1>3. CASE task' = [task EXCEPT ![i].pc = "dropping", ![i].error = TRUE]
  <2>1. Went(i, "dropping", task[i].stage, TRUE, task[i].returned)
    <3>1. "dropping" \in Pc \ {"free", "done"}
      BY DEF Pc, SendPc
    <3> QED BY <1>1, <1>3, <3>1, StepWent
  <2>2. Owes(i)
    BY <1>1, <1>3, <2>1 DEF Quiet, Went, Owes, Active, HoldsLease, At, TaskInv, Staged, SendPc, WorkerPc
  <2>3. TaskInv(i)'
    <3> USE <1>1, <1>3, <2>1 DEF Quiet, Went, TaskInv, At, SendPc, WorkerPc, FinishPc, IsCurrent, Active
    <3>1. Staged(i)'
      BY DEF Staged
    <3>2. Timed(i)'
      BY DEF Timed, Staged
    <3>3. Leased(i)' /\ Settled(i)'
      BY DEF Leased, Settled, Timed, Staged
    <3>4. HasCommitted(i)' /\ Generating(i)'
      BY DEF HasCommitted, Generating, GeneratingPc, Leased, Staged
    <3> QED BY <3>1, <3>2, <3>3, <3>4
  <2> QED BY <1>1, <1>3, <2>1, <2>2, <2>3, StepKeeps
<1> QED BY <1>2, <1>3 DEF BuildFails

(* ProtectFails keeps the invariant.                                       *)
LEMMA ProtectFailsKeeps == ASSUME IInv, NEW i \in Task, ProtectFails(i) PROVE IInv'
<1>1. /\ Types /\ TaskInv(i) /\ task[i].pc \in {"accepted", "refused"} /\ ~At(i, "free") /\ Quiet
      /\ task[i].turn \in Nat /\ runtime.turn \in Nat /\ i # 0
  BY TaskTyped DEF IInv, Types, ProtectFails, Quiet, At
<1>2. Went(i, "dropping", task[i].stage, TRUE, task[i].returned)
  <2>1. "dropping" \in Pc \ {"free", "done"}
    BY DEF Pc, SendPc
  <2> QED BY <1>1, <2>1, StepWent DEF ProtectFails
<1>3. Owes(i)
  BY <1>1, <1>2 DEF Quiet, Went, Owes, Active, HoldsLease, At, TaskInv, Staged, SendPc, WorkerPc
<1>4. TaskInv(i)'
  <2> USE <1>1, <1>2 DEF Quiet, Went, TaskInv, At, SendPc, WorkerPc, FinishPc, IsCurrent, Active
  <2>1. Staged(i)'
    BY DEF Staged
  <2>2. Timed(i)'
    BY DEF Timed, Staged
  <2>3. Leased(i)' /\ Settled(i)'
    BY DEF Leased, Settled, Timed, Staged
  <2>4. HasCommitted(i)' /\ Generating(i)'
    BY DEF HasCommitted, Generating, GeneratingPc, Leased, Staged
  <2> QED BY <2>1, <2>2, <2>3, <2>4
<1> QED BY <1>1, <1>2, <1>3, <1>4, StepKeeps

(* StreamCreated keeps the invariant.                                      *)
LEMMA StreamCreatedKeeps == ASSUME IInv, NEW i \in Task, StreamCreated(i) PROVE IInv'
<1>1. /\ Types /\ TaskInv(i) /\ At(i, "building") /\ ~At(i, "free") /\ Quiet
      /\ task[i].turn \in Nat /\ runtime.turn \in Nat /\ i # 0
  BY TaskTyped DEF IInv, Types, StreamCreated, Quiet, At
<1>2. CASE IsCurrent(i)
  <2>1. Went(i, "accepted", task[i].stage, task[i].error, task[i].returned)
    <3>1. "accepted" \in Pc \ {"free", "done"}
      BY DEF Pc, SendPc
    <3> QED BY <1>1, <1>2, <3>1, GotoWent DEF StreamCreated
  <2>2. Owes(i)
    BY <1>1, <1>2, <2>1 DEF Quiet, Went, Owes, Active, HoldsLease, At, TaskInv, Staged, SendPc, WorkerPc
  <2>3. TaskInv(i)'
    <3> USE <1>1, <1>2, <2>1 DEF Quiet, Went, TaskInv, At, SendPc, WorkerPc, FinishPc, IsCurrent, Active
    <3>1. Staged(i)'
      BY DEF Staged
    <3>2. Timed(i)'
      BY DEF Timed, Staged
    <3>3. Leased(i)' /\ Settled(i)'
      BY DEF Leased, Settled, Timed, Staged
    <3>4. HasCommitted(i)' /\ Generating(i)'
      BY DEF HasCommitted, Generating, GeneratingPc, Leased, Staged
    <3> QED BY <3>1, <3>2, <3>3, <3>4
  <2> QED BY <1>1, <1>2, <2>1, <2>2, <2>3, StepKeeps
<1>3. CASE ~IsCurrent(i)
  <2>1. Went(i, "refused", task[i].stage, task[i].error, task[i].returned)
    <3>1. "refused" \in Pc \ {"free", "done"}
      BY DEF Pc, SendPc
    <3> QED BY <1>1, <1>3, <3>1, GotoWent DEF StreamCreated
  <2>2. Owes(i)
    BY <1>1, <1>3, <2>1 DEF Quiet, Went, Owes, Active, HoldsLease, At, TaskInv, Staged, SendPc, WorkerPc
  <2>3. TaskInv(i)'
    <3> USE <1>1, <1>3, <2>1 DEF Quiet, Went, TaskInv, At, SendPc, WorkerPc, FinishPc, IsCurrent, Active
    <3>1. Staged(i)'
      BY DEF Staged
    <3>2. Timed(i)'
      BY DEF Timed, Staged
    <3>3. Leased(i)' /\ Settled(i)'
      BY DEF Leased, Settled, Timed, Staged
    <3>4. HasCommitted(i)' /\ Generating(i)'
      BY DEF HasCommitted, Generating, GeneratingPc, Leased, Staged
    <3> QED BY <3>1, <3>2, <3>3, <3>4
  <2> QED BY <1>1, <1>3, <2>1, <2>2, <2>3, StepKeeps
<1> QED BY <1>2, <1>3

(* SpawnFails keeps the invariant.                                         *)
LEMMA SpawnFailsKeeps == ASSUME IInv, NEW i \in Task, SpawnFails(i) PROVE IInv'
<1>1. /\ Types /\ TaskInv(i) /\ At(i, "accepted") /\ ~At(i, "free") /\ Quiet
      /\ task[i].turn \in Nat /\ runtime.turn \in Nat /\ i # 0
  BY TaskTyped DEF IInv, Types, SpawnFails, Quiet, At
<1>2. CASE task' = [task EXCEPT ![i].pc = "cleanup", ![i].error = TRUE]
  <2>1. Went(i, "cleanup", task[i].stage, TRUE, task[i].returned)
    <3>1. "cleanup" \in Pc \ {"free", "done"}
      BY DEF Pc, FinishPc
    <3> QED BY <1>1, <1>2, <3>1, StepWent
  <2>2. Owes(i)
    BY <1>1, <1>2, <2>1 DEF Quiet, Went, Owes, Active, HoldsLease, At, TaskInv, Staged, SendPc, WorkerPc, IInv, Continued
  <2>3. TaskInv(i)'
    <3> USE <1>1, <1>2, <2>1 DEF Quiet, Went, TaskInv, At, SendPc, WorkerPc, FinishPc, IsCurrent, Active
    <3>1. Staged(i)'
      BY DEF Staged
    <3>2. Timed(i)'
      BY DEF Timed, Staged
    <3>3. Leased(i)' /\ Settled(i)'
      BY DEF Leased, Settled, Timed, Staged
    <3>4. HasCommitted(i)' /\ Generating(i)'
      BY DEF HasCommitted, Generating, GeneratingPc, Leased, Staged
    <3> QED BY <3>1, <3>2, <3>3, <3>4
  <2> QED BY <1>1, <1>2, <2>1, <2>2, <2>3, StepKeeps
<1>3. CASE task' = [task EXCEPT ![i].pc = "dropping", ![i].error = TRUE]
  <2>1. Went(i, "dropping", task[i].stage, TRUE, task[i].returned)
    <3>1. "dropping" \in Pc \ {"free", "done"}
      BY DEF Pc, SendPc
    <3> QED BY <1>1, <1>3, <3>1, StepWent
  <2>2. Owes(i)
    BY <1>1, <1>3, <2>1 DEF Quiet, Went, Owes, Active, HoldsLease, At, TaskInv, Staged, SendPc, WorkerPc
  <2>3. TaskInv(i)'
    <3> USE <1>1, <1>3, <2>1 DEF Quiet, Went, TaskInv, At, SendPc, WorkerPc, FinishPc, IsCurrent, Active
    <3>1. Staged(i)'
      BY DEF Staged
    <3>2. Timed(i)'
      BY DEF Timed, Staged
    <3>3. Leased(i)' /\ Settled(i)'
      BY DEF Leased, Settled, Timed, Staged
    <3>4. HasCommitted(i)' /\ Generating(i)'
      BY DEF HasCommitted, Generating, GeneratingPc, Leased, Staged
    <3> QED BY <3>1, <3>2, <3>3, <3>4
  <2> QED BY <1>1, <1>3, <2>1, <2>2, <2>3, StepKeeps
<1> QED BY <1>2, <1>3 DEF SpawnFails

-----------------------------------------------------------------------------
(* The steps at the end of a turn, and of a worker                         *)

(* A task that does not end a loading turn goes on after its turn.         *)
LEMMA AfterFinishKeeps ==
    ASSUME IInv, NEW i \in Task, task[i].pc \in {"check", "publish"}, Quiet,
           Goto(i, AfterFinish(i)), runtime.loading => task[i].turn # runtime.turn
    PROVE  IInv'
<1>1. Types /\ TaskInv(i) /\ task[i].pc \in {"check", "publish"} /\ ~At(i, "free") /\ Quiet
      /\ (runtime.loading => task[i].turn # runtime.turn)
  BY DEF IInv, At
<1>2. CASE task[i].stage = "send"
  <2>0. Goto(i, "dropping")
    BY <1>2 DEF AfterFinish
  <2>1. Went(i, "dropping", task[i].stage, task[i].error, task[i].returned)
    <3>1. "dropping" \in Pc \ {"free", "done"}
      BY DEF Pc, SendPc
    <3> QED BY <1>1, <1>2, <2>0, <3>1, GotoWent
  <2>2. Owes(i)
    BY <1>1, <1>2, <2>0, <2>1 DEF Quiet, Went, Owes, Active, HoldsLease, At, TaskInv, Staged, SendPc, WorkerPc
  <2>3. TaskInv(i)'
    <3> USE <1>1, <1>2, <2>0, <2>1 DEF Quiet, Went, TaskInv, At, SendPc, WorkerPc, FinishPc, IsCurrent, Active
    <3>1. Staged(i)'
      BY DEF Staged
    <3>2. Timed(i)'
      BY DEF Timed, Staged
    <3>3. Leased(i)' /\ Settled(i)'
      BY DEF Leased, Settled, Timed, Staged
    <3>4. HasCommitted(i)' /\ Generating(i)'
      BY DEF HasCommitted, Generating, GeneratingPc, Leased, Staged
    <3> QED BY <3>1, <3>2, <3>3, <3>4
  <2> QED BY <1>1, <1>2, <2>0, <2>1, <2>2, <2>3, StepKeeps
<1>3. CASE task[i].stage = "coordinator"
  <2>0. Goto(i, "returning")
    BY <1>3 DEF AfterFinish
  <2>1. Went(i, "returning", task[i].stage, task[i].error, task[i].returned)
    <3>1. "returning" \in Pc \ {"free", "done"}
      BY DEF Pc
    <3> QED BY <1>1, <1>3, <2>0, <3>1, GotoWent
  <2>2. Owes(i)
    BY <1>1, <1>3, <2>0, <2>1 DEF Quiet, Went, Owes, Active, HoldsLease, At, TaskInv, Staged, SendPc, WorkerPc
  <2>3. TaskInv(i)'
    <3> USE <1>1, <1>3, <2>0, <2>1 DEF Quiet, Went, TaskInv, At, SendPc, WorkerPc, FinishPc, IsCurrent, Active
    <3>1. Staged(i)'
      BY DEF Staged
    <3>2. Timed(i)'
      BY DEF Timed, Staged
    <3>3. Leased(i)' /\ Settled(i)'
      BY DEF Leased, Settled, Timed, Staged
    <3>4. HasCommitted(i)' /\ Generating(i)'
      BY DEF HasCommitted, Generating, GeneratingPc, Leased, Staged
    <3> QED BY <3>1, <3>2, <3>3, <3>4
  <2> QED BY <1>1, <1>3, <2>0, <2>1, <2>2, <2>3, StepKeeps
<1>4. CASE task[i].stage = "deliver"
  <2>0. Goto(i, "answering")
    BY <1>4 DEF AfterFinish
  <2>1. Went(i, "answering", task[i].stage, task[i].error, task[i].returned)
    <3>1. "answering" \in Pc \ {"free", "done"}
      BY DEF Pc
    <3> QED BY <1>1, <1>4, <2>0, <3>1, GotoWent
  <2>2. Owes(i)
    BY <1>1, <1>4, <2>0, <2>1 DEF Quiet, Went, Owes, Active, HoldsLease, At, TaskInv, Staged, SendPc, WorkerPc, IInv, Continued
  <2>3. TaskInv(i)'
    <3> USE <1>1, <1>4, <2>0, <2>1 DEF Quiet, Went, TaskInv, At, SendPc, WorkerPc, FinishPc, IsCurrent, Active
    <3>1. Staged(i)'
      BY DEF Staged
    <3>2. Timed(i)'
      BY DEF Timed, Staged
    <3>3. Leased(i)' /\ Settled(i)'
      BY DEF Leased, Settled, Timed, Staged
    <3>4. HasCommitted(i)' /\ Generating(i)'
      BY DEF HasCommitted, Generating, GeneratingPc, Leased, Staged
    <3> QED BY <3>1, <3>2, <3>3, <3>4
  <2> QED BY <1>1, <1>4, <2>0, <2>1, <2>2, <2>3, StepKeeps
<1>5. CASE task[i].stage = "worker" /\ ~task[i].error
  <2>0. Goto(i, "completing")
    BY <1>5 DEF AfterFinish
  <2>1. Went(i, "completing", task[i].stage, task[i].error, task[i].returned)
    <3>1. "completing" \in Pc \ {"free", "done"}
      BY DEF Pc, WorkerPc
    <3> QED BY <1>1, <1>5, <2>0, <3>1, GotoWent
  <2>2. Owes(i)
    BY <1>1, <1>5, <2>0, <2>1 DEF Quiet, Went, Owes, Active, HoldsLease, At, TaskInv, Staged, SendPc, WorkerPc
  <2>3. TaskInv(i)'
    <3> USE <1>1, <1>5, <2>0, <2>1 DEF Quiet, Went, TaskInv, At, SendPc, WorkerPc, FinishPc, IsCurrent, Active
    <3>1. Staged(i)'
      BY DEF Staged
    <3>2. Timed(i)'
      BY DEF Timed, Staged
    <3>3. Leased(i)' /\ Settled(i)'
      BY DEF Leased, Settled, Timed, Staged
    <3>4. HasCommitted(i)' /\ Generating(i)'
      BY DEF HasCommitted, Generating, GeneratingPc, Leased, Staged
    <3> QED BY <3>1, <3>2, <3>3, <3>4
  <2> QED BY <1>1, <1>5, <2>0, <2>1, <2>2, <2>3, StepKeeps
<1>6. CASE task[i].stage = "worker" /\ task[i].error
  <2>0. Goto(i, "done")
    BY <1>6 DEF AfterFinish
  <2>1. Ends(i)
    BY <1>1, <1>6, <2>0, GotoEnds
  <2>2. task[i].returned /\ ~HoldsLease(i) /\ (runtime.loading => task[i].turn # runtime.turn)
    BY <1>1, <1>6, <2>0 DEF TaskInv, Staged, Timed, Settled, HoldsLease, IsCurrent, At, WorkerPc, FinishPc
  <2> QED BY <1>1, <1>6, <2>0, <2>1, <2>2, QuietEndKeeps
<1> QED BY <1>1, <1>2, <1>3, <1>4, <1>5, <1>6 DEF Types, TaskRecord

(* CheckTurn keeps the invariant.                                          *)
LEMMA CheckTurnKeeps == ASSUME IInv, NEW i \in Task, CheckTurn(i) PROVE IInv'
<1>1. /\ Types /\ TaskInv(i) /\ At(i, "check") /\ ~At(i, "free") /\ Quiet
      /\ task[i].turn \in Nat /\ runtime.turn \in Nat /\ i # 0
  BY TaskTyped DEF IInv, Types, CheckTurn, Quiet, At
<1>2. CASE ~IsCurrent(i)
  <2>1. runtime.loading => task[i].turn # runtime.turn
    BY <1>1, <1>2 DEF TaskInv, Timed, IsCurrent
  <2> QED BY <1>1, <1>2, <2>1, AfterFinishKeeps DEF CheckTurn, At
<1>3. CASE IsCurrent(i) /\ task[i].error
  <2>1. Went(i, "fail", task[i].stage, task[i].error, task[i].returned)
    <3>1. "fail" \in Pc \ {"free", "done"}
      BY DEF Pc, FinishPc
    <3> QED BY <1>1, <1>3, <3>1, GotoWent DEF CheckTurn
  <2>2. Owes(i)
    BY <1>1, <1>3, <2>1 DEF Quiet, Went, Owes, Active, HoldsLease, At, TaskInv, Staged, SendPc, WorkerPc, IInv, Continued
  <2>3. TaskInv(i)'
    <3> USE <1>1, <1>3, <2>1 DEF Quiet, Went, TaskInv, At, SendPc, WorkerPc, FinishPc, IsCurrent, Active
    <3>1. Staged(i)'
      BY DEF Staged
    <3>2. Timed(i)'
      BY DEF Timed, Staged
    <3>3. Leased(i)' /\ Settled(i)'
      BY DEF Leased, Settled, Timed, Staged
    <3>4. HasCommitted(i)' /\ Generating(i)'
      BY DEF HasCommitted, Generating, GeneratingPc, Leased, Staged
    <3> QED BY <3>1, <3>2, <3>3, <3>4
  <2> QED BY <1>1, <1>3, <2>1, <2>2, <2>3, StepKeeps
<1>4. CASE IsCurrent(i) /\ ~task[i].error
  <2>1. Went(i, "finish", task[i].stage, task[i].error, task[i].returned)
    <3>1. "finish" \in Pc \ {"free", "done"}
      BY DEF Pc, FinishPc
    <3> QED BY <1>1, <1>4, <3>1, GotoWent DEF CheckTurn
  <2>2. Owes(i)
    BY <1>1, <1>4, <2>1 DEF Quiet, Went, Owes, Active, HoldsLease, At, TaskInv, Staged, SendPc, WorkerPc, IInv, Continued
  <2>3. TaskInv(i)'
    <3> USE <1>1, <1>4, <2>1 DEF Quiet, Went, TaskInv, At, SendPc, WorkerPc, FinishPc, IsCurrent, Active
    <3>1. Staged(i)'
      BY DEF Staged
    <3>2. Timed(i)'
      BY DEF Timed, Staged
    <3>3. Leased(i)' /\ Settled(i)'
      BY DEF Leased, Settled, Timed, Staged
    <3>4. HasCommitted(i)' /\ Generating(i)'
      BY DEF HasCommitted, Generating, GeneratingPc, Leased, Staged
    <3> QED BY <3>1, <3>2, <3>3, <3>4
  <2> QED BY <1>1, <1>4, <2>1, <2>2, <2>3, StepKeeps
<1> QED BY <1>2, <1>3, <1>4

(* PublishTerminalState keeps the invariant.                               *)
LEMMA PublishTerminalStateKeeps == ASSUME IInv, NEW i \in Task, PublishTerminalState(i) PROVE IInv'
<1>1. Types /\ TaskInv(i) /\ At(i, "publish")
  BY DEF IInv, PublishTerminalState
<1>2. Quiet
  BY <1>1, EndWorkTyped DEF PublishTerminalState, Quiet
<1>3. runtime.loading => task[i].turn # runtime.turn
  BY <1>1 DEF TaskInv, Settled, At
<1> QED BY <1>1, <1>2, <1>3, AfterFinishKeeps DEF PublishTerminalState, At

(* StreamEnds keeps the invariant.                                         *)
LEMMA StreamEndsKeeps == ASSUME IInv, NEW i \in Task, StreamEnds(i) PROVE IInv'
<1>1. /\ Types /\ TaskInv(i) /\ At(i, "streaming") /\ ~At(i, "free") /\ Quiet
      /\ task[i].turn \in Nat /\ runtime.turn \in Nat /\ i # 0
  BY TaskTyped DEF IInv, Types, StreamEnds, Quiet, At
<1>2. CASE ~IsCurrent(i)
  <2>1. Ends(i)
    BY <1>1, <1>2, GotoEnds DEF StreamEnds
  <2>2. task[i].returned /\ ~HoldsLease(i) /\ (runtime.loading => task[i].turn # runtime.turn)
    BY <1>1, <1>2 DEF TaskInv, Staged, Timed, Settled, HoldsLease, IsCurrent, At, WorkerPc, FinishPc
  <2> QED BY <1>1, <1>2, <2>1, <2>2, QuietEndKeeps
<1>3. CASE IsCurrent(i)
  <2>0. PICK failed \in BOOLEAN : task' = [task EXCEPT ![i].pc = "committing", ![i].error = failed]
    BY <1>3 DEF StreamEnds
  <2>1. Went(i, "committing", task[i].stage, failed, task[i].returned)
    <3>1. "committing" \in Pc \ {"free", "done"}
      BY DEF Pc, WorkerPc
    <3> QED BY <1>1, <1>3, <2>0, <3>1, StepWent
  <2>2. Owes(i)
    BY <1>1, <1>3, <2>0, <2>1 DEF Quiet, Went, Owes, Active, HoldsLease, At, TaskInv, Staged, SendPc, WorkerPc
  <2>3. TaskInv(i)'
    <3> USE <1>1, <1>3, <2>0, <2>1 DEF Quiet, Went, TaskInv, At, SendPc, WorkerPc, FinishPc, IsCurrent, Active
    <3>1. Staged(i)'
      BY DEF Staged
    <3>2. Timed(i)'
      BY DEF Timed, Staged
    <3>3. Leased(i)' /\ Settled(i)'
      BY DEF Leased, Settled, Timed, Staged
    <3>4. HasCommitted(i)' /\ Generating(i)'
      BY DEF HasCommitted, Generating, GeneratingPc, Leased, Staged
    <3> QED BY <3>1, <3>2, <3>3, <3>4
  <2> QED BY <1>1, <1>3, <2>0, <2>1, <2>2, <2>3, StepKeeps
<1> QED BY <1>2, <1>3

(* ReadGuidanceLease keeps the invariant.                                  *)
LEMMA ReadGuidanceLeaseKeeps == ASSUME IInv, NEW i \in Task, ReadGuidanceLease(i) PROVE IInv'
<1>1. /\ Types /\ TaskInv(i) /\ At(i, "guidance") /\ ~At(i, "free") /\ Quiet
      /\ task[i].turn \in Nat /\ runtime.turn \in Nat /\ i # 0
  BY TaskTyped DEF IInv, Types, ReadGuidanceLease, Quiet, At
<1>2. CASE IsCurrent(i) /\ runtime.lease # 0
  <2>1. Went(i, "draining", task[i].stage, task[i].error, task[i].returned)
    <3>1. "draining" \in Pc \ {"free", "done"}
      BY DEF Pc, WorkerPc
    <3> QED BY <1>1, <1>2, <3>1, GotoWent DEF ReadGuidanceLease
  <2>2. Owes(i)
    BY <1>1, <1>2, <2>1 DEF Quiet, Went, Owes, Active, HoldsLease, At, TaskInv, Staged, SendPc, WorkerPc
  <2>3. TaskInv(i)'
    <3> USE <1>1, <1>2, <2>1 DEF Quiet, Went, TaskInv, At, SendPc, WorkerPc, FinishPc, IsCurrent, Active
    <3>1. Staged(i)'
      BY DEF Staged
    <3>2. Timed(i)'
      BY DEF Timed, Staged
    <3>3. Leased(i)' /\ Settled(i)'
      BY DEF Leased, Settled, Timed, Staged
    <3>4. HasCommitted(i)' /\ Generating(i)'
      BY DEF HasCommitted, Generating, GeneratingPc, Leased, Staged
    <3> QED BY <3>1, <3>2, <3>3, <3>4
  <2> QED BY <1>1, <1>2, <2>1, <2>2, <2>3, StepKeeps
<1>3. CASE ~(IsCurrent(i) /\ runtime.lease # 0)
  <2>1. Ends(i)
    BY <1>1, <1>3, GotoEnds DEF ReadGuidanceLease
  <2>2. task[i].returned /\ ~HoldsLease(i) /\ (runtime.loading => task[i].turn # runtime.turn)
    BY <1>1, <1>3 DEF TaskInv, Staged, Timed, Settled, HoldsLease, IsCurrent, At, WorkerPc, FinishPc
  <2> QED BY <1>1, <1>3, <2>1, <2>2, QuietEndKeeps
<1> QED BY <1>2, <1>3

(* RouteChanged keeps the invariant.                                       *)
LEMMA RouteChangedKeeps == ASSUME IInv, NEW i \in Task, RouteChanged(i) PROVE IInv'
<1>1. /\ Types /\ TaskInv(i) /\ At(i, "routing") /\ ~At(i, "free") /\ Quiet
      /\ task[i].turn \in Nat /\ runtime.turn \in Nat /\ i # 0
  BY TaskTyped DEF IInv, Types, RouteChanged, Quiet, At
<1>2. CASE task' = [task EXCEPT ![i].pc = "check", ![i].error = TRUE]
  <2>1. Went(i, "check", task[i].stage, TRUE, task[i].returned)
    <3>1. "check" \in Pc \ {"free", "done"}
      BY DEF Pc, FinishPc
    <3> QED BY <1>1, <1>2, <3>1, StepWent
  <2>2. Owes(i)
    BY <1>1, <1>2, <2>1 DEF Quiet, Went, Owes, Active, HoldsLease, At, TaskInv, Staged, SendPc, WorkerPc, IInv, Continued
  <2>3. TaskInv(i)'
    <3> USE <1>1, <1>2, <2>1 DEF Quiet, Went, TaskInv, At, SendPc, WorkerPc, FinishPc, IsCurrent, Active
    <3>1. Staged(i)'
      BY DEF Staged
    <3>2. Timed(i)'
      BY DEF Timed, Staged
    <3>3. Leased(i)' /\ Settled(i)'
      BY DEF Leased, Settled, Timed, Staged
    <3>4. HasCommitted(i)' /\ Generating(i)'
      BY DEF HasCommitted, Generating, GeneratingPc, Leased, Staged
    <3> QED BY <3>1, <3>2, <3>3, <3>4
  <2> QED BY <1>1, <1>2, <2>1, <2>2, <2>3, StepKeeps
<1>3. CASE task' = [task EXCEPT ![i].pc = "finalizing", ![i].error = FALSE]
  <2>1. Went(i, "finalizing", task[i].stage, FALSE, task[i].returned)
    <3>1. "finalizing" \in Pc \ {"free", "done"}
      BY DEF Pc, WorkerPc
    <3> QED BY <1>1, <1>3, <3>1, StepWent
  <2>2. Owes(i)
    BY <1>1, <1>3, <2>1 DEF Quiet, Went, Owes, Active, HoldsLease, At, TaskInv, Staged, SendPc, WorkerPc
  <2>3. TaskInv(i)'
    <3> USE <1>1, <1>3, <2>1 DEF Quiet, Went, TaskInv, At, SendPc, WorkerPc, FinishPc, IsCurrent, Active
    <3>1. Staged(i)'
      BY DEF Staged
    <3>2. Timed(i)'
      BY DEF Timed, Staged
    <3>3. Leased(i)' /\ Settled(i)'
      BY DEF Leased, Settled, Timed, Staged
    <3>4. HasCommitted(i)' /\ Generating(i)'
      BY DEF HasCommitted, Generating, GeneratingPc, Leased, Staged
    <3> QED BY <3>1, <3>2, <3>3, <3>4
  <2> QED BY <1>1, <1>3, <2>1, <2>2, <2>3, StepKeeps
<1> QED BY <1>2, <1>3 DEF RouteChanged

(* FinalizeMessage keeps the invariant.                                    *)
LEMMA FinalizeMessageKeeps == ASSUME IInv, NEW i \in Task, FinalizeMessage(i) PROVE IInv'
<1>1. /\ Types /\ TaskInv(i) /\ At(i, "finalizing") /\ ~At(i, "free") /\ Quiet
      /\ task[i].turn \in Nat /\ runtime.turn \in Nat /\ i # 0
  BY TaskTyped DEF IInv, Types, FinalizeMessage, Quiet, At
<1>2. CASE IsCurrent(i)
  <2>1. Went(i, "notifying", task[i].stage, task[i].error, task[i].returned)
    <3>1. "notifying" \in Pc \ {"free", "done"}
      BY DEF Pc, WorkerPc
    <3> QED BY <1>1, <1>2, <3>1, GotoWent DEF FinalizeMessage
  <2>2. Owes(i)
    BY <1>1, <1>2, <2>1 DEF Quiet, Went, Owes, Active, HoldsLease, At, TaskInv, Staged, SendPc, WorkerPc
  <2>3. TaskInv(i)'
    <3> USE <1>1, <1>2, <2>1 DEF Quiet, Went, TaskInv, At, SendPc, WorkerPc, FinishPc, IsCurrent, Active
    <3>1. Staged(i)'
      BY DEF Staged
    <3>2. Timed(i)'
      BY DEF Timed, Staged
    <3>3. Leased(i)' /\ Settled(i)'
      BY DEF Leased, Settled, Timed, Staged
    <3>4. HasCommitted(i)' /\ Generating(i)'
      BY DEF HasCommitted, Generating, GeneratingPc, Leased, Staged
    <3> QED BY <3>1, <3>2, <3>3, <3>4
  <2> QED BY <1>1, <1>2, <2>1, <2>2, <2>3, StepKeeps
<1>3. CASE ~IsCurrent(i)
  <2>1. Ends(i)
    BY <1>1, <1>3, GotoEnds DEF FinalizeMessage
  <2>2. task[i].returned /\ ~HoldsLease(i) /\ (runtime.loading => task[i].turn # runtime.turn)
    BY <1>1, <1>3 DEF TaskInv, Staged, Timed, Settled, HoldsLease, IsCurrent, At, WorkerPc, FinishPc
  <2> QED BY <1>1, <1>3, <2>1, <2>2, QuietEndKeeps
<1> QED BY <1>2, <1>3

(* PublishCompleted keeps the invariant.                                   *)
LEMMA PublishCompletedKeeps == ASSUME IInv, NEW i \in Task, PublishCompleted(i) PROVE IInv'
<1>1. /\ Types /\ TaskInv(i) /\ At(i, "notifying") /\ ~At(i, "free")
      /\ task[i].turn \in Nat /\ runtime.turn \in Nat /\ i # 0
  BY TaskTyped DEF IInv, Types, PublishCompleted, At
<1>a. Quiet
  BY <1>1, EndWorkTyped DEF PublishCompleted, Quiet
<1>2. Went(i, "cleanup", task[i].stage, task[i].error, task[i].returned)
  <2>1. "cleanup" \in Pc \ {"free", "done"}
    BY DEF Pc, FinishPc
  <2> QED BY <1>1, <1>a, <2>1, GotoWent DEF PublishCompleted
<1>3. Owes(i)
  BY <1>1, <1>a, <1>2 DEF Quiet, Went, Owes, Active, HoldsLease, At, TaskInv, Staged, SendPc, WorkerPc, IInv, Continued
<1>4. TaskInv(i)'
  <2> USE <1>1, <1>a, <1>2 DEF Quiet, Went, TaskInv, At, SendPc, WorkerPc, FinishPc, IsCurrent, Active
  <2>1. Staged(i)'
    BY DEF Staged
  <2>2. Timed(i)'
    BY DEF Timed, Staged
  <2>3. Leased(i)' /\ Settled(i)'
    BY DEF Leased, Settled, Timed, Staged
  <2>4. HasCommitted(i)' /\ Generating(i)'
    BY DEF HasCommitted, Generating, GeneratingPc, Leased, Staged
  <2> QED BY <2>1, <2>2, <2>3, <2>4
<1> QED BY <1>1, <1>a, <1>2, <1>3, <1>4, StepKeeps

(* SummaryEnds keeps the invariant.                                        *)
LEMMA SummaryEndsKeeps == ASSUME IInv, NEW i \in Task, SummaryEnds(i) PROVE IInv'
<1>1. /\ Types /\ TaskInv(i) /\ At(i, "summarizing") /\ ~At(i, "free") /\ Quiet
      /\ task[i].turn \in Nat /\ runtime.turn \in Nat /\ i # 0
  BY TaskTyped DEF IInv, Types, SummaryEnds, Quiet, At
<1>2. Went(i, "spawning", task[i].stage, task[i].error, task[i].returned)
  <2>1. "spawning" \in Pc \ {"free", "done"}
    BY DEF Pc, WorkerPc
  <2> QED BY <1>1, <2>1, GotoWent DEF SummaryEnds
<1>3. Owes(i)
  BY <1>1, <1>2 DEF Quiet, Went, Owes, Active, HoldsLease, At, TaskInv, Staged, SendPc, WorkerPc
<1>4. TaskInv(i)'
  <2> USE <1>1, <1>2 DEF Quiet, Went, TaskInv, At, SendPc, WorkerPc, FinishPc, IsCurrent, Active
  <2>1. Staged(i)'
    BY DEF Staged
  <2>2. Timed(i)'
    BY DEF Timed, Staged
  <2>3. Leased(i)' /\ Settled(i)'
    BY DEF Leased, Settled, Timed, Staged
  <2>4. HasCommitted(i)' /\ Generating(i)'
    BY DEF HasCommitted, Generating, GeneratingPc, Leased, Staged
  <2> QED BY <2>1, <2>2, <2>3, <2>4
<1> QED BY <1>1, <1>2, <1>3, <1>4, StepKeeps

-----------------------------------------------------------------------------
(* The steps of a task that also end a work item, answer a receipt, commit *)
(* or give the lease back                                                  *)

(* A clone of a lease that goes away leaves another owner, or none.        *)
LEMMA DropLeaseFacts ==
    ASSUME Types, NEW i \in Task, DropLease(i)
    PROVE  /\ lease' \in Maybe
           /\ lease' = lease \/ (task[i].lease = lease /\ lease' = 0)
           /\ lease' # 0 /\ task[i].lease = lease' => runtime.lease = lease'
BY DEF Types, DropLease, Release, Maybe

(* SendUnconfigured keeps the invariant.                                   *)
LEMMA SendUnconfiguredKeeps == ASSUME IInv, NEW i \in Task, SendUnconfigured(i) PROVE IInv'
<1>1. /\ Types /\ TaskInv(i) /\ At(i, "admitted") /\ ~At(i, "free")
      /\ task[i].turn \in Nat /\ runtime.turn \in Nat /\ i # 0
  BY TaskTyped DEF IInv, Types, SendUnconfigured, At
<1>2. Went(i, "returning", task[i].stage, task[i].error, task[i].returned)
  <2>1. "returning" \in Pc \ {"free", "done"}
    BY DEF Pc
  <2> QED BY <1>1, <2>1, GotoWent DEF SendUnconfigured
<1>3. /\ lease' \in Maybe
      /\ lease' = lease \/ (task[i].lease = lease /\ lease' = 0)
      /\ lease' # 0 /\ task[i].lease = lease' => runtime.lease = lease'
  BY <1>1, DropLeaseFacts DEF SendUnconfigured
<1>4. work' \in [Task -> Statuses]
  BY <1>1, EndWorkTyped DEF SendUnconfigured
<1>5. UNCHANGED <<runtime, answer, inbox, committed, holder, op, abandoned, overrun>>
  BY DEF SendUnconfigured
<1>6. runtime.loading => task[i].turn # runtime.turn
  BY <1>1 DEF IInv, TaskInv, Timed, Cancelling, At
<1>7. Types'
  BY <1>1, <1>2, <1>3, <1>4, <1>5, <1>6 DEF Types, Went
<1>8. Moves(i)
  BY <1>1, <1>2, <1>3, <1>4, <1>5, <1>6 DEF Went, Moves, At
<1>9. Owes(i)
  BY <1>1, <1>2, <1>3, <1>4, <1>5, <1>6 DEF Went, Owes, Active, HoldsLease, At, TaskInv, Staged, Settled, SendPc, WorkerPc, IInv, Continued
<1>10. TaskInv(i)'
  <2> USE <1>1, <1>2, <1>3, <1>4, <1>5, <1>6 DEF Went, TaskInv, At, SendPc, WorkerPc, FinishPc, IsCurrent, Active
  <2>1. Staged(i)'
    BY DEF Staged
  <2>2. Timed(i)'
    BY DEF Timed, Staged
  <2>3. Leased(i)' /\ Settled(i)'
    BY DEF Leased, Settled, Timed, Staged
  <2>4. HasCommitted(i)' /\ Generating(i)'
    BY DEF HasCommitted, Generating, GeneratingPc, Leased, Staged
  <2> QED BY <2>1, <2>2, <2>3, <2>4
<1> QED BY <1>7, <1>8, <1>9, <1>10, MoveKeeps

(* StartChatExecution keeps the invariant.                                 *)
LEMMA StartChatExecutionKeeps == ASSUME IInv, NEW i \in Task, StartChatExecution(i) PROVE IInv'
<1>1. /\ Types /\ TaskInv(i) /\ At(i, "receipted") /\ ~At(i, "free")
      /\ task[i].turn \in Nat /\ runtime.turn \in Nat /\ i # 0
  BY TaskTyped DEF IInv, Types, StartChatExecution, At
<1>2. Went(i, "building", task[i].stage, task[i].error, task[i].returned)
  <2>1. "building" \in Pc \ {"free", "done"}
    BY DEF Pc, SendPc
  <2>2. task[i] \in TaskRecord
    BY <1>1 DEF Types
  <2> DEFINE r == [task[i] EXCEPT !.pc = "building", !.controls = runtime.turn]
  <2>3. r \in TaskRecord
    BY <1>1, <2>1, <2>2 DEF TaskRecord
  <2>4. task' = [task EXCEPT ![i] = r]
    BY <1>1, <2>2 DEF Types, StartChatExecution
  <2>5. task' \in [Task -> TaskRecord] /\ task'[i] = r /\ \A k \in Task : k # i => task'[k] = task[k]
    BY <1>1, <2>3, <2>4 DEF Types
  <2> QED BY <2>1, <2>2, <2>5 DEF Went, TaskRecord
<1>3. /\ runtime' = [runtime EXCEPT !.work = i] /\ work' = [work EXCEPT ![i] = "running"]
      /\ UNCHANGED <<lease, answer, inbox, committed, holder, op, abandoned, overrun>>
  BY DEF StartChatExecution
<1>4. /\ runtime' \in [turn : Nat, cancelling : BOOLEAN, loading : BOOLEAN,
                       lease : Maybe, receipt : Maybe, work : Maybe, inbox : Maybe]
      /\ runtime'.turn = runtime.turn /\ runtime'.cancelling = runtime.cancelling
      /\ runtime'.loading = runtime.loading /\ runtime'.lease = runtime.lease
  BY <1>1, <1>3 DEF Types, Maybe
<1>5. work' \in [Task -> Statuses]
  BY <1>1, <1>3 DEF Types, Statuses
<1>6. Types'
  BY <1>1, <1>2, <1>3, <1>4, <1>5 DEF Types, Went
<1>7. Moves(i)
  BY <1>1, <1>2, <1>3, <1>4, <1>5 DEF Went, Moves, At
<1>8. Owes(i)
  BY <1>1, <1>2, <1>3, <1>4, <1>5 DEF Went, Owes, Active, HoldsLease, At, TaskInv, Staged, Settled, SendPc, WorkerPc, IInv, Continued
<1>9. TaskInv(i)'
  <2> USE <1>1, <1>2, <1>3, <1>4, <1>5 DEF Went, TaskInv, At, SendPc, WorkerPc, FinishPc, IsCurrent, Active
  <2>1. Staged(i)'
    BY DEF Staged
  <2>2. Timed(i)'
    BY DEF Timed, Staged
  <2>3. Leased(i)' /\ Settled(i)'
    BY DEF Leased, Settled, Timed, Staged
  <2>4. HasCommitted(i)' /\ Generating(i)'
    BY DEF HasCommitted, Generating, GeneratingPc, Leased, Staged
  <2> QED BY <2>1, <2>2, <2>3, <2>4
<1> QED BY <1>6, <1>7, <1>8, <1>9, MoveKeeps

(* InstallReceipt keeps the invariant.                                     *)
LEMMA InstallReceiptKeeps == ASSUME IInv, NEW i \in Task, InstallReceipt(i) PROVE IInv'
<1>1. /\ Types /\ TaskInv(i) /\ At(i, "begun") /\ ~At(i, "free")
      /\ task[i].turn \in Nat /\ runtime.turn \in Nat /\ i # 0
  BY TaskTyped DEF IInv, Types, InstallReceipt, At
<1>2. Went(i, "receipted", task[i].stage, task[i].error, task[i].returned)
  <2>1. "receipted" \in Pc \ {"free", "done"}
    BY DEF Pc, SendPc
  <2> QED BY <1>1, <2>1, GotoWent DEF InstallReceipt
<1>3. /\ runtime' = [runtime EXCEPT !.receipt = i]
      /\ UNCHANGED <<lease, work, inbox, committed, holder, op, abandoned, overrun>>
  BY DEF InstallReceipt
<1>4. /\ runtime' \in [turn : Nat, cancelling : BOOLEAN, loading : BOOLEAN,
                       lease : Maybe, receipt : Maybe, work : Maybe, inbox : Maybe]
      /\ runtime'.turn = runtime.turn /\ runtime'.cancelling = runtime.cancelling
      /\ runtime'.loading = runtime.loading /\ runtime'.lease = runtime.lease
  BY <1>1, <1>3 DEF Types, Maybe
<1>5. /\ answer' \in [Task -> Answers]
      /\ answer'[i] = "pending"
      /\ \A k \in Task : k # i => \/ answer'[k] = answer[k]
                                  \/ answer[k] = "pending" /\ answer'[k] = "closed"
  BY <1>1 DEF Types, InstallReceipt, Answers
<1>6. Types'
  BY <1>1, <1>2, <1>3, <1>4, <1>5 DEF Types, Went
<1>7. Moves(i)
  BY <1>1, <1>2, <1>3, <1>4, <1>5 DEF Went, Moves, At
<1>8. Owes(i)
  BY <1>1, <1>2, <1>3, <1>4, <1>5 DEF Went, Owes, Active, HoldsLease, At, TaskInv, Staged, Settled, SendPc, WorkerPc, IInv, Continued
<1>9. TaskInv(i)'
  <2> USE <1>1, <1>2, <1>3, <1>4, <1>5 DEF Went, TaskInv, At, SendPc, WorkerPc, FinishPc, IsCurrent, Active
  <2>1. Staged(i)'
    BY DEF Staged
  <2>2. Timed(i)'
    BY DEF Timed, Staged
  <2>3. Leased(i)' /\ Settled(i)'
    BY DEF Leased, Settled, Timed, Staged
  <2>4. HasCommitted(i)' /\ Generating(i)'
    BY DEF HasCommitted, Generating, GeneratingPc, Leased, Staged
  <2> QED BY <2>1, <2>2, <2>3, <2>4
<1> QED BY <1>6, <1>7, <1>8, <1>9, MoveKeeps

(* SpawnWorker keeps the invariant.                                        *)
LEMMA SpawnWorkerKeeps == ASSUME IInv, NEW i \in Task, SpawnWorker(i) PROVE IInv'
<1>1. /\ Types /\ TaskInv(i) /\ At(i, "accepted") /\ IsCurrent(i) /\ lease = task[i].lease /\ ~At(i, "free")
      /\ task[i].turn \in Nat /\ runtime.turn \in Nat /\ i # 0
  BY TaskTyped DEF IInv, Types, SpawnWorker, At
<1>2. Went(i, "streaming", "worker", task[i].error, TRUE)
  <2>1. "streaming" \in Pc \ {"free", "done"}
    BY DEF Pc, WorkerPc
  <2>2. task[i] \in TaskRecord
    BY <1>1 DEF Types
  <2> DEFINE r == [task[i] EXCEPT !.pc = "streaming", !.stage = "worker", !.returned = TRUE]
  <2>3. r \in TaskRecord
    BY <1>1, <2>1, <2>2 DEF TaskRecord
  <2>4. task' = [task EXCEPT ![i] = r]
    BY <1>1, <2>2 DEF Types, SpawnWorker
  <2>5. task' \in [Task -> TaskRecord] /\ task'[i] = r /\ \A k \in Task : k # i => task'[k] = task[k]
    BY <1>1, <2>3, <2>4 DEF Types
  <2> QED BY <2>1, <2>2, <2>5 DEF Went, TaskRecord
<1>3. /\ holder' = IF holder = i THEN 0 ELSE holder
      /\ UNCHANGED <<runtime, lease, answer, work, inbox, committed, op, abandoned, overrun>>
  BY DEF SpawnWorker, FreeHolder
<1>4. runtime.lease = task[i].lease /\ task[i].lease # 0
  BY <1>1 DEF TaskInv, Leased, At, SendPc
<1>5. Types'
  BY <1>1, <1>2, <1>3, <1>4 DEF Types, Went
<1>6. Moves(i)
  BY <1>1, <1>2, <1>3, <1>4 DEF Went, Moves, At
<1>7. Owes(i)
  BY <1>1, <1>2, <1>3, <1>4 DEF Went, Owes, Active, HoldsLease, At, TaskInv, Staged, Settled, SendPc, WorkerPc, IInv, Continued
<1>8. TaskInv(i)'
  <2> USE <1>1, <1>2, <1>3, <1>4 DEF Went, TaskInv, At, SendPc, WorkerPc, FinishPc, IsCurrent, Active
  <2>1. Staged(i)'
    BY DEF Staged
  <2>2. Timed(i)'
    BY DEF Timed, Staged
  <2>3. Leased(i)' /\ Settled(i)'
    BY DEF Leased, Settled, Timed, Staged
  <2>4. HasCommitted(i)' /\ Generating(i)'
    BY DEF HasCommitted, Generating, GeneratingPc, Leased, Staged
  <2> QED BY <2>1, <2>2, <2>3, <2>4
<1> QED BY <1>5, <1>6, <1>7, <1>8, MoveKeeps

(* DropGuards keeps the invariant.                                         *)
LEMMA DropGuardsKeeps == ASSUME IInv, NEW i \in Task, DropGuards(i) PROVE IInv'
<1>1. /\ Types /\ TaskInv(i) /\ At(i, "dropping") /\ ~At(i, "free")
      /\ task[i].turn \in Nat /\ runtime.turn \in Nat /\ i # 0
  BY TaskTyped DEF IInv, Types, DropGuards, At
<1>2. Went(i, "fail", "coordinator", task[i].error, task[i].returned)
  <2>1. "fail" \in Pc \ {"free", "done"}
    BY DEF Pc, FinishPc
  <2>2. task[i] \in TaskRecord
    BY <1>1 DEF Types
  <2> DEFINE r == [task[i] EXCEPT !.pc = "fail", !.stage = "coordinator"]
  <2>3. r \in TaskRecord
    BY <1>1, <2>1, <2>2 DEF TaskRecord
  <2>4. task' = [task EXCEPT ![i] = r]
    BY <1>1, <2>2 DEF Types, DropGuards
  <2>5. task' \in [Task -> TaskRecord] /\ task'[i] = r /\ \A k \in Task : k # i => task'[k] = task[k]
    BY <1>1, <2>3, <2>4 DEF Types
  <2> QED BY <2>1, <2>2, <2>5 DEF Went, TaskRecord
<1>3. /\ lease' \in Maybe
      /\ lease' = IF lease = task[i].lease THEN 0 ELSE lease
      /\ UNCHANGED <<runtime, answer, inbox, committed, holder, op, abandoned, overrun>>
  BY <1>1 DEF DropGuards, Release, Types, Maybe
<1>4. work' \in [Task -> Statuses]
  BY <1>1, EndWorkTyped DEF DropGuards
<1>5. Types'
  BY <1>1, <1>2, <1>3, <1>4 DEF Types, Went
<1>6. Moves(i)
  BY <1>1, <1>2, <1>3, <1>4 DEF Went, Moves, At
<1>7. Owes(i)
  BY <1>1, <1>2, <1>3, <1>4 DEF Went, Owes, Active, HoldsLease, At, TaskInv, Staged, Settled, SendPc, WorkerPc, IInv, Continued
<1>8. TaskInv(i)'
  <2> USE <1>1, <1>2, <1>3, <1>4 DEF Went, TaskInv, At, SendPc, WorkerPc, FinishPc, IsCurrent, Active
  <2>1. Staged(i)'
    BY DEF Staged
  <2>2. Timed(i)'
    BY DEF Timed, Staged
  <2>3. Leased(i)' /\ Settled(i)'
    BY DEF Leased, Settled, Timed, Staged
  <2>4. HasCommitted(i)' /\ Generating(i)'
    BY DEF HasCommitted, Generating, GeneratingPc, Leased, Staged
  <2> QED BY <2>1, <2>2, <2>3, <2>4
<1> QED BY <1>5, <1>6, <1>7, <1>8, MoveKeeps

(* SendOvertaken keeps the invariant.                                      *)
LEMMA SendOvertakenKeeps == ASSUME IInv, NEW i \in Task, SendOvertaken(i) PROVE IInv'
<1>1. /\ Types /\ TaskInv(i) /\ task[i].pc \in {"accepted", "refused"} /\ lease = task[i].lease /\ ~At(i, "free")
      /\ task[i].turn \in Nat /\ runtime.turn \in Nat /\ i # 0
  BY TaskTyped DEF IInv, Types, SendOvertaken, At
<1>2. Ends(i)
  BY <1>1, GotoEnds DEF SendOvertaken
<1>3. /\ lease' = 0 /\ holder' = IF holder = i THEN 0 ELSE holder
      /\ UNCHANGED <<runtime, answer, inbox, committed, op, abandoned, overrun>>
  BY <1>1 DEF SendOvertaken, Release, FreeHolder
<1>4. work' \in [Task -> Statuses]
  BY <1>1, EndWorkTyped DEF SendOvertaken
<1>5. task[i].turn # runtime.turn
  BY <1>1 DEF SendOvertaken, TaskInv, Timed, At, IsCurrent
<1>6. Types'
  BY <1>1, <1>2, <1>3, <1>4, <1>5 DEF Types, Ends, Maybe
<1>7. Moves(i)
  BY <1>1, <1>2, <1>3, <1>4, <1>5 DEF Ends, Moves, At
<1>8. Owes(i)
  BY <1>1, <1>2, <1>3, <1>4, <1>5 DEF Ends, Owes, Active, HoldsLease, At, TaskInv, Staged, Settled, SendPc, WorkerPc, IInv, Continued
<1>9. TaskInv(i)'
  <2> USE <1>1, <1>2, <1>3, <1>4, <1>5 DEF Ends, TaskInv, At, SendPc, WorkerPc, FinishPc, IsCurrent, Active
  <2>1. Staged(i)'
    BY DEF Staged
  <2>2. Timed(i)'
    BY DEF Timed, Staged
  <2>3. Leased(i)' /\ Settled(i)'
    BY DEF Leased, Settled, Timed, Staged
  <2>4. HasCommitted(i)' /\ Generating(i)'
    BY DEF HasCommitted, Generating, GeneratingPc, Leased, Staged
  <2> QED BY <2>1, <2>2, <2>3, <2>4
<1> QED BY <1>6, <1>7, <1>8, <1>9, MoveKeeps

(* A send dropped where it waits keeps the invariant: its guard has given  *)
(* the lease back, and its turn counts as abandoned.                       *)
LEMMA SendDroppedKeeps == ASSUME IInv, NEW i \in Task, SendDropped(i) PROVE IInv'
<1>1. /\ Types /\ TaskInv(i) /\ task[i].pc \in {"admitted", "building", "accepted"} /\ ~At(i, "free")
      /\ task[i].turn \in Nat /\ runtime.turn \in Nat /\ i # 0
  BY TaskTyped DEF IInv, Types, SendDropped, At
<1>2. Ends(i)
  BY <1>1, GotoEnds DEF SendDropped
<1>3. /\ holder' = IF holder = i THEN 0 ELSE holder
      /\ UNCHANGED <<runtime, answer, inbox, committed, op, overrun>>
  BY DEF SendDropped, FreeHolder
<1>4. /\ lease' = lease \/ (task[i].lease = lease /\ lease' = 0)
      /\ lease' # 0 /\ task[i].lease = lease' => runtime.lease = lease'
      /\ IsCurrent(i) /\ At(i, "streaming") => lease' = lease
  BY <1>1 DEF SendDropped, DropLease, Release, At
<1>5. work' \in [Task -> Statuses]
  BY <1>1, EndWorkTyped DEF SendDropped, Types
<1>6. /\ abandoned \subseteq abandoned'
      /\ At(i, "admitted") \/ task[i].turn \in abandoned'
  BY DEF SendDropped
<1>7. runtime.loading /\ task[i].turn = runtime.turn => runtime.turn \in abandoned'
  <2>1. At(i, "admitted") => task[i].turn = 0
    BY <1>1 DEF TaskInv, Timed, At
  <2>2. runtime.loading => runtime.turn > 0
    BY DEF IInv, Cancelling
  <2> QED BY <1>1, <1>6, <2>1, <2>2
<1>8. Types'
  BY <1>1, <1>2, <1>3, <1>4, <1>5 DEF Types, Ends, Maybe
<1>9. Moves(i)
  BY <1>1, <1>2, <1>3, <1>6 DEF Ends, Moves, At
<1>10. Owes(i)
  BY <1>1, <1>2, <1>3, <1>4, <1>7 DEF Ends, Owes, Active, At, TaskInv, Staged, SendPc
<1>11. TaskInv(i)'
  <2> USE <1>1, <1>2, <1>3, <1>4 DEF Ends, TaskInv, At, SendPc, WorkerPc, FinishPc, IsCurrent, Active
  <2>1. Staged(i)'
    BY DEF Staged
  <2>2. Timed(i)'
    BY DEF Timed, Staged
  <2>3. Leased(i)' /\ Settled(i)'
    BY DEF Leased, Settled, Timed, Staged
  <2>4. HasCommitted(i)' /\ Generating(i)'
    BY DEF HasCommitted, Generating, GeneratingPc, Leased, Staged
  <2> QED BY <2>1, <2>2, <2>3, <2>4
<1> QED BY <1>8, <1>9, <1>10, <1>11, MoveKeeps

(* SendReturns keeps the invariant.                                        *)
LEMMA SendReturnsKeeps == ASSUME IInv, NEW i \in Task, SendReturns(i) PROVE IInv'
<1>1. /\ Types /\ TaskInv(i) /\ At(i, "returning") /\ ~At(i, "free")
      /\ task[i].turn \in Nat /\ runtime.turn \in Nat /\ i # 0
  BY TaskTyped DEF IInv, Types, SendReturns, At
<1>2. Ends(i)
  BY <1>1, GotoEnds DEF SendReturns
<1>3. /\ answer' = [answer EXCEPT ![i] = "failed"] /\ holder' = IF holder = i THEN 0 ELSE holder
      /\ UNCHANGED <<runtime, lease, work, inbox, committed, op, abandoned, overrun>>
  BY <1>1 DEF SendReturns, FreeHolder
<1>4. /\ answer' \in [Task -> Answers]
      /\ answer'[i] = "failed" /\ \A k \in Task : k # i => answer'[k] = answer[k]
  BY <1>1, <1>3 DEF Types, Answers
<1>5. Types'
  BY <1>1, <1>2, <1>3, <1>4 DEF Types, Ends
<1>6. Moves(i)
  BY <1>1, <1>2, <1>3, <1>4 DEF Ends, Moves, At
<1>7. Owes(i)
  BY <1>1, <1>2, <1>3, <1>4 DEF Ends, Owes, Active, HoldsLease, At, TaskInv, Staged, Settled, SendPc, WorkerPc, IInv, Continued
<1>8. TaskInv(i)'
  <2> USE <1>1, <1>2, <1>3, <1>4 DEF Ends, TaskInv, At, SendPc, WorkerPc, FinishPc, IsCurrent, Active
  <2>1. Staged(i)'
    BY DEF Staged
  <2>2. Timed(i)'
    BY DEF Timed, Staged
  <2>3. Leased(i)' /\ Settled(i)'
    BY DEF Leased, Settled, Timed, Staged
  <2>4. HasCommitted(i)' /\ Generating(i)'
    BY DEF HasCommitted, Generating, GeneratingPc, Leased, Staged
  <2> QED BY <2>1, <2>2, <2>3, <2>4
<1> QED BY <1>5, <1>6, <1>7, <1>8, MoveKeeps

(* FailTurnReceipt keeps the invariant.                                    *)
LEMMA FailTurnReceiptKeeps == ASSUME IInv, NEW i \in Task, FailTurnReceipt(i) PROVE IInv'
<1>1. /\ Types /\ TaskInv(i) /\ At(i, "fail") /\ ~At(i, "free")
      /\ task[i].turn \in Nat /\ runtime.turn \in Nat /\ i # 0
  BY TaskTyped DEF IInv, Types, FailTurnReceipt, At
<1>2. Went(i, "finish", task[i].stage, task[i].error, task[i].returned)
  <2>1. "finish" \in Pc \ {"free", "done"}
    BY DEF Pc, FinishPc
  <2> QED BY <1>1, <2>1, GotoWent DEF FailTurnReceipt
<1>3. /\ answer' \in [Task -> Answers]
      /\ \A k \in Task : \/ answer'[k] = answer[k]
                         \/ answer[k] = "pending" /\ answer'[k] = "failed"
  <2>1. Deliver(runtime.receipt, "failed")
    BY DEF FailTurnReceipt
  <2> QED BY <1>1, <2>1, DeliverTyped DEF Answers
<1>4. UNCHANGED <<runtime, lease, work, inbox, committed, holder, op, abandoned, overrun>>
  BY DEF FailTurnReceipt
<1>5. Types'
  BY <1>1, <1>2, <1>3, <1>4 DEF Types, Went
<1>6. Moves(i)
  BY <1>1, <1>2, <1>3, <1>4 DEF Went, Moves, At
<1>7. Owes(i)
  BY <1>1, <1>2, <1>3, <1>4 DEF Went, Owes, Active, HoldsLease, At, TaskInv, Staged, Settled, SendPc, WorkerPc, IInv, Continued
<1>8. TaskInv(i)'
  <2> USE <1>1, <1>2, <1>3, <1>4 DEF Went, TaskInv, At, SendPc, WorkerPc, FinishPc, IsCurrent, Active
  <2>1. Staged(i)'
    BY DEF Staged
  <2>2. Timed(i)'
    BY DEF Timed, Staged
  <2>3. Leased(i)' /\ Settled(i)'
    BY DEF Leased, Settled, Timed, Staged
  <2>4. HasCommitted(i)' /\ Generating(i)'
    BY DEF HasCommitted, Generating, GeneratingPc, Leased, Staged
  <2> QED BY <2>1, <2>2, <2>3, <2>4
<1> QED BY <1>5, <1>6, <1>7, <1>8, MoveKeeps

(* CommitAssistant keeps the invariant.                                    *)
LEMMA CommitAssistantKeeps == ASSUME IInv, NEW i \in Task, CommitAssistant(i) PROVE IInv'
<1>1. /\ Types /\ TaskInv(i) /\ At(i, "committing") /\ ~At(i, "free")
      /\ task[i].turn \in Nat /\ runtime.turn \in Nat /\ i # 0
  BY TaskTyped DEF IInv, Types, CommitAssistant, At
<1>2. UNCHANGED <<runtime, lease, answer, work, inbox, holder, op, abandoned, overrun>>
  BY DEF CommitAssistant
<1>3. CASE committed' = committed \cup {i} /\ task[i].error /\ Goto(i, "cleanup")
  <2>1. Went(i, "cleanup", task[i].stage, task[i].error, task[i].returned)
    <3>1. "cleanup" \in Pc \ {"free", "done"}
      BY DEF Pc, FinishPc
    <3> QED BY <1>1, <1>3, <3>1, GotoWent
  <2>2. Types'
    BY <1>1, <1>2, <1>3, <2>1 DEF Types, Went
  <2>3. Moves(i)
    BY <1>1, <1>2, <1>3, <2>1 DEF Went, Moves, At
  <2>4. Owes(i)
    BY <1>1, <1>2, <1>3, <2>1 DEF Went, Owes, Active, HoldsLease, At, TaskInv, Staged, Settled, SendPc, WorkerPc, IInv, Continued
  <2>5. TaskInv(i)'
    <3> USE <1>1, <1>2, <1>3, <2>1 DEF Went, TaskInv, At, SendPc, WorkerPc, FinishPc, IsCurrent, Active
    <3>1. Staged(i)'
      BY DEF Staged
    <3>2. Timed(i)'
      BY DEF Timed, Staged
    <3>3. Leased(i)' /\ Settled(i)'
      BY DEF Leased, Settled, Timed, Staged
    <3>4. HasCommitted(i)' /\ Generating(i)'
      BY DEF HasCommitted, Generating, GeneratingPc, Leased, Staged
    <3> QED BY <3>1, <3>2, <3>3, <3>4
  <2> QED BY <2>2, <2>3, <2>4, <2>5, MoveKeeps
<1>4. CASE committed' = committed \cup {i} /\ ~task[i].error /\ Goto(i, "guidance")
  <2>1. Went(i, "guidance", task[i].stage, task[i].error, task[i].returned)
    <3>1. "guidance" \in Pc \ {"free", "done"}
      BY DEF Pc, WorkerPc
    <3> QED BY <1>1, <1>4, <3>1, GotoWent
  <2>2. Types'
    BY <1>1, <1>2, <1>4, <2>1 DEF Types, Went
  <2>3. Moves(i)
    BY <1>1, <1>2, <1>4, <2>1 DEF Went, Moves, At
  <2>4. Owes(i)
    BY <1>1, <1>2, <1>4, <2>1 DEF Went, Owes, Active, HoldsLease, At, TaskInv, Staged, Settled, SendPc, WorkerPc, IInv, Continued
  <2>5. TaskInv(i)'
    <3> USE <1>1, <1>2, <1>4, <2>1 DEF Went, TaskInv, At, SendPc, WorkerPc, FinishPc, IsCurrent, Active
    <3>1. Staged(i)'
      BY DEF Staged
    <3>2. Timed(i)'
      BY DEF Timed, Staged
    <3>3. Leased(i)' /\ Settled(i)'
      BY DEF Leased, Settled, Timed, Staged
    <3>4. HasCommitted(i)' /\ Generating(i)'
      BY DEF HasCommitted, Generating, GeneratingPc, Leased, Staged
    <3> QED BY <3>1, <3>2, <3>3, <3>4
  <2> QED BY <2>2, <2>3, <2>4, <2>5, MoveKeeps
<1>5. CASE task' = [task EXCEPT ![i].pc = "cleanup", ![i].error = TRUE] /\ committed' = committed
  <2>1. Went(i, "cleanup", task[i].stage, TRUE, task[i].returned)
    <3>1. "cleanup" \in Pc \ {"free", "done"}
      BY DEF Pc, FinishPc
    <3> QED BY <1>1, <1>5, <3>1, StepWent
  <2>2. Types'
    BY <1>1, <1>2, <1>5, <2>1 DEF Types, Went
  <2>3. Moves(i)
    BY <1>1, <1>2, <1>5, <2>1 DEF Went, Moves, At
  <2>4. Owes(i)
    BY <1>1, <1>2, <1>5, <2>1 DEF Went, Owes, Active, HoldsLease, At, TaskInv, Staged, Settled, SendPc, WorkerPc, IInv, Continued
  <2>5. TaskInv(i)'
    <3> USE <1>1, <1>2, <1>5, <2>1 DEF Went, TaskInv, At, SendPc, WorkerPc, FinishPc, IsCurrent, Active
    <3>1. Staged(i)'
      BY DEF Staged
    <3>2. Timed(i)'
      BY DEF Timed, Staged
    <3>3. Leased(i)' /\ Settled(i)'
      BY DEF Leased, Settled, Timed, Staged
    <3>4. HasCommitted(i)' /\ Generating(i)'
      BY DEF HasCommitted, Generating, GeneratingPc, Leased, Staged
    <3> QED BY <3>1, <3>2, <3>3, <3>4
  <2> QED BY <2>2, <2>3, <2>4, <2>5, MoveKeeps
<1> QED BY <1>3, <1>4, <1>5 DEF CommitAssistant

(* CompleteTurnReceipt keeps the invariant.                                *)
LEMMA CompleteTurnReceiptKeeps == ASSUME IInv, NEW i \in Task, CompleteTurnReceipt(i) PROVE IInv'
<1>1. /\ Types /\ TaskInv(i) /\ At(i, "completing") /\ ~At(i, "free")
      /\ task[i].turn \in Nat /\ runtime.turn \in Nat /\ i # 0
  BY TaskTyped DEF IInv, Types, CompleteTurnReceipt, At
<1>2. Ends(i)
  BY <1>1, GotoEnds DEF CompleteTurnReceipt
<1>3. /\ answer' \in [Task -> Answers]
      /\ \A k \in Task : \/ answer'[k] = answer[k]
                         \/ k = i /\ answer[k] = "pending" /\ answer'[k] = "completed"
  <2>1. CASE Deliver(i, "completed")
    BY <1>1, <2>1, DeliverTyped DEF Answers
  <2>2. CASE UNCHANGED answer
    BY <1>1, <2>2 DEF Types
  <2> QED BY <2>1, <2>2 DEF CompleteTurnReceipt
<1>4. /\ UNCHANGED <<runtime, lease, inbox, committed, holder, op, abandoned, overrun>>
      /\ work' \in [Task -> Statuses]
  BY <1>1 DEF CompleteTurnReceipt, Types
<1>5. /\ task[i].returned /\ ~HoldsLease(i) /\ (runtime.loading => task[i].turn # runtime.turn)
      /\ i \in committed
  BY <1>1 DEF TaskInv, Staged, Settled, HasCommitted, HoldsLease, At, WorkerPc
<1> QED BY <1>1, <1>2, <1>3, <1>4, <1>5, EndKeeps

(* OwnContinuation keeps the invariant.                                    *)
LEMMA OwnContinuationKeeps == ASSUME IInv, NEW i \in Task, OwnContinuation(i) PROVE IInv'
<1>1. /\ Types /\ TaskInv(i) /\ At(i, "owning") /\ ~At(i, "free") /\ Quiet
      /\ task[i].turn \in Nat /\ runtime.turn \in Nat /\ i # 0
  BY TaskTyped DEF IInv, Types, OwnContinuation, Quiet, At
<1>2. CASE ~IsCurrent(i)
  <2>1. Ends(i)
    BY <1>1, <1>2, GotoEnds DEF OwnContinuation
  <2>2. task[i].returned /\ ~HoldsLease(i) /\ (runtime.loading => task[i].turn # runtime.turn)
    BY <1>1, <1>2 DEF TaskInv, Staged, Timed, Settled, HoldsLease, IsCurrent, At, WorkerPc, FinishPc
  <2> QED BY <1>1, <1>2, <2>1, <2>2, QuietEndKeeps
<1>3. CASE IsCurrent(i)
  <2>a. runtime.lease = task[i].lease /\ task[i].lease # 0
    BY <1>1, <1>3 DEF OwnContinuation, TaskInv, Timed, Leased, Staged, Active, IsCurrent, At, WorkerPc
  <2>1. CASE task[i].guided
    <3>1. Went(i, "spawning", task[i].stage, task[i].error, task[i].returned)
      <4>1. "spawning" \in Pc \ {"free", "done"}
        BY DEF Pc, WorkerPc
      <4>2. task[i] \in TaskRecord
        BY <1>1 DEF Types
      <4> DEFINE r == [task[i] EXCEPT !.pc = "spawning"]
      <4>3. r \in TaskRecord
        BY <1>1, <1>3, <2>a, <2>1, <4>1, <4>2 DEF TaskRecord
      <4>4. task' = [task EXCEPT ![i] = r]
        BY <1>1, <1>3, <2>a, <2>1, <4>2 DEF TaskRecord, Types, OwnContinuation
      <4>5. task' \in [Task -> TaskRecord] /\ task'[i] = r /\ \A k \in Task : k # i => task'[k] = task[k]
        BY <1>1, <4>3, <4>4 DEF Types
      <4> QED BY <4>1, <4>2, <4>5 DEF Went, TaskRecord
    <3>2. Owes(i)
      BY <1>1, <1>3, <2>a, <2>1, <3>1 DEF Quiet, Went, Owes, Active, HoldsLease, At, TaskInv, Staged, SendPc, WorkerPc
    <3>3. TaskInv(i)'
      <4> USE <1>1, <1>3, <2>a, <2>1, <3>1 DEF Quiet, Went, TaskInv, At, SendPc, WorkerPc, FinishPc, IsCurrent, Active
      <4>1. Staged(i)'
        BY DEF Staged
      <4>2. Timed(i)'
        BY DEF Timed, Staged
      <4>3. Leased(i)' /\ Settled(i)'
        BY DEF Leased, Settled, Timed, Staged
      <4>4. HasCommitted(i)' /\ Generating(i)'
        BY DEF HasCommitted, Generating, GeneratingPc, Leased, Staged
      <4> QED BY <4>1, <4>2, <4>3, <4>4
    <3> QED BY <1>1, <1>3, <2>a, <2>1, <3>1, <3>2, <3>3, StepKeeps
  <2>2. CASE ~task[i].guided
    <3>1. Went(i, "summarizing", task[i].stage, task[i].error, task[i].returned)
      <4>1. "summarizing" \in Pc \ {"free", "done"}
        BY DEF Pc, WorkerPc
      <4>2. task[i] \in TaskRecord
        BY <1>1 DEF Types
      <4> DEFINE r == [task[i] EXCEPT !.pc = "summarizing"]
      <4>3. r \in TaskRecord
        BY <1>1, <1>3, <2>a, <2>2, <4>1, <4>2 DEF TaskRecord
      <4>4. task' = [task EXCEPT ![i] = r]
        BY <1>1, <1>3, <2>a, <2>2, <4>2 DEF TaskRecord, Types, OwnContinuation
      <4>5. task' \in [Task -> TaskRecord] /\ task'[i] = r /\ \A k \in Task : k # i => task'[k] = task[k]
        BY <1>1, <4>3, <4>4 DEF Types
      <4> QED BY <4>1, <4>2, <4>5 DEF Went, TaskRecord
    <3>2. Owes(i)
      BY <1>1, <1>3, <2>a, <2>2, <3>1 DEF Quiet, Went, Owes, Active, HoldsLease, At, TaskInv, Staged, SendPc, WorkerPc
    <3>3. TaskInv(i)'
      <4> USE <1>1, <1>3, <2>a, <2>2, <3>1 DEF Quiet, Went, TaskInv, At, SendPc, WorkerPc, FinishPc, IsCurrent, Active
      <4>1. Staged(i)'
        BY DEF Staged
      <4>2. Timed(i)'
        BY DEF Timed, Staged
      <4>3. Leased(i)' /\ Settled(i)'
        BY DEF Leased, Settled, Timed, Staged
      <4>4. HasCommitted(i)' /\ Generating(i)'
        BY DEF HasCommitted, Generating, GeneratingPc, Leased, Staged
      <4> QED BY <4>1, <4>2, <4>3, <4>4
    <3> QED BY <1>1, <1>3, <2>a, <2>2, <3>1, <3>2, <3>3, StepKeeps
  <2> QED BY <2>1, <2>2
<1> QED BY <1>2, <1>3

(* ContinuationFails keeps the invariant.                                  *)
LEMMA ContinuationFailsKeeps == ASSUME IInv, NEW i \in Task, ContinuationFails(i) PROVE IInv'
<1>1. /\ Types /\ TaskInv(i) /\ task[i].pc \in {"summarizing", "spawning"} /\ ~At(i, "free")
      /\ task[i].turn \in Nat /\ runtime.turn \in Nat /\ i # 0
  BY TaskTyped DEF IInv, Types, ContinuationFails, At
<1>2. Went(i, "delivering", task[i].stage, TRUE, task[i].returned)
  <2>1. "delivering" \in Pc \ {"free", "done"}
    BY DEF Pc, WorkerPc
  <2> QED BY <1>1, <2>1, StepWent DEF ContinuationFails
<1>3. /\ lease' \in Maybe
      /\ lease' = lease \/ (task[i].lease = lease /\ lease' = 0)
      /\ lease' # 0 /\ task[i].lease = lease' => runtime.lease = lease'
  BY <1>1, DropLeaseFacts DEF ContinuationFails
<1>4. UNCHANGED <<runtime, answer, work, inbox, committed, holder, op, abandoned, overrun>>
  BY DEF ContinuationFails
<1>5. Types'
  BY <1>1, <1>2, <1>3, <1>4 DEF Types, Went
<1>6. Moves(i)
  BY <1>1, <1>2, <1>3, <1>4 DEF Went, Moves, At
<1>7. Owes(i)
  BY <1>1, <1>2, <1>3, <1>4 DEF Went, Owes, Active, HoldsLease, At, TaskInv, Staged, Settled, SendPc, WorkerPc, IInv, Continued
<1>8. TaskInv(i)'
  <2> USE <1>1, <1>2, <1>3, <1>4 DEF Went, TaskInv, At, SendPc, WorkerPc, FinishPc, IsCurrent, Active
  <2>1. Staged(i)'
    BY DEF Staged
  <2>2. Timed(i)'
    BY DEF Timed, Staged
  <2>3. Leased(i)' /\ Settled(i)'
    BY DEF Leased, Settled, Timed, Staged
  <2>4. HasCommitted(i)' /\ Generating(i)'
    BY DEF HasCommitted, Generating, GeneratingPc, Leased, Staged
  <2> QED BY <2>1, <2>2, <2>3, <2>4
<1> QED BY <1>5, <1>6, <1>7, <1>8, MoveKeeps

(* DrainGuidance keeps the invariant.                                      *)
LEMMA DrainGuidanceKeeps == ASSUME IInv, NEW i \in Task, DrainGuidance(i) PROVE IInv'
<1>1. /\ Types /\ TaskInv(i) /\ At(i, "draining") /\ ~At(i, "free")
      /\ task[i].turn \in Nat /\ runtime.turn \in Nat /\ i # 0
  BY TaskTyped DEF IInv, Types, DrainGuidance, At
<1>2. /\ lease' \in Maybe
      /\ lease' = lease \/ (task[i].lease = lease /\ lease' = 0)
      /\ lease' # 0 /\ task[i].lease = lease' => runtime.lease = lease'
  BY <1>1, DropLeaseFacts DEF DrainGuidance
<1>3. inbox' \in [Task -> [accepting : BOOLEAN, pending : Nat]]
  <2>1. inbox \in [Task -> [accepting : BOOLEAN, pending : Nat]]
    BY <1>1 DEF Types
  <2>2. CASE inbox' = [inbox EXCEPT ![task[i].inbox].accepting = FALSE]
    BY <2>1, <2>2
  <2>3. CASE inbox' = [inbox EXCEPT ![task[i].inbox].pending = 0]
    BY <2>1, <2>3
  <2> QED BY <2>2, <2>3 DEF DrainGuidance
<1>4. UNCHANGED <<runtime, answer, work, committed, holder, op, abandoned, overrun>>
  BY DEF DrainGuidance
<1>5. CASE inbox[task[i].inbox].pending = 0
  <2>1. Went(i, "decide", task[i].stage, task[i].error, task[i].returned)
    <3>1. "decide" \in Pc \ {"free", "done"}
      BY DEF Pc, WorkerPc
    <3> QED BY <1>1, <1>5, <3>1, GotoWent DEF DrainGuidance
  <2>2. Types'
    BY <1>1, <1>2, <1>3, <1>4, <2>1 DEF Types, Went
  <2>3. Moves(i)
    BY <1>1, <1>2, <1>3, <1>4, <2>1 DEF Went, Moves, At
  <2>4. Owes(i)
    BY <1>1, <1>2, <1>3, <1>4, <2>1 DEF Went, Owes, Active, HoldsLease, At, TaskInv, Staged, Settled, SendPc, WorkerPc, IInv, Continued
  <2>5. TaskInv(i)'
    <3> USE <1>1, <1>2, <1>3, <1>4, <2>1 DEF Went, TaskInv, At, SendPc, WorkerPc, FinishPc, IsCurrent, Active
    <3>1. Staged(i)'
      BY DEF Staged
    <3>2. Timed(i)'
      BY DEF Timed, Staged
    <3>3. Leased(i)' /\ Settled(i)'
      BY DEF Leased, Settled, Timed, Staged
    <3>4. HasCommitted(i)' /\ Generating(i)'
      BY DEF HasCommitted, Generating, GeneratingPc, Leased, Staged
    <3> QED BY <3>1, <3>2, <3>3, <3>4
  <2> QED BY <2>2, <2>3, <2>4, <2>5, MoveKeeps
<1>6. CASE inbox[task[i].inbox].pending # 0
  <2>0. PICK failed \in BOOLEAN : task' = [task EXCEPT ![i].pc = IF failed THEN "cleanup" ELSE "decide",
                                                     ![i].error = failed, ![i].guided = ~failed]
    BY <1>6 DEF DrainGuidance
  <2>1. CASE failed
    <3>1. Went(i, "cleanup", task[i].stage, TRUE, task[i].returned)
      <4>1. "cleanup" \in Pc \ {"free", "done"}
        BY DEF Pc, FinishPc
      <4>2. task[i] \in TaskRecord
        BY <1>1 DEF Types
      <4> DEFINE r == [task[i] EXCEPT !.pc = "cleanup", !.error = TRUE, !.guided = FALSE]
      <4>3. r \in TaskRecord
        BY <1>1, <2>0, <2>1, <4>1, <4>2 DEF TaskRecord
      <4>4. task' = [task EXCEPT ![i] = r]
        BY <1>1, <2>0, <2>1, <4>2 DEF Types
      <4>5. task' \in [Task -> TaskRecord] /\ task'[i] = r /\ \A k \in Task : k # i => task'[k] = task[k]
        BY <1>1, <4>3, <4>4 DEF Types
      <4> QED BY <4>1, <4>2, <4>5 DEF Went, TaskRecord
    <3>2. Types'
      BY <1>1, <1>2, <1>3, <1>4, <3>1 DEF Types, Went
    <3>3. Moves(i)
      BY <1>1, <1>2, <1>3, <1>4, <3>1 DEF Went, Moves, At
    <3>4. Owes(i)
      BY <1>1, <1>2, <1>3, <1>4, <3>1 DEF Went, Owes, Active, HoldsLease, At, TaskInv, Staged, Settled, SendPc, WorkerPc, IInv, Continued
    <3>5. TaskInv(i)'
      <4> USE <1>1, <1>2, <1>3, <1>4, <3>1 DEF Went, TaskInv, At, SendPc, WorkerPc, FinishPc, IsCurrent, Active
      <4>1. Staged(i)'
        BY DEF Staged
      <4>2. Timed(i)'
        BY DEF Timed, Staged
      <4>3. Leased(i)' /\ Settled(i)'
        BY DEF Leased, Settled, Timed, Staged
      <4>4. HasCommitted(i)' /\ Generating(i)'
        BY DEF HasCommitted, Generating, GeneratingPc, Leased, Staged
      <4> QED BY <4>1, <4>2, <4>3, <4>4
    <3> QED BY <3>2, <3>3, <3>4, <3>5, MoveKeeps
  <2>2. CASE ~failed
    <3>1. Went(i, "decide", task[i].stage, FALSE, task[i].returned)
      <4>1. "decide" \in Pc \ {"free", "done"}
        BY DEF Pc, WorkerPc
      <4>2. task[i] \in TaskRecord
        BY <1>1 DEF Types
      <4> DEFINE r == [task[i] EXCEPT !.pc = "decide", !.error = FALSE, !.guided = TRUE]
      <4>3. r \in TaskRecord
        BY <1>1, <2>0, <2>2, <4>1, <4>2 DEF TaskRecord
      <4>4. task' = [task EXCEPT ![i] = r]
        BY <1>1, <2>0, <2>2, <4>2 DEF Types
      <4>5. task' \in [Task -> TaskRecord] /\ task'[i] = r /\ \A k \in Task : k # i => task'[k] = task[k]
        BY <1>1, <4>3, <4>4 DEF Types
      <4> QED BY <4>1, <4>2, <4>5 DEF Went, TaskRecord
    <3>2. Types'
      BY <1>1, <1>2, <1>3, <1>4, <3>1 DEF Types, Went
    <3>3. Moves(i)
      BY <1>1, <1>2, <1>3, <1>4, <3>1 DEF Went, Moves, At
    <3>4. Owes(i)
      BY <1>1, <1>2, <1>3, <1>4, <3>1 DEF Went, Owes, Active, HoldsLease, At, TaskInv, Staged, Settled, SendPc, WorkerPc, IInv, Continued
    <3>5. TaskInv(i)'
      <4> USE <1>1, <1>2, <1>3, <1>4, <3>1 DEF Went, TaskInv, At, SendPc, WorkerPc, FinishPc, IsCurrent, Active
      <4>1. Staged(i)'
        BY DEF Staged
      <4>2. Timed(i)'
        BY DEF Timed, Staged
      <4>3. Leased(i)' /\ Settled(i)'
        BY DEF Leased, Settled, Timed, Staged
      <4>4. HasCommitted(i)' /\ Generating(i)'
        BY DEF HasCommitted, Generating, GeneratingPc, Leased, Staged
      <4> QED BY <4>1, <4>2, <4>3, <4>4
    <3> QED BY <3>2, <3>3, <3>4, <3>5, MoveKeeps
  <2> QED BY <2>1, <2>2
<1> QED BY <1>5, <1>6

(* ContinuationEnds keeps the invariant.                                   *)
LEMMA ContinuationEndsKeeps == ASSUME IInv, NEW i \in Task, ContinuationEnds(i) PROVE IInv'
<1>1. /\ Types /\ TaskInv(i) /\ At(i, "waiting") /\ ~At(i, "free") /\ Quiet
      /\ task[i].turn \in Nat /\ runtime.turn \in Nat /\ i # 0
  BY TaskTyped DEF IInv, Types, ContinuationEnds, Quiet, At
<1>2. PICK j \in Task : /\ task[j].origin = i /\ answer[j] \notin {"none", "pending"}
                        /\ task' = [task EXCEPT ![i].pc = "delivering",
                                                ![i].error = answer[j] \in {"failed", "closed"}]
  BY DEF ContinuationEnds
<1>3. answer[j] \notin {"failed", "closed"} => task[i].turn < runtime.turn
  <2>1. TaskInv(j) /\ task[j].turn \in Nat
    BY <1>1, TaskTyped DEF IInv
  <2>2. task[j].turn # 0 => task[j].turn > task[i].turn
    BY <1>1, <1>2 DEF IInv, Continued
  <2> QED BY <1>1, <1>2, <2>1, <2>2 DEF TaskInv, Timed
<1>4. CASE answer[j] \in {"failed", "closed"}
  <2>0. task' = [task EXCEPT ![i].pc = "delivering", ![i].error = TRUE]
    <3>1. (answer[j] \in {"failed", "closed"}) = TRUE
      BY <1>4
    <3> QED BY <1>2, <3>1
  <2>1. Went(i, "delivering", task[i].stage, TRUE, task[i].returned)
    <3>1. "delivering" \in Pc \ {"free", "done"}
      BY DEF Pc, WorkerPc
    <3> QED BY <1>1, <1>2, <1>3, <1>4, <2>0, <3>1, StepWent
  <2>2. Owes(i)
    BY <1>1, <1>2, <1>3, <1>4, <2>0, <2>1 DEF Quiet, Went, Owes, Active, HoldsLease, At, TaskInv, Staged, SendPc, WorkerPc, IInv, Continued
  <2>3. TaskInv(i)'
    <3> USE <1>1, <1>2, <1>3, <1>4, <2>0, <2>1 DEF Quiet, Went, TaskInv, At, SendPc, WorkerPc, FinishPc, IsCurrent, Active
    <3>1. Staged(i)'
      BY DEF Staged
    <3>2. Timed(i)'
      BY DEF Timed, Staged
    <3>3. Leased(i)' /\ Settled(i)'
      BY DEF Leased, Settled, Timed, Staged
    <3>4. HasCommitted(i)' /\ Generating(i)'
      BY DEF HasCommitted, Generating, GeneratingPc, Leased, Staged
    <3> QED BY <3>1, <3>2, <3>3, <3>4
  <2> QED BY <1>1, <1>2, <1>3, <1>4, <2>0, <2>1, <2>2, <2>3, StepKeeps
<1>5. CASE answer[j] \notin {"failed", "closed"}
  <2>0. task' = [task EXCEPT ![i].pc = "delivering", ![i].error = FALSE]
    <3>1. (answer[j] \in {"failed", "closed"}) = FALSE
      BY <1>5
    <3> QED BY <1>2, <3>1
  <2>1. Went(i, "delivering", task[i].stage, FALSE, task[i].returned)
    <3>1. "delivering" \in Pc \ {"free", "done"}
      BY DEF Pc, WorkerPc
    <3> QED BY <1>1, <1>2, <1>3, <1>5, <2>0, <3>1, StepWent
  <2>2. Owes(i)
    BY <1>1, <1>2, <1>3, <1>5, <2>0, <2>1 DEF Quiet, Went, Owes, Active, HoldsLease, At, TaskInv, Staged, SendPc, WorkerPc, IInv, Continued
  <2>3. TaskInv(i)'
    <3> USE <1>1, <1>2, <1>3, <1>5, <2>0, <2>1 DEF Quiet, Went, TaskInv, At, SendPc, WorkerPc, FinishPc, IsCurrent, Active
    <3>1. Staged(i)'
      BY DEF Staged
    <3>2. Timed(i)'
      BY DEF Timed, Staged
    <3>3. Leased(i)' /\ Settled(i)'
      BY DEF Leased, Settled, Timed, Staged
    <3>4. HasCommitted(i)' /\ Generating(i)'
      BY DEF HasCommitted, Generating, GeneratingPc, Leased, Staged
    <3> QED BY <3>1, <3>2, <3>3, <3>4
  <2> QED BY <1>1, <1>2, <1>3, <1>5, <2>0, <2>1, <2>2, <2>3, StepKeeps
<1> QED BY <1>4, <1>5

(* DeliverContinuation keeps the invariant.                                *)
LEMMA DeliverContinuationKeeps == ASSUME IInv, NEW i \in Task, DeliverContinuation(i) PROVE IInv'
<1>1. /\ Types /\ TaskInv(i) /\ At(i, "delivering") /\ ~At(i, "free") /\ Quiet
      /\ task[i].turn \in Nat /\ runtime.turn \in Nat /\ i # 0
  BY TaskTyped DEF IInv, Types, DeliverContinuation, Quiet, At
<1>2. CASE runtime.turn # task[i].turn /\ runtime.receipt = i
  <2>1. Ends(i)
    BY <1>1, <1>2, GotoEnds DEF DeliverContinuation
  <2>2. task[i].returned /\ ~HoldsLease(i) /\ (runtime.loading => task[i].turn # runtime.turn)
    BY <1>1, <1>2 DEF TaskInv, Staged, Timed, Settled, HoldsLease, IsCurrent, At, WorkerPc, FinishPc
  <2> QED BY <1>1, <1>2, <2>1, <2>2, QuietEndKeeps
<1>3. CASE ~(runtime.turn # task[i].turn /\ runtime.receipt = i)
  <2>1. CASE task[i].error /\ IsCurrent(i)
    <3>1. Went(i, "cleanup", "deliver", task[i].error, task[i].returned)
      <4>1. "cleanup" \in Pc \ {"free", "done"}
        BY DEF Pc, FinishPc
      <4>2. task[i] \in TaskRecord
        BY <1>1 DEF Types
      <4> DEFINE r == [task[i] EXCEPT !.pc = "cleanup", !.stage = "deliver"]
      <4>3. r \in TaskRecord
        BY <1>1, <1>3, <2>1, <4>1, <4>2 DEF TaskRecord
      <4>4. task' = [task EXCEPT ![i] = r]
        BY <1>1, <1>3, <2>1, <4>2 DEF Types, DeliverContinuation
      <4>5. task' \in [Task -> TaskRecord] /\ task'[i] = r /\ \A k \in Task : k # i => task'[k] = task[k]
        BY <1>1, <4>3, <4>4 DEF Types
      <4> QED BY <4>1, <4>2, <4>5 DEF Went, TaskRecord
    <3>2. Owes(i)
      BY <1>1, <1>3, <2>1, <3>1 DEF Quiet, Went, Owes, Active, HoldsLease, At, TaskInv, Staged, SendPc, WorkerPc, IInv, Continued
    <3>3. TaskInv(i)'
      <4> USE <1>1, <1>3, <2>1, <3>1 DEF Quiet, Went, TaskInv, At, SendPc, WorkerPc, FinishPc, IsCurrent, Active
      <4>1. Staged(i)'
        BY DEF Staged
      <4>2. Timed(i)'
        BY DEF Timed, Staged
      <4>3. Leased(i)' /\ Settled(i)'
        BY DEF Leased, Settled, Timed, Staged
      <4>4. HasCommitted(i)' /\ Generating(i)'
        BY DEF HasCommitted, Generating, GeneratingPc, Leased, Staged
      <4> QED BY <4>1, <4>2, <4>3, <4>4
    <3> QED BY <1>1, <1>3, <2>1, <3>1, <3>2, <3>3, StepKeeps
  <2>2. CASE ~(task[i].error /\ IsCurrent(i))
    <3>1. Went(i, "answering", "deliver", task[i].error, task[i].returned)
      <4>1. "answering" \in Pc \ {"free", "done"}
        BY DEF Pc
      <4>2. task[i] \in TaskRecord
        BY <1>1 DEF Types
      <4> DEFINE r == [task[i] EXCEPT !.pc = "answering", !.stage = "deliver"]
      <4>3. r \in TaskRecord
        BY <1>1, <1>3, <2>2, <4>1, <4>2 DEF TaskRecord
      <4>4. task' = [task EXCEPT ![i] = r]
        BY <1>1, <1>3, <2>2, <4>2 DEF Types, DeliverContinuation
      <4>5. task' \in [Task -> TaskRecord] /\ task'[i] = r /\ \A k \in Task : k # i => task'[k] = task[k]
        BY <1>1, <4>3, <4>4 DEF Types
      <4> QED BY <4>1, <4>2, <4>5 DEF Went, TaskRecord
    <3>2. Owes(i)
      BY <1>1, <1>3, <2>2, <3>1 DEF Quiet, Went, Owes, Active, HoldsLease, At, TaskInv, Staged, SendPc, WorkerPc, IInv, Continued
    <3>3. TaskInv(i)'
      <4> USE <1>1, <1>3, <2>2, <3>1 DEF Quiet, Went, TaskInv, At, SendPc, WorkerPc, FinishPc, IsCurrent, Active
      <4>1. Staged(i)'
        BY DEF Staged
      <4>2. Timed(i)'
        BY DEF Timed, Staged
      <4>3. Leased(i)' /\ Settled(i)'
        BY DEF Leased, Settled, Timed, Staged
      <4>4. HasCommitted(i)' /\ Generating(i)'
        BY DEF HasCommitted, Generating, GeneratingPc, Leased, Staged
      <4> QED BY <4>1, <4>2, <4>3, <4>4
    <3> QED BY <1>1, <1>3, <2>2, <3>1, <3>2, <3>3, StepKeeps
  <2> QED BY <2>1, <2>2
<1> QED BY <1>2, <1>3

(* AnswerOrigin keeps the invariant.                                       *)
LEMMA AnswerOriginKeeps == ASSUME IInv, NEW i \in Task, AnswerOrigin(i) PROVE IInv'
<1>1. /\ Types /\ TaskInv(i) /\ At(i, "answering") /\ ~At(i, "free")
      /\ task[i].turn \in Nat /\ runtime.turn \in Nat /\ i # 0
  BY TaskTyped DEF IInv, Types, AnswerOrigin, At
<1>2. Ends(i)
  BY <1>1, GotoEnds DEF AnswerOrigin
<1>3. PICK result \in Answers : Deliver(i, result)
  <2>1. CASE task[i].error
    BY <2>1 DEF AnswerOrigin, Answers
  <2>2. CASE ~task[i].error
    <3>1. \E j \in Task : task[j].origin = i
      BY <1>1, <2>2 DEF IInv, Continued, TaskInv, Staged, At
    <3>2. (CHOOSE j \in Task : task[j].origin = i) \in Task
      BY <3>1
    <3> QED BY <1>1, <2>2, <3>2 DEF AnswerOrigin, Types
  <2> QED BY <2>1, <2>2
<1>4. /\ answer' \in [Task -> Answers]
      /\ \A k \in Task : \/ answer'[k] = answer[k]
                         \/ k = i /\ answer[k] = "pending"
  BY <1>1, <1>3, DeliverTyped
<1>5. /\ UNCHANGED <<runtime, lease, inbox, committed, holder, op, abandoned, overrun>>
      /\ work' \in [Task -> Statuses]
  BY <1>1 DEF AnswerOrigin, Types
<1>6. /\ task[i].returned /\ ~HoldsLease(i) /\ (runtime.loading => task[i].turn # runtime.turn)
      /\ i \in committed
  BY <1>1 DEF TaskInv, Staged, Settled, HasCommitted, HoldsLease, At, WorkerPc
<1> QED BY <1>1, <1>2, <1>4, <1>5, <1>6, EndKeeps

-----------------------------------------------------------------------------
(* The steps that end a turn in the runtime                                *)

(* The task or the cancellation of turn t takes the lease out of the       *)
(* runtime, and releases it.                                               *)
EndsTurn(t) ==
    /\ runtime'.turn = runtime.turn /\ runtime'.lease = 0
    /\ runtime'.cancelling => runtime.cancelling
    /\ runtime'.loading => runtime.loading /\ t = runtime.turn
    /\ lease' = IF lease = runtime.lease THEN 0 ELSE lease
    /\ ~overrun' => ~overrun /\ (runtime.loading => t = runtime.turn)

(* It does nothing to a task with another turn.                            *)
LEMMA EndsTurnOfNoOther ==
    ASSUME IInv, NEW t \in Nat, EndsTurn(t), NEW k \in Task, task'[k] = task[k],
           task[k].turn = t => t = 0,
           UNCHANGED <<answer, committed, holder>>
    PROVE  TaskInv(k)'
<1>1. /\ TaskInv(k) /\ task[k].turn \in Nat /\ runtime.turn \in Nat
      /\ runtime.loading => runtime.turn > 0
  BY TaskTyped DEF IInv, Cancelling
<1>2. IsCurrent(k)' => IsCurrent(k)
  BY <1>1 DEF TaskInv, Timed, IsCurrent, EndsTurn
<1>3. Staged(k)' /\ HasCommitted(k)'
  BY <1>1 DEF TaskInv, Staged, HasCommitted, At
<1>4. Timed(k)'
  BY <1>1 DEF TaskInv, Timed, At, EndsTurn
<1>5. Leased(k)'
  BY <1>1, <1>2 DEF TaskInv, Leased, EndsTurn, SendPc
<1>6. Settled(k)'
  BY <1>1 DEF TaskInv, Settled, EndsTurn
<1>7. Generating(k)'
  <2> SUFFICES ASSUME ~overrun', IsCurrent(k)', task'[k].pc \in GeneratingPc PROVE FALSE
    BY DEF Generating
  <2>1. runtime.loading /\ task[k].turn = runtime.turn
    BY <1>1, <1>2 DEF TaskInv, Generating, EndsTurn, IsCurrent
  <2> QED BY <1>1, <2>1 DEF EndsTurn
<1> QED BY <1>3, <1>4, <1>5, <1>6, <1>7 DEF TaskInv

(* A task ends its turn, or the turn that is current.                      *)
LEMMA TaskEndsTurn ==
    ASSUME IInv, NEW i \in Task, Types', EndsTurn(task[i].turn),
           NEW there, NEW stage, NEW failed,
           Went(i, there, stage, failed, task[i].returned), ~At(i, "free"),
           UNCHANGED <<answer, committed, holder, op>>, runtime'.cancelling = runtime.cancelling,
           Active(i)' => Active(i), HoldsLease(i) => HoldsLease(i)',
           (there = "delivering" \/ stage = "deliver") /\ ~failed => \E j \in Task : task[j].origin = i,
           TaskInv(i)'
    PROVE  IInv'
<1> USE DEF IInv
<1>0. \A k \in Task : /\ task[k].turn \in Nat /\ task'[k].turn = task[k].turn
                      /\ task'[k].origin = task[k].origin /\ task'[k].lease = task[k].lease
                      /\ task'[k].pc = "free" => task[k].pc = "free"
                      /\ Active(k)' => Active(k) 
                      /\ HoldsLease(k) => HoldsLease(k)'
  BY TaskTyped DEF Went, Active, HoldsLease
<1>1. ASSUME NEW k \in Task PROVE TaskInv(k)'
  <2>1. CASE k = i
    BY <2>1
  <2>2. CASE k # i
    <3>1. task[k].turn = task[i].turn => task[i].turn = 0
      BY <2>2 DEF Distinct
    <3>2. task'[k] = task[k]
      BY <2>2 DEF Went
    <3> QED BY <1>0, <3>1, <3>2, EndsTurnOfNoOther
  <2> QED BY <2>1, <2>2
<1>2. Distinct'
  BY <1>0 DEF Distinct
<1>3. Continued'
  <2>1. ASSUME NEW k \in Task, At(k, "delivering")' \/ task'[k].stage = "deliver", ~task'[k].error
        PROVE  \E j \in Task : task[j].origin = k
    BY <2>1 DEF Went, Continued, At
  <2>2. \A k \in Task : task[k].origin \in Maybe
    BY DEF Types, TaskRecord
  <2> QED BY <1>0, <2>1, <2>2 DEF Continued, Maybe
<1>4. Cancelling'
  BY <1>0 DEF Cancelling, EndsTurn
<1>5. Acquired'
  <2>1. lease \in Maybe /\ \A k \in Task : task[k].lease \in Maybe
    BY DEF Types, TaskRecord
  <2>2. lease' = lease \/ lease' = 0
    BY DEF EndsTurn
  <2> QED BY <1>0, <2>1, <2>2 DEF Acquired, EndsTurn, At, Maybe
<1>6. LeaseHasOwner'
  BY <1>0 DEF LeaseHasOwner, EndsTurn
<1>7. LoadingHasOwner'
  <2>1. runtime'.loading => task'[i].turn = runtime'.turn /\ task'[i].pc \notin Ended
    BY <1>0 DEF EndsTurn, Went, Ended
  <2> QED BY <2>1 DEF LoadingHasOwner
<1> QED BY <1>1, <1>2, <1>3, <1>4, <1>5, <1>6, <1>7

(* A cancellation ends its turn, or the turn that is current.              *)
LEMMA CancellationEndsTurn ==
    ASSUME IInv, NEW c \in Canceller, Types', EndsTurn(op[c].mine), op[c].mine # 0,
           UNCHANGED <<task, answer, committed, holder>>, ~runtime'.loading,
           op'[c].pc \notin {"free", "aborting"}, op'[c].mine = op[c].mine, op[c].pc # "free",
           \A d \in Canceller : d # c => op'[d] = op[d],
           runtime'.cancelling = runtime.cancelling \/ (op[c].pc = "aborting" /\ op[c].mine = runtime.turn)
    PROVE  IInv'
<1> USE DEF IInv
<1>1. ASSUME NEW k \in Task PROVE TaskInv(k)'
  <2>1. op[c].mine \in Nat
    BY DEF Types, OpRecord
  <2>2. task[k].turn # op[c].mine
    BY DEF Cancelling
  <2> QED BY <2>1, <2>2, EndsTurnOfNoOther
<1>2. Distinct' /\ Continued'
  BY DEF Distinct, Continued, Active, At
<1>3. Cancelling'
  <2>1. \A d \in Canceller : op'[d].mine = op[d].mine /\ (op'[d].pc = "free" <=> op[d].pc = "free")
    BY DEF Canceller
  <2>2. ASSUME NEW d \in Canceller, op'[d].pc = "aborting", op'[d].mine = runtime'.turn
        PROVE  runtime'.cancelling
    <3>1. d # c /\ op[d].pc = "aborting" /\ op[d].mine = runtime.turn
      BY <2>1, <2>2 DEF EndsTurn
    <3>2. op[c].mine # runtime.turn
      BY <3>1 DEF Cancelling
    <3> QED BY <3>1, <3>2 DEF Cancelling
  <2>3. /\ holder' = User <=> op'["user"].pc # "free"
        /\ runtime'.loading \/ runtime'.cancelling => runtime'.turn > 0
    BY <2>1 DEF Cancelling, EndsTurn, Canceller
  <2>4. ASSUME NEW d \in Canceller
        PROVE  /\ op'[d].mine <= runtime'.turn
               /\ \A i \in Task : op'[d].mine # 0 => task'[i].turn # op'[d].mine
               /\ op'[d].pc \in {"aborting", "finish"} => op'[d].mine # 0
               /\ \A e \in Canceller : op'[d].mine = op'[e].mine /\ op'[d].mine # 0 => d = e
    BY <2>1 DEF Cancelling, EndsTurn
  <2> QED BY <2>2, <2>3, <2>4 DEF Cancelling
<1>4. Acquired'
  BY DEF Acquired, EndsTurn, At
<1>5. LeaseHasOwner' /\ LoadingHasOwner'
  BY DEF LeaseHasOwner, LoadingHasOwner, EndsTurn, HoldsLease
<1> QED BY <1>1, <1>2, <1>3, <1>4, <1>5

(* What FinishRuntime, and the end of a turn like it, make of the runtime. *)
LEMMA FinishRuntimeEndsTurn ==
    ASSUME Types, NEW t, FinishRuntime(t)
    PROVE  /\ EndsTurn(t) /\ ~runtime'.loading /\ runtime'.cancelling = runtime.cancelling
           /\ runtime' \in [turn : Nat, cancelling : BOOLEAN, loading : BOOLEAN,
                            lease : Maybe, receipt : Maybe, work : Maybe, inbox : Maybe]
           /\ lease' \in Maybe
           /\ inbox' \in [Task -> [accepting : BOOLEAN, pending : Nat]]
           /\ overrun' \in BOOLEAN
<1>1. /\ runtime' = [runtime EXCEPT !.lease = 0, !.loading = FALSE]
      /\ lease' = IF lease = runtime.lease THEN 0 ELSE lease
      /\ overrun' = (overrun \/ (runtime.loading /\ runtime.turn # t))
  BY DEF FinishRuntime, Release
<1>2. /\ runtime' \in [turn : Nat, cancelling : BOOLEAN, loading : BOOLEAN,
                       lease : Maybe, receipt : Maybe, work : Maybe, inbox : Maybe]
      /\ runtime'.turn = runtime.turn /\ runtime'.lease = 0 /\ runtime'.loading = FALSE
      /\ runtime'.cancelling = runtime.cancelling
  BY <1>1 DEF Types, Maybe
<1>3. overrun' \in BOOLEAN /\ (~overrun' => ~overrun /\ (runtime.loading => t = runtime.turn))
  BY <1>1, Zenon
<1>4. inbox' \in [Task -> [accepting : BOOLEAN, pending : Nat]]
  BY DEF Types, FinishRuntime, CloseInbox
<1>5. lease' \in Maybe
  BY <1>1 DEF Types, Maybe
<1> QED BY <1>1, <1>2, <1>3, <1>4, <1>5 DEF EndsTurn

(* FinishChatExecution keeps the invariant.                                *)
LEMMA FinishChatExecutionKeeps == ASSUME IInv, NEW i \in Task, FinishChatExecution(i) PROVE IInv'
<1>1. /\ Types /\ TaskInv(i) /\ At(i, "finish") /\ ~At(i, "free")
      /\ task[i].turn \in Nat /\ runtime.turn \in Nat /\ i # 0
  BY TaskTyped DEF IInv, Types, FinishChatExecution, At
<1>2. Went(i, "publish", task[i].stage, task[i].error, task[i].returned)
  <2>1. "publish" \in Pc \ {"free", "done"}
    BY DEF Pc, FinishPc
  <2> QED BY <1>1, <2>1, GotoWent DEF FinishChatExecution
<1>3. /\ EndsTurn(task[i].turn) /\ ~runtime'.loading /\ runtime'.cancelling = runtime.cancelling
      /\ runtime' \in [turn : Nat, cancelling : BOOLEAN, loading : BOOLEAN,
                       lease : Maybe, receipt : Maybe, work : Maybe, inbox : Maybe]
      /\ lease' \in Maybe
      /\ inbox' \in [Task -> [accepting : BOOLEAN, pending : Nat]]
      /\ overrun' \in BOOLEAN
  BY <1>1, FinishRuntimeEndsTurn DEF FinishChatExecution
<1>4. UNCHANGED <<answer, work, committed, holder, op>>
  BY DEF FinishChatExecution
<1>5. Types'
  BY <1>1, <1>2, <1>3, <1>4 DEF Types, Went
<1>6. (Active(i)' => Active(i)) /\ (HoldsLease(i) => HoldsLease(i)')
  BY <1>1, <1>2, <1>3, <1>4 DEF Went, Active, HoldsLease, At
<1>7. ("publish" = "delivering" \/ task[i].stage = "deliver") /\ ~task[i].error =>
          \E j \in Task : task[j].origin = i
  BY DEF IInv, Continued
<1>8. TaskInv(i)'
  <2> USE <1>1, <1>2, <1>3, <1>4 DEF EndsTurn, Went, TaskInv, At, SendPc, WorkerPc, FinishPc, IsCurrent, Active
  <2>1. Staged(i)'
    BY DEF Staged
  <2>2. Timed(i)'
    BY DEF Timed, Staged
  <2>3. Leased(i)' /\ Settled(i)'
    BY DEF Leased, Settled, Timed, Staged
  <2>4. HasCommitted(i)' /\ Generating(i)'
    BY DEF HasCommitted, Generating, GeneratingPc, Leased, Staged
  <2> QED BY <2>1, <2>2, <2>3, <2>4
<1> QED BY <1>1, <1>2, <1>3, <1>4, <1>5, <1>6, <1>7, <1>8, TaskEndsTurn

(* CleanupRuntimeAfterTurn keeps the invariant.                            *)
LEMMA CleanupRuntimeAfterTurnKeeps == ASSUME IInv, NEW i \in Task, CleanupRuntimeAfterTurn(i) PROVE IInv'
<1>1. /\ Types /\ TaskInv(i) /\ At(i, "cleanup") /\ ~At(i, "free")
      /\ task[i].turn \in Nat /\ runtime.turn \in Nat /\ i # 0
  BY TaskTyped DEF IInv, Types, CleanupRuntimeAfterTurn, At
<1>2. Went(i, "check", task[i].stage, task[i].error, task[i].returned)
  <2>1. "check" \in Pc \ {"free", "done"}
    BY DEF Pc, FinishPc
  <2> QED BY <1>1, <2>1, GotoWent DEF CleanupRuntimeAfterTurn
<1>3. UNCHANGED <<answer, work, committed, holder, op, abandoned, overrun>>
  BY DEF CleanupRuntimeAfterTurn
<1>4. CASE ~IsCurrent(i)
  <2>1. Quiet
    BY <1>1, <1>3, <1>4 DEF CleanupRuntimeAfterTurn, Quiet, Types
  <2>2. Owes(i)
    BY <1>1, <1>2, <2>1 DEF Quiet, Went, Owes, Active, HoldsLease, At, TaskInv, Staged, SendPc, WorkerPc, IInv, Continued
  <2>3. TaskInv(i)'
    <3> USE <1>1, <1>2, <2>1 DEF Quiet, Went, TaskInv, At, SendPc, WorkerPc, FinishPc, IsCurrent, Active
    <3>1. Staged(i)'
      BY DEF Staged
    <3>2. Timed(i)'
      BY DEF Timed, Staged
    <3>3. Leased(i)' /\ Settled(i)'
      BY DEF Leased, Settled, Timed, Staged
    <3>4. HasCommitted(i)' /\ Generating(i)'
      BY DEF HasCommitted, Generating, GeneratingPc, Leased, Staged
    <3> QED BY <3>1, <3>2, <3>3, <3>4
  <2> QED BY <1>1, <1>2, <2>1, <2>2, <2>3, StepKeeps
<1>5. CASE IsCurrent(i)
  <2>1. /\ runtime' = [runtime EXCEPT !.lease = 0, !.loading = FALSE]
        /\ lease' = IF lease = runtime.lease THEN 0 ELSE lease
        /\ CloseInbox(runtime.inbox)
    BY <1>5 DEF CleanupRuntimeAfterTurn, Release
  <2>2. /\ runtime' \in [turn : Nat, cancelling : BOOLEAN, loading : BOOLEAN,
                         lease : Maybe, receipt : Maybe, work : Maybe, inbox : Maybe]
        /\ runtime'.turn = runtime.turn /\ runtime'.lease = 0 /\ runtime'.loading = FALSE
        /\ runtime'.cancelling = runtime.cancelling
    BY <1>1, <2>1 DEF Types, Maybe
  <2>3. inbox' \in [Task -> [accepting : BOOLEAN, pending : Nat]] /\ lease' \in Maybe
    BY <1>1, <2>1 DEF Types, CloseInbox, Maybe
  <2>4. EndsTurn(task[i].turn)
    BY <1>3, <1>5, <2>1, <2>2 DEF EndsTurn, IsCurrent
  <2>5. Types'
    BY <1>1, <1>2, <1>3, <2>2, <2>3, <2>4 DEF Types, Went
  <2>6. (Active(i)' => Active(i)) /\ (HoldsLease(i) => HoldsLease(i)')
    BY <1>1, <1>2, <1>3, <2>2, <2>3, <2>4 DEF Went, Active, HoldsLease, At
  <2>7. ("check" = "delivering" \/ task[i].stage = "deliver") /\ ~task[i].error =>
            \E j \in Task : task[j].origin = i
    BY DEF IInv, Continued
  <2>8. TaskInv(i)'
    <3> USE <1>1, <1>2, <1>3, <2>2, <2>3, <2>4 DEF EndsTurn, Went, TaskInv, At, SendPc, WorkerPc, FinishPc, IsCurrent, Active
    <3>1. Staged(i)'
      BY DEF Staged
    <3>2. Timed(i)'
      BY DEF Timed, Staged
    <3>3. Leased(i)' /\ Settled(i)'
      BY DEF Leased, Settled, Timed, Staged
    <3>4. HasCommitted(i)' /\ Generating(i)'
      BY DEF HasCommitted, Generating, GeneratingPc, Leased, Staged
    <3> QED BY <3>1, <3>2, <3>3, <3>4
  <2> QED BY <1>1, <1>2, <1>3, <2>2, <2>3, <2>4, <2>5, <2>6, <2>7, <2>8, TaskEndsTurn
<1> QED BY <1>4, <1>5

(* Decide keeps the invariant.                                             *)
LEMMA DecideKeeps == ASSUME IInv, NEW i \in Task, Decide(i) PROVE IInv'
<1>1. /\ Types /\ TaskInv(i) /\ At(i, "decide") /\ ~At(i, "free")
      /\ task[i].turn \in Nat /\ runtime.turn \in Nat /\ i # 0
  BY TaskTyped DEF IInv, Types, Decide, At
<1>2. UNCHANGED <<answer, work, inbox, committed, holder, op, abandoned, overrun>>
  BY DEF Decide
<1>3. CASE ~IsCurrent(i) /\ Goto(i, "done") /\ UNCHANGED <<runtime, lease>>
  <2>0. Quiet
    BY <1>1, <1>2, <1>3 DEF Quiet, Types
  <2>1. Ends(i)
    BY <1>1, <1>3, <2>0, GotoEnds
  <2>2. task[i].returned /\ ~HoldsLease(i) /\ (runtime.loading => task[i].turn # runtime.turn)
    BY <1>1, <1>3, <2>0 DEF TaskInv, Staged, Timed, Settled, HoldsLease, IsCurrent, At, WorkerPc, FinishPc
  <2> QED BY <1>1, <1>3, <2>0, <2>1, <2>2, QuietEndKeeps
<1>4. CASE IsCurrent(i) /\ Goto(i, "owning") /\ UNCHANGED <<runtime, lease>>
  <2>0. Quiet
    BY <1>1, <1>2, <1>4 DEF Quiet, Types
  <2>1. Went(i, "owning", task[i].stage, task[i].error, task[i].returned)
    <3>1. "owning" \in Pc \ {"free", "done"}
      BY DEF Pc, WorkerPc
    <3> QED BY <1>1, <1>4, <2>0, <3>1, GotoWent
  <2>2. Owes(i)
    BY <1>1, <1>4, <2>0, <2>1 DEF Quiet, Went, Owes, Active, HoldsLease, At, TaskInv, Staged, SendPc, WorkerPc
  <2>3. TaskInv(i)'
    <3> USE <1>1, <1>4, <2>0, <2>1 DEF Quiet, Went, TaskInv, At, SendPc, WorkerPc, FinishPc, IsCurrent, Active
    <3>1. Staged(i)'
      BY DEF Staged
    <3>2. Timed(i)'
      BY DEF Timed, Staged
    <3>3. Leased(i)' /\ Settled(i)'
      BY DEF Leased, Settled, Timed, Staged
    <3>4. HasCommitted(i)' /\ Generating(i)'
      BY DEF HasCommitted, Generating, GeneratingPc, Leased, Staged
    <3> QED BY <3>1, <3>2, <3>3, <3>4
  <2> QED BY <1>1, <1>4, <2>0, <2>1, <2>2, <2>3, StepKeeps
<1>5. CASE IsCurrent(i) /\ Goto(i, "finalizing") /\ UNCHANGED <<runtime, lease>>
  <2>0. Quiet
    BY <1>1, <1>2, <1>5 DEF Quiet, Types
  <2>1. Went(i, "finalizing", task[i].stage, task[i].error, task[i].returned)
    <3>1. "finalizing" \in Pc \ {"free", "done"}
      BY DEF Pc, WorkerPc
    <3> QED BY <1>1, <1>5, <2>0, <3>1, GotoWent
  <2>2. Owes(i)
    BY <1>1, <1>5, <2>0, <2>1 DEF Quiet, Went, Owes, Active, HoldsLease, At, TaskInv, Staged, SendPc, WorkerPc
  <2>3. TaskInv(i)'
    <3> USE <1>1, <1>5, <2>0, <2>1 DEF Quiet, Went, TaskInv, At, SendPc, WorkerPc, FinishPc, IsCurrent, Active
    <3>1. Staged(i)'
      BY DEF Staged
    <3>2. Timed(i)'
      BY DEF Timed, Staged
    <3>3. Leased(i)' /\ Settled(i)'
      BY DEF Leased, Settled, Timed, Staged
    <3>4. HasCommitted(i)' /\ Generating(i)'
      BY DEF HasCommitted, Generating, GeneratingPc, Leased, Staged
    <3> QED BY <3>1, <3>2, <3>3, <3>4
  <2> QED BY <1>1, <1>5, <2>0, <2>1, <2>2, <2>3, StepKeeps
<1>6. CASE /\ IsCurrent(i) /\ runtime.lease # 0 /\ Release(runtime.lease)
         /\ runtime' = [runtime EXCEPT !.lease = 0] /\ Goto(i, "routing")
  <2>1. /\ runtime' \in [turn : Nat, cancelling : BOOLEAN, loading : BOOLEAN,
                         lease : Maybe, receipt : Maybe, work : Maybe, inbox : Maybe]
        /\ runtime'.turn = runtime.turn /\ runtime'.lease = 0 /\ runtime'.loading = runtime.loading
        /\ runtime'.cancelling = runtime.cancelling
    BY <1>1, <1>6 DEF Types, Maybe
  <2>2. lease' \in Maybe
    BY <1>1, <1>6 DEF Types, Release, Maybe
  <2>3. EndsTurn(task[i].turn)
    BY <1>2, <1>6, <2>1 DEF EndsTurn, IsCurrent, Release
  <2>4. Went(i, "routing", task[i].stage, task[i].error, task[i].returned)
    <3>1. "routing" \in Pc \ {"free", "done"}
      BY DEF Pc, WorkerPc
    <3> QED BY <1>1, <1>6, <3>1, GotoWent
  <2>5. Types'
    BY <1>1, <1>2, <2>1, <2>2, <2>3, <2>4 DEF Types, Went
  <2>6. (Active(i)' => Active(i)) /\ (HoldsLease(i) => HoldsLease(i)')
    BY <1>1, <1>2, <2>1, <2>2, <2>3, <2>4 DEF Went, Active, HoldsLease, At
  <2>7. ("routing" = "delivering" \/ task[i].stage = "deliver") /\ ~task[i].error =>
            \E j \in Task : task[j].origin = i
    BY DEF IInv, Continued
  <2>8. TaskInv(i)'
    <3> USE <1>1, <1>2, <2>1, <2>2, <2>3, <2>4 DEF EndsTurn, Went, TaskInv, At, SendPc, WorkerPc, FinishPc, IsCurrent, Active
    <3>1. Staged(i)'
      BY DEF Staged
    <3>2. Timed(i)'
      BY DEF Timed, Staged
    <3>3. Leased(i)' /\ Settled(i)'
      BY DEF Leased, Settled, Timed, Staged
    <3>4. HasCommitted(i)' /\ Generating(i)'
      BY DEF HasCommitted, Generating, GeneratingPc, Leased, Staged
    <3> QED BY <3>1, <3>2, <3>3, <3>4
  <2> QED BY <1>1, <1>2, <2>1, <2>2, <2>3, <2>4, <2>5, <2>6, <2>7, <2>8, TaskEndsTurn
<1> QED BY <1>3, <1>4, <1>5, <1>6 DEF Decide

(* FinishCancellation keeps the invariant.                                 *)
LEMMA FinishCancellationKeeps == ASSUME IInv, NEW c \in Canceller, FinishCancellation(c) PROVE IInv'
<1>1. Types /\ op[c].pc = "finish" /\ op[c].mine # 0
  BY DEF IInv, Cancelling, FinishCancellation
<1>2. /\ EndsTurn(op[c].mine) /\ ~runtime'.loading /\ runtime'.cancelling = runtime.cancelling
      /\ runtime' \in [turn : Nat, cancelling : BOOLEAN, loading : BOOLEAN,
                       lease : Maybe, receipt : Maybe, work : Maybe, inbox : Maybe]
      /\ lease' \in Maybe
      /\ inbox' \in [Task -> [accepting : BOOLEAN, pending : Nat]]
      /\ overrun' \in BOOLEAN
  BY <1>1, FinishRuntimeEndsTurn DEF FinishCancellation
<1>3. /\ op' \in [Canceller -> OpRecord] /\ op'[c].pc = "publish" /\ op'[c].mine = op[c].mine
      /\ \A d \in Canceller : d # c => op'[d] = op[d]
  BY <1>1, SMTT(30) DEF Types, FinishCancellation, OpRecord
<1>4. UNCHANGED <<task, answer, work, committed, holder>>
  BY DEF FinishCancellation
<1>5. Types'
  BY <1>1, <1>2, <1>3, <1>4 DEF Types
<1> QED BY <1>1, <1>2, <1>3, <1>4, <1>5, CancellationEndsTurn

-----------------------------------------------------------------------------
(* Cancellations, and the steps of users beside them                       *)

(* A step that leaves tasks, runtime and leases alone, and answers only    *)
(* pending receipts; a cancellation that has aborted a turn is not lost as *)
(* long as the chat loads in that turn, unless it is dropped.              *)
LEMMA OpKeeps ==
    ASSUME IInv, Types', UNCHANGED <<runtime, lease, task, committed, overrun>>,
           abandoned \subseteq abandoned',
           \A k \in Task : \/ answer'[k] = answer[k]
                           \/ answer[k] = "pending" /\ answer'[k] # "completed",
           \A k \in Task : holder' = k <=> holder = k,
           holder' = User <=> op'["user"].pc # "free",
           \A c \in Canceller :
              \/ op'[c] = op[c]
              \/ /\ op'[c].pc \notin {"aborting", "finish"} /\ op'[c].mine \in {0, op[c].mine}
                 /\ \/ ~(op[c].pc = "aborting" /\ op[c].mine = runtime.turn /\ runtime.loading)
                    \/ runtime.turn \in abandoned'
    PROVE  IInv'
<1> USE DEF IInv
<1>1. ASSUME NEW k \in Task PROVE TaskInv(k)'
  <2>1. TaskInv(k)
    OBVIOUS
  <2>2. Staged(k)'
    BY <2>1 DEF TaskInv, Staged, At
  <2>3. Timed(k)' /\ HasCommitted(k)'
    BY <2>1 DEF TaskInv, Timed, HasCommitted, At
  <2>4. Leased(k)' /\ Settled(k)' /\ Generating(k)'
    BY <2>1 DEF TaskInv, Leased, Settled, Generating, At, IsCurrent, Active
  <2> QED BY <2>2, <2>3, <2>4 DEF TaskInv
<1>2. Distinct' /\ Continued' /\ Acquired'
  BY DEF Distinct, Continued, Acquired, Active, At
<1>3. Cancelling'
  <2>1. \A c \in Canceller : /\ op'[c].mine \in {0, op[c].mine}
                             /\ op'[c].pc \in {"aborting", "finish"} => op'[c] = op[c]
    OBVIOUS
  <2>2. ASSUME NEW c \in Canceller
        PROVE  /\ op'[c].mine <= runtime'.turn
               /\ \A i \in Task : op'[c].mine # 0 => task'[i].turn # op'[c].mine
               /\ \A d \in Canceller : op'[c].mine = op'[d].mine /\ op'[c].mine # 0 => c = d
    <3>1. runtime.turn \in Nat
      BY DEF Types
    <3> QED BY <2>1, <3>1 DEF Cancelling
  <2>3. ASSUME NEW c \in Canceller
        PROVE  /\ op'[c].pc \in {"aborting", "finish"} => op'[c].mine # 0
               /\ op'[c].pc = "aborting" /\ op'[c].mine = runtime'.turn => runtime'.cancelling
    BY <2>1 DEF Cancelling
  <2>4. runtime'.loading \/ runtime'.cancelling => runtime'.turn > 0
    BY DEF Cancelling
  <2> QED BY <2>2, <2>3, <2>4 DEF Cancelling
<1>4. LeaseHasOwner'
  BY DEF LeaseHasOwner, HoldsLease
<1>5. LoadingHasOwner'
  BY DEF LoadingHasOwner
<1> QED BY <1>1, <1>2, <1>3, <1>4, <1>5

(* A user asks for a cancellation or a deletion.                           *)
LEMMA CancelRequestedKeeps ==
    ASSUME IInv, NEW kind \in {"cancel", "delete"}, CancelRequested(kind) PROVE IInv'
<1>1. Types /\ User # 0 /\ User \notin Task /\ 0 \notin Task
  BY TurnBounds DEF IInv, User, Task
<1>2. /\ holder = 0 /\ holder' = User
      /\ op' = [op EXCEPT !["user"] = [NoOp EXCEPT !.pc = "reserve", !.kind = kind]]
      /\ UNCHANGED <<runtime, lease, task, answer, work, inbox, committed, abandoned, overrun>>
  BY DEF CancelRequested
<1>3. /\ op' \in [Canceller -> OpRecord] /\ op'["user"].pc = "reserve" /\ op'["user"].mine = 0
      /\ \A d \in Canceller : d # "user" => op'[d] = op[d]
  BY <1>1, <1>2 DEF Types, OpRecord, NoOp, Canceller
<1>4. op["user"].pc = "free"
  BY <1>1, <1>2 DEF IInv, Cancelling
<1>5. Types'
  BY <1>1, <1>2, <1>3 DEF Types
<1> QED BY <1>1, <1>2, <1>3, <1>4, <1>5, OpKeeps DEF Canceller

(* The stop action of a work item reads its turn.                          *)
LEMMA StopWorkKeeps == ASSUME IInv, NEW i \in Task, StopWork(i) PROVE IInv'
<1>1. Types /\ task[i] \in TaskRecord
  BY TaskTyped DEF IInv
<1>2. /\ op["stop"].pc = "free"
      /\ op' = [op EXCEPT !["stop"] = [NoOp EXCEPT !.pc = "reserve", !.kind = "stop",
                                                   !.expected = task[i].controls]]
      /\ UNCHANGED <<runtime, lease, task, answer, work, inbox, committed, holder, abandoned, overrun>>
  BY DEF StopWork
<1>3. /\ op' \in [Canceller -> OpRecord] /\ op'["stop"].pc = "reserve" /\ op'["stop"].mine = 0
      /\ \A d \in Canceller : d # "stop" => op'[d] = op[d]
  BY <1>1, <1>2 DEF Types, OpRecord, NoOp, Canceller, TaskRecord
<1>4. holder' = User <=> op'["user"].pc # "free"
  BY <1>2, <1>3 DEF IInv, Cancelling, Canceller
<1>5. Types'
  BY <1>1, <1>2, <1>3 DEF Types
<1> QED BY <1>2, <1>3, <1>4, <1>5, OpKeeps DEF Canceller

(* The steps of a cancellation that only move it on.                       *)
LEMMA OpMovesKeep ==
    ASSUME IInv, NEW c \in Canceller, NEW there \in {"publish", "answer"},
           op' = [op EXCEPT ![c].pc = there], op[c].pc # "free",
           ~(op[c].pc = "aborting" /\ op[c].mine = runtime.turn /\ runtime.loading),
           UNCHANGED <<runtime, lease, task, answer, inbox, committed, holder, abandoned, overrun>>,
           work' \in [Task -> Statuses]
    PROVE  IInv'
<1>1. /\ op' \in [Canceller -> OpRecord] /\ op'[c].pc = there /\ op'[c].mine = op[c].mine
      /\ \A d \in Canceller : d # c => op'[d] = op[d]
  BY SMTT(30) DEF IInv, Types, OpRecord
<1>2. op'["user"].pc # "free" <=> op["user"].pc # "free"
  BY <1>1 DEF Canceller
<1>3. holder' = User <=> op'["user"].pc # "free"
  BY <1>2 DEF IInv, Cancelling
<1>4. Types'
  BY <1>1 DEF IInv, Types
<1> QED BY <1>1, <1>3, <1>4, OpKeeps

(* A cancellation that finds nothing, or publishes its end, goes on.       *)
LEMMA NothingToCancelKeeps == ASSUME IInv, NEW c \in Canceller, NothingToCancel(c) PROVE IInv'
BY OpMovesKeep DEF NothingToCancel, IInv, Types

(* PublishCancelled keeps the invariant.                                   *)
LEMMA PublishCancelledKeeps == ASSUME IInv, NEW c \in Canceller, PublishCancelled(c) PROVE IInv'
<1>1. work' \in [Task -> Statuses]
  BY EndWorkTyped DEF PublishCancelled, IInv
<1> QED BY <1>1, OpMovesKeep DEF PublishCancelled

(* AnswerCancellation keeps the invariant.                                 *)
LEMMA AnswerCancellationKeeps == ASSUME IInv, NEW c \in Canceller, AnswerCancellation(c) PROVE IInv'
<1>1. Types /\ User # 0 /\ User \notin Task /\ 0 \notin Task
  BY TurnBounds DEF IInv, User, Task
<1>2. /\ op[c].pc = "answer" /\ op' = [op EXCEPT ![c] = NoOp]
      /\ IF c = "user" THEN holder' = 0 ELSE holder' = holder
      /\ UNCHANGED <<runtime, lease, task, work, inbox, committed, abandoned, overrun>>
  BY DEF AnswerCancellation
<1>3. /\ op' \in [Canceller -> OpRecord] /\ op'[c].pc = "free" /\ op'[c].mine = 0
      /\ \A d \in Canceller : d # c => op'[d] = op[d]
  BY <1>1, <1>2 DEF Types, OpRecord, NoOp
<1>4. /\ answer' \in [Task -> Answers]
      /\ \A k \in Task : \/ answer'[k] = answer[k]
                         \/ answer[k] = "pending" /\ answer'[k] # "completed"
  <2>1. CASE UNCHANGED answer
    BY <1>1, <2>1 DEF Types
  <2>2. ASSUME NEW result \in {"cancelled", "failed"}, Deliver(runtime.receipt, result)
        PROVE  /\ answer' \in [Task -> Answers]
               /\ \A k \in Task : \/ answer'[k] = answer[k]
                                  \/ answer[k] = "pending" /\ answer'[k] # "completed"
    BY <1>1, <2>2, DeliverTyped DEF Answers
  <2> QED BY <2>1, <2>2 DEF AnswerCancellation
<1>5. holder = User <=> op["user"].pc # "free"
  BY DEF IInv, Cancelling
<1>6. \A k \in Task : holder' = k <=> holder = k
  BY <1>1, <1>2, <1>5
<1>7. holder' = User <=> op'["user"].pc # "free"
  BY <1>1, <1>2, <1>3, <1>5 DEF Canceller
<1>8. Types'
  BY <1>1, <1>2, <1>3, <1>4 DEF Types
<1> QED BY <1>2, <1>3, <1>4, <1>6, <1>7, <1>8, OpKeeps

(* A cancellation dropped while it aborts keeps the invariant: the turn    *)
(* number it has taken counts as abandoned.                                *)
LEMMA CancelDroppedKeeps == ASSUME IInv, CancelDropped PROVE IInv'
<1>1. Types /\ User # 0 /\ User \notin Task /\ 0 \notin Task /\ "user" \in Canceller
  BY TurnBounds DEF IInv, User, Task, Canceller
<1>2. /\ op["user"].pc = "aborting" /\ op' = [op EXCEPT !["user"] = NoOp] /\ holder' = 0
      /\ UNCHANGED <<runtime, lease, task, answer, work, inbox, committed, overrun>>
      /\ abandoned \subseteq abandoned' /\ op["user"].mine \in abandoned'
  BY DEF CancelDropped
<1>3. /\ op' \in [Canceller -> OpRecord] /\ op'["user"].pc = "free" /\ op'["user"].mine = 0
      /\ \A d \in Canceller : d # "user" => op'[d] = op[d]
  BY <1>1, <1>2 DEF Types, OpRecord, NoOp
<1>4. holder = User
  BY <1>2 DEF IInv, Cancelling
<1>5. \A k \in Task : holder' = k <=> holder = k
  BY <1>1, <1>2, <1>4
<1>6. holder' = User <=> op'["user"].pc # "free"
  BY <1>1, <1>2, <1>3
<1>7. Types'
  BY <1>1, <1>2, <1>3 DEF Types
<1> QED BY <1>2, <1>3, <1>5, <1>6, <1>7, OpKeeps

(* SettleCancellation keeps the invariant.                                 *)
LEMMA SettleCancellationKeeps == ASSUME IInv, NEW c \in Canceller, SettleCancellation(c) PROVE IInv'
<1>1. Types /\ op[c].pc = "aborting" /\ op[c].mine # 0
  BY DEF IInv, Cancelling, SettleCancellation
<1>2. UNCHANGED <<task, answer, work, inbox, committed, holder, abandoned, overrun>>
  BY DEF SettleCancellation
<1>3. CASE runtime.turn = op[c].mine /\ runtime.cancelling
  <2>1. /\ runtime' = [runtime EXCEPT !.lease = 0, !.loading = FALSE, !.cancelling = FALSE]
        /\ lease' = IF lease = runtime.lease THEN 0 ELSE lease
        /\ op' = [op EXCEPT ![c].pc = "finish"]
    BY <1>3 DEF SettleCancellation, Release
  <2>2. /\ runtime' \in [turn : Nat, cancelling : BOOLEAN, loading : BOOLEAN,
                         lease : Maybe, receipt : Maybe, work : Maybe, inbox : Maybe]
        /\ runtime'.turn = runtime.turn /\ runtime'.lease = 0 /\ runtime'.loading = FALSE
        /\ runtime'.cancelling = FALSE
    BY <1>1, <2>1 DEF Types, Maybe
  <2>3. /\ op' \in [Canceller -> OpRecord] /\ op'[c].pc = "finish" /\ op'[c].mine = op[c].mine
        /\ \A d \in Canceller : d # c => op'[d] = op[d]
    BY <1>1, <2>1, SMTT(30) DEF Types, OpRecord
  <2>4. lease' \in Maybe
    BY <1>1, <2>1 DEF Types, Maybe
  <2>5. Types'
    BY <1>1, <1>2, <2>2, <2>3, <2>4 DEF Types
  <2>6. EndsTurn(op[c].mine)
    BY <1>2, <1>3, <2>1, <2>2 DEF EndsTurn
  <2> QED BY <1>1, <1>2, <1>3, <2>2, <2>3, <2>5, <2>6, CancellationEndsTurn
<1>4. CASE ~(runtime.turn = op[c].mine /\ runtime.cancelling)
  <2>1. op' = [op EXCEPT ![c].pc = "answer"] /\ UNCHANGED <<runtime, lease>>
    BY <1>4 DEF SettleCancellation
  <2>2. op[c].mine # runtime.turn
    BY <1>1, <1>4 DEF IInv, Cancelling
  <2>3. work' \in [Task -> Statuses]
    BY <1>1, <1>2 DEF Types
  <2> QED BY <1>1, <1>2, <2>1, <2>2, <2>3, OpMovesKeep
<1> QED BY <1>3, <1>4

(* A rejected send, and guidance for the current turn, touch nothing else. *)
LEMMA SendRejectedKeeps == ASSUME IInv, SendRejected PROVE IInv'
<1>1. work' \in [Task -> Statuses]
  BY EndWorkTyped DEF SendRejected, IInv
<1>2. Types'
  BY <1>1 DEF SendRejected, IInv, Types
<1>3. holder' = User <=> op'["user"].pc # "free"
  BY DEF SendRejected, IInv, Cancelling
<1> QED BY <1>2, <1>3, OpKeeps DEF SendRejected

(* SteerMessage keeps the invariant.                                       *)
LEMMA SteerMessageKeeps == ASSUME IInv, SteerMessage PROVE IInv'
<1>1. inbox' \in [Task -> [accepting : BOOLEAN, pending : Nat]]
  BY DEF SteerMessage, IInv, Types, Maybe
<1>2. Types'
  BY <1>1 DEF SteerMessage, IInv, Types
<1>3. holder' = User <=> op'["user"].pc # "free"
  BY DEF SteerMessage, IInv, Cancelling
<1> QED BY <1>2, <1>3, OpKeeps DEF SteerMessage

-----------------------------------------------------------------------------
(* The steps that begin something                                          *)

(* A new turn leaves a task with an earlier turn as it is.                 *)
LEMMA NewTurnOfNoOther ==
    ASSUME IInv, runtime'.turn = runtime.turn + 1, NEW k \in Task, task'[k] = task[k],
           UNCHANGED <<answer, committed, holder, abandoned, overrun>>
    PROVE  TaskInv(k)'
<1>1. /\ TaskInv(k) /\ task[k].turn \in Nat /\ runtime.turn \in Nat
  BY TaskTyped DEF IInv
<1>2. task'[k].turn < runtime'.turn
  BY <1>1 DEF TaskInv, Timed
<1>3. Staged(k)' /\ HasCommitted(k)'
  BY <1>1 DEF TaskInv, Staged, HasCommitted, At
<1>4. Timed(k)'
  BY <1>1, <1>2 DEF TaskInv, Timed, At
<1>5. Leased(k)' /\ Settled(k)' /\ Generating(k)'
  BY <1>1, <1>2 DEF TaskInv, Leased, Settled, Generating, IsCurrent
<1> QED BY <1>3, <1>4, <1>5 DEF TaskInv

(* reserveCancellation takes the next turn number.                         *)
LEMMA ReserveKeeps == ASSUME IInv, NEW c \in Canceller, Reserve(c) PROVE IInv'
<1>1. /\ Types /\ runtime.turn \in Nat /\ runtime.turn + 1 \in Nat
      /\ op[c].pc = "reserve" /\ runtime.loading
  BY DEF IInv, Types, Reserve
<1>2. /\ runtime' = [runtime EXCEPT !.cancelling = TRUE, !.turn = runtime.turn + 1]
      /\ op' = [op EXCEPT ![c].pc = "aborting", ![c].mine = runtime.turn + 1]
      /\ CloseInbox(runtime.inbox)
      /\ UNCHANGED <<lease, task, answer, work, committed, holder, abandoned, overrun>>
  BY DEF Reserve
<1>3. /\ runtime' \in [turn : Nat, cancelling : BOOLEAN, loading : BOOLEAN,
                       lease : Maybe, receipt : Maybe, work : Maybe, inbox : Maybe]
      /\ runtime'.turn = runtime.turn + 1 /\ runtime'.lease = runtime.lease
      /\ runtime'.loading = runtime.loading /\ runtime'.cancelling = TRUE
  BY <1>1, <1>2 DEF Types
<1>4. /\ op' \in [Canceller -> OpRecord] /\ op'[c].pc = "aborting" /\ op'[c].mine = runtime.turn + 1
      /\ \A d \in Canceller : d # c => op'[d] = op[d]
  <2> DEFINE r == [op[c] EXCEPT !.pc = "aborting", !.mine = runtime.turn + 1]
  <2>1. op \in [Canceller -> OpRecord]
    BY <1>1 DEF Types
  <2>2. op[c] \in OpRecord
    BY <2>1
  <2>3. r \in OpRecord /\ r.pc = "aborting" /\ r.mine = runtime.turn + 1
    BY <1>1, <2>2 DEF OpRecord
  <2>4. op' = [op EXCEPT ![c] = r]
    BY <1>2, <2>1
  <2> HIDE DEF r
  <2> QED
    BY <2>1, <2>3, <2>4
<1>5. inbox' \in [Task -> [accepting : BOOLEAN, pending : Nat]]
  BY <1>1, <1>2 DEF Types, CloseInbox
<1>6. Types'
  BY <1>1, <1>2, <1>3, <1>4, <1>5 DEF Types
<1>7. \A k \in Task : TaskInv(k)'
  BY <1>2, <1>3, NewTurnOfNoOther
<1>8. Distinct' /\ Continued' /\ Acquired'
  BY <1>2, <1>3 DEF IInv, Distinct, Continued, Acquired, Active, At
<1>9. Cancelling'
  <2>1. \A d \in Canceller : op[d].mine \in Nat /\ op[d].mine <= runtime.turn
    BY <1>1 DEF IInv, Cancelling, Types, OpRecord
  <2>2. \A k \in Task : task'[k].turn \in Nat /\ task'[k].turn <= runtime.turn
    BY <1>1, <1>2, TaskTyped DEF IInv, TaskInv, Timed
  <2>3. holder' = User <=> op'["user"].pc # "free"
    BY <1>1, <1>2, <1>4 DEF IInv, Cancelling, Canceller
  <2>4. ASSUME NEW d \in Canceller
        PROVE  /\ op'[d].mine <= runtime'.turn
               /\ \A i \in Task : op'[d].mine # 0 => task'[i].turn # op'[d].mine
               /\ \A e \in Canceller : op'[d].mine = op'[e].mine /\ op'[d].mine # 0 => d = e
    <3>1. CASE d = c
      <4>1. \A e \in Canceller : e # c => op'[e].mine <= runtime.turn
        BY <1>4, <2>1
      <4> QED BY <1>1, <1>3, <1>4, <2>2, <3>1, <4>1
    <3>2. CASE d # c
      <4>1. op'[d] = op[d] /\ op[d].mine <= runtime.turn
        BY <1>4, <2>1, <3>2
      <4>2. \A e \in Canceller : op'[d].mine = op'[e].mine /\ op'[d].mine # 0 => d = e
        <5> SUFFICES ASSUME NEW e \in Canceller, op'[d].mine = op'[e].mine, op'[d].mine # 0 PROVE d = e
          OBVIOUS
        <5>1. e # c
          BY <1>1, <1>4, <2>1, <4>1
        <5> QED BY <1>4, <4>1, <5>1 DEF IInv, Cancelling
      <4>3. op'[d].mine <= runtime'.turn
        BY <1>1, <1>3, <2>1, <4>1
      <4>4. \A i \in Task : op'[d].mine # 0 => task'[i].turn # op'[d].mine
        BY <1>2, <4>1 DEF IInv, Cancelling
      <4> QED BY <4>2, <4>3, <4>4
    <3> QED BY <3>1, <3>2
  <2>5. ASSUME NEW d \in Canceller
        PROVE  /\ op'[d].pc \in {"aborting", "finish"} => op'[d].mine # 0
               /\ op'[d].pc = "aborting" /\ op'[d].mine = runtime'.turn => runtime'.cancelling
    BY <1>1, <1>3, <1>4 DEF IInv, Cancelling
  <2> QED BY <1>1, <1>3, <2>3, <2>4, <2>5 DEF Cancelling
<1>10. LeaseHasOwner'
  BY <1>2, <1>3 DEF IInv, LeaseHasOwner, HoldsLease
<1>11. LoadingHasOwner'
  BY <1>3, <1>4 DEF LoadingHasOwner
<1> QED BY <1>6, <1>7, <1>8, <1>9, <1>10, <1>11 DEF IInv

(* A send acquires the lease of a free chat, for the first and only time.  *)
LEMMA SendAdmittedKeeps == ASSUME IInv, NEW i \in Task, SendAdmitted(i) PROVE IInv'
<1> USE DEF IInv
<1>1. /\ TaskInv(i) /\ At(i, "free") /\ lease = 0 /\ holder = 0
      /\ i # 0 /\ i # User /\ User # 0 /\ 0 \notin Task
  BY TurnBounds DEF SendAdmitted, User, Task
<1>2. task[i] = NoTask
  BY <1>1 DEF TaskInv, Staged
<1>3. /\ lease' = i /\ holder' = i
      /\ task' = [task EXCEPT ![i].pc = "admitted", ![i].lease = i]
      /\ UNCHANGED <<runtime, answer, work, inbox, committed, op, abandoned, overrun>>
  BY DEF SendAdmitted
<1>4. /\ task' \in [Task -> TaskRecord] /\ \A k \in Task : k # i => task'[k] = task[k]
      /\ task'[i].pc = "admitted" /\ task'[i].lease = i /\ task'[i].turn = 0 /\ task'[i].origin = 0
      /\ task'[i].stage = "send" /\ task'[i].error = FALSE /\ task'[i].returned = FALSE
  <2>1. "admitted" \in Pc /\ i \in Maybe
    BY DEF Pc, SendPc, Maybe
  <2>2. task \in [Task -> TaskRecord] /\ task[i] \in TaskRecord
    BY DEF Types
  <2> DEFINE r == [task[i] EXCEPT !.pc = "admitted", !.lease = i]
  <2>3. r \in TaskRecord
    BY <2>1, <2>2 DEF TaskRecord
  <2>4. task' = [task EXCEPT ![i] = r]
    BY <1>3, <2>2
  <2>5. task' \in [Task -> TaskRecord] /\ task'[i] = r /\ \A k \in Task : k # i => task'[k] = task[k]
    BY <2>2, <2>3, <2>4
  <2> QED BY <1>2, <2>5 DEF NoTask
<1>5. Types'
  BY <1>3, <1>4 DEF Types, Maybe
<1>6. \A k \in Task : task[k].lease # i /\ (runtime.lease # i)
  BY <1>1 DEF Acquired, At
<1>7. ASSUME NEW k \in Task PROVE TaskInv(k)'
  <2>1. CASE k = i
    <3>1. task[i].turn = 0 /\ answer[i] \in {"none", "failed"} /\ runtime.turn \in Nat
      BY <1>1, <1>2, TaskTyped DEF TaskInv, Timed, NoTask
    <3>2. Staged(i)'
      BY <1>1, <1>3, <1>4 DEF Staged, At, SendPc, WorkerPc
    <3>3. Timed(i)'
      BY <1>1, <1>3, <1>4, <3>1 DEF TaskInv, Timed, At, SendPc
    <3>4. Leased(i)' /\ Settled(i)' /\ HasCommitted(i)' /\ Generating(i)'
      BY <1>1, <1>3, <1>4, <3>1 DEF Leased, Settled, HasCommitted, Generating, At, IsCurrent,
         SendPc, WorkerPc, FinishPc, GeneratingPc
    <3> QED BY <2>1, <3>2, <3>3, <3>4 DEF TaskInv
  <2>2. CASE k # i
    <3>1. TaskInv(k) /\ task'[k] = task[k] /\ k # 0
      BY <1>4, <2>2, TaskTyped
    <3>2. Staged(k)'
      BY <1>1, <1>3, <2>2, <3>1 DEF TaskInv, Staged, At
    <3>3. Timed(k)' /\ Settled(k)' /\ HasCommitted(k)'
      BY <1>3, <3>1 DEF TaskInv, Timed, Settled, HasCommitted, At
    <3>4. Leased(k)'
      BY <1>3, <1>6, <3>1 DEF TaskInv, Leased, Active, IsCurrent
    <3>5. Generating(k)'
      BY <1>1, <1>3, <3>1 DEF TaskInv, Generating, IsCurrent, At
    <3> QED BY <3>2, <3>3, <3>4, <3>5 DEF TaskInv
  <2> QED BY <2>1, <2>2
<1>8. Distinct'
  <2>1. task[i].turn = 0
    BY <1>2 DEF NoTask
  <2>2. \A k \in Task : k # i => (Active(k)' <=> Active(k))
    BY <1>4 DEF Active
  <2> QED BY <1>4, <1>6, <2>1, <2>2 DEF Distinct
<1>9. Continued'
  <2>1. task[i].turn = 0 /\ task[i].origin = 0
    BY <1>2 DEF NoTask
  <2>2. \A k \in Task : task'[k].turn = task[k].turn /\ task'[k].origin = task[k].origin /\ task[k].origin \in Maybe
    BY <1>4, <2>1 DEF Types, TaskRecord
  <2>3. ASSUME NEW k \in Task, At(k, "delivering")' \/ task'[k].stage = "deliver", ~task'[k].error
        PROVE  \E j \in Task : task[j].origin = k
    BY <1>4, <2>3 DEF Continued, At
  <2> QED BY <2>2, <2>3 DEF Continued, Maybe
<1>10. Cancelling'
  <2>1. \A k \in Task : task'[k].turn = task[k].turn
    BY <1>2, <1>4 DEF NoTask
  <2>2. holder' = User <=> op'["user"].pc # "free"
    BY <1>1, <1>3 DEF Cancelling
  <2> QED BY <1>3, <2>1, <2>2 DEF Cancelling
<1>11. Acquired'
  <2>1. \A l \in Task : task'[l].pc = "free" => task[l].pc = "free"
    BY <1>4
  <2>2. runtime.lease \in Maybe /\ \A k \in Task : task[k].lease \in Maybe
    BY DEF Types, TaskRecord
  <2>3. \A k \in Task : task'[k].lease = task[k].lease \/ task'[k].lease = i
    BY <1>4
  <2> QED BY <1>3, <1>4, <2>1, <2>2, <2>3 DEF Acquired, At, Maybe
<1>12. LeaseHasOwner'
  BY <1>3, <1>4 DEF LeaseHasOwner, HoldsLease
<1>13. LoadingHasOwner'
  BY <1>1, <1>3, <1>4 DEF LoadingHasOwner, Ended, At
<1> QED BY <1>5, <1>7, <1>8, <1>9, <1>10, <1>11, <1>12, <1>13

(* A continuation takes the lease of its origin over, which then waits.    *)
LEMMA ContinueTurnKeeps == ASSUME IInv, NEW i \in Task, NEW j \in Task, ContinueTurn(i, j) PROVE IInv'
<1> USE DEF IInv
<1>1. /\ TaskInv(i) /\ TaskInv(j) /\ At(i, "spawning") /\ At(j, "free") /\ i # j
      /\ i # 0 /\ j # 0 /\ 0 \notin Task
  BY TurnBounds DEF ContinueTurn, Task, At
<1>2. task[j] = NoTask /\ task[i].lease # 0 /\ task[i].stage = "worker" /\ task[i].turn > 0
  BY <1>1 DEF TaskInv, Staged, Leased, Timed, At, WorkerPc
<1>3. /\ task' = [task EXCEPT ![i].pc = "waiting", ![j].pc = "admitted",
                              ![j].lease = task[i].lease, ![j].origin = i]
      /\ UNCHANGED <<runtime, lease, answer, work, inbox, committed, holder, op, abandoned, overrun>>
  BY DEF ContinueTurn
<1>4. /\ task' \in [Task -> TaskRecord] /\ \A k \in Task : k # i /\ k # j => task'[k] = task[k]
      /\ task'[j].pc = "admitted" /\ task'[j].lease = task[i].lease /\ task'[j].turn = 0
      /\ task'[j].origin = i /\ task'[j].stage = "send" /\ task'[j].error = FALSE
      /\ task'[i].pc = "waiting" /\ task'[i].stage = "worker" /\ task'[i].error = task[i].error
      /\ task'[i].turn = task[i].turn /\ task'[i].origin = task[i].origin
      /\ task'[i].lease = task[i].lease /\ task'[i].returned = task[i].returned
  <2>1. "admitted" \in Pc /\ "waiting" \in Pc /\ i \in Maybe
    BY DEF Pc, SendPc, WorkerPc, Maybe
  <2>2. task \in [Task -> TaskRecord] /\ task[i] \in TaskRecord /\ task[j] \in TaskRecord
    BY DEF Types
  <2> DEFINE r == [task[j] EXCEPT !.pc = "admitted", !.lease = task[i].lease, !.origin = i]
             q == [task[i] EXCEPT !.pc = "waiting"]
  <2>3. r \in TaskRecord /\ q \in TaskRecord
    BY <2>1, <2>2 DEF TaskRecord
  <2>4. task' = [task EXCEPT ![i] = q, ![j] = r]
    BY <1>1, <1>3, <2>2
  <2>5. /\ task' \in [Task -> TaskRecord] /\ task'[i] = q /\ task'[j] = r
        /\ \A k \in Task : k # i /\ k # j => task'[k] = task[k]
    BY <1>1, <2>2, <2>3, <2>4
  <2>6. /\ q.pc = "waiting" /\ q.stage = task[i].stage /\ q.error = task[i].error
        /\ q.turn = task[i].turn /\ q.origin = task[i].origin
        /\ q.lease = task[i].lease /\ q.returned = task[i].returned
    BY <2>2 DEF TaskRecord
  <2>7. /\ r.pc = "admitted" /\ r.lease = task[i].lease /\ r.turn = 0
        /\ r.origin = i /\ r.stage = "send" /\ r.error = FALSE
    BY <1>2 DEF NoTask
  <2> QED BY <1>2, <2>5, <2>6, <2>7
<1>5. Types'
  BY <1>3, <1>4 DEF Types
<1>6. ASSUME NEW k \in Task PROVE TaskInv(k)'
  <2>1. CASE k = j
    <3>1. task[j].turn = 0 /\ answer[j] \in {"none", "failed"} /\ runtime.turn \in Nat /\ holder # j
      BY <1>1, <1>2, TaskTyped DEF TaskInv, Timed, Staged, NoTask, At
    <3>2. Staged(j)'
      BY <1>1, <1>3, <1>4, <3>1 DEF Staged, At, SendPc, WorkerPc
    <3>3. Timed(j)'
      BY <1>1, <1>3, <1>4, <3>1 DEF TaskInv, Timed, At, SendPc
    <3>4. Leased(j)' /\ Settled(j)' /\ HasCommitted(j)' /\ Generating(j)'
      BY <1>1, <1>2, <1>3, <1>4, <3>1 DEF Leased, Settled, HasCommitted, Generating, At, IsCurrent,
         SendPc, WorkerPc, FinishPc, GeneratingPc
    <3> QED BY <2>1, <3>2, <3>3, <3>4 DEF TaskInv
  <2>2. CASE k = i
    <3>1. Staged(i)'
      BY <1>1, <1>3, <1>4, SMTT(30) DEF TaskInv, Staged, At, SendPc, WorkerPc
    <3>2. Timed(i)'
      BY <1>1, <1>2, <1>3, <1>4, SMTT(30) DEF TaskInv, Timed, At, SendPc
    <3>3. Leased(i)'
      BY <1>1, <1>3, <1>4, SMTT(30) DEF TaskInv, Leased, Active, At, IsCurrent, SendPc, WorkerPc
    <3>4. Settled(i)'
      BY <1>1, <1>3, <1>4, SMTT(30) DEF TaskInv, Settled, At, WorkerPc
    <3>5. HasCommitted(i)' /\ Generating(i)'
      BY <1>1, <1>3, <1>4 DEF TaskInv, HasCommitted, Generating, At, WorkerPc, FinishPc, GeneratingPc
    <3> QED BY <2>2, <3>1, <3>2, <3>3, <3>4, <3>5 DEF TaskInv
  <2>3. CASE k # i /\ k # j
    <3>1. TaskInv(k) /\ task'[k] = task[k]
      BY <1>4, <2>3
    <3>2. Staged(k)'
      BY <1>3, <3>1 DEF TaskInv, Staged, At
    <3>3. Timed(k)' /\ Settled(k)' /\ HasCommitted(k)'
      BY <1>3, <3>1 DEF TaskInv, Timed, Settled, HasCommitted, At
    <3>4. Leased(k)' /\ Generating(k)'
      BY <1>3, <3>1 DEF TaskInv, Leased, Generating, Active, IsCurrent, At
    <3> QED BY <3>2, <3>3, <3>4 DEF TaskInv
  <2> QED BY <2>1, <2>2, <2>3
<1>7. \A k \in Task : /\ task'[k].turn = task[k].turn
                      /\ k # j => task'[k].origin = task[k].origin /\ task'[k].lease = task[k].lease
                      /\ task'[k].pc = "free" => task[k].pc = "free"
  BY <1>2, <1>4 DEF NoTask
<1>8. Distinct'
  <2>1. \A k \in Task : k # j /\ Active(k)' => Active(k) /\ k # i
    BY <1>4 DEF Active
  <2>2. Active(i)
    BY <1>1, <1>2 DEF Active, At
  <2>3. \A k \in Task : k # j /\ Active(k)' => task[k].lease # task[i].lease
    BY <1>2, <2>1, <2>2 DEF Distinct
  <2> QED BY <1>4, <1>7, <2>1, <2>3 DEF Distinct
<1>9. Continued'
  <2>1. \A k \in Task : task[k].origin \in Maybe /\ task[k].turn \in Nat
    BY DEF Types, TaskRecord
  <2>2. ASSUME NEW k \in Task, At(k, "delivering")' \/ task'[k].stage = "deliver", ~task'[k].error
        PROVE  \E m \in Task : task'[m].origin = k
    <3>1. k # i /\ k # j /\ task'[k] = task[k]
      BY <1>4, <2>2 DEF At
    <3>2. PICK m \in Task : task[m].origin = k
      BY <2>2, <3>1 DEF Continued, At
    <3>3. m # j
      BY <1>1, <1>2, <3>2 DEF NoTask
    <3> QED BY <1>7, <3>2, <3>3
  <2>3. ASSUME NEW k \in Task, task'[k].origin # 0
        PROVE  /\ task'[task'[k].origin].turn > 0
               /\ task'[k].turn # 0 => task'[k].turn > task'[task'[k].origin].turn
    <3>1. CASE k = j
      BY <1>2, <1>4, <3>1
    <3>2. CASE k # j
      BY <1>7, <2>1, <2>3, <3>2 DEF Continued, Maybe
    <3> QED BY <3>1, <3>2
  <2> QED BY <2>2, <2>3 DEF Continued
<1>10. Cancelling'
  <2>1. \A k \in Task : task'[k].turn = task[k].turn
    BY <1>7
  <2> QED BY <1>3, <2>1 DEF Cancelling
<1>11. Acquired'
  <2>1. runtime.lease \in Maybe /\ lease \in Maybe /\ \A k \in Task : task[k].lease \in Maybe
    BY DEF Types, TaskRecord
  <2>2. \A k \in Task : task'[k].lease = task[k].lease \/ task'[k].lease = task[i].lease
    BY <1>4, <1>7
  <2>3. \A l \in Task : task'[l].pc = "free" => task[l].pc = "free"
    BY <1>7
  <2>4. ASSUME NEW l \in Maybe, l # 0, ~At(l, "free") PROVE ~At(l, "free")'
    BY <2>3, <2>4 DEF At, Maybe
  <2>5. \A k \in Task : task[k].lease # 0 => ~At(task[k].lease, "free")
    BY DEF Acquired
  <2>6. ASSUME NEW k \in Task, task'[k].lease # 0 PROVE ~At(task[k].lease, "free")'
    BY <1>2, <2>1, <2>2, <2>4, <2>5, <2>6
  <2> QED BY <1>3, <2>1, <2>4, <2>6 DEF Acquired
<1>12. LeaseHasOwner'
  <2>1. HoldsLease(j)' /\ task'[j].lease = task[i].lease
    BY <1>4 DEF HoldsLease
  <2>2. \A k \in Task : k # i /\ HoldsLease(k) => HoldsLease(k)' /\ task'[k].lease = task[k].lease
    BY <1>1, <1>4, <1>7 DEF HoldsLease, At
  <2> QED BY <1>3, <2>1, <2>2 DEF LeaseHasOwner
<1>13. LoadingHasOwner'
  <2>1. \A k \in Task : task[k].pc \notin Ended => task'[k].pc \notin Ended
    BY <1>4 DEF Ended
  <2> QED BY <1>3, <1>7, <2>1 DEF LoadingHasOwner
<1> QED BY <1>5, <1>6, <1>8, <1>9, <1>10, <1>11, <1>12, <1>13

(* beginChatTurn takes the next turn number and puts the lease of its task *)
(* into the runtime.                                                       *)
LEMMA BeginKeeps == ASSUME IInv, NEW i \in Task, Begin(i) PROVE IInv'
<1> DEFINE inherits == task[i].origin # 0 /\ runtime.inbox # 0 /\ inbox[runtime.inbox].accepting
           new == IF inherits THEN runtime.inbox ELSE i
           last == \A k \in Task : HoldsLease(k) => task[k].lease # runtime.lease
<1>1. /\ Types /\ TaskInv(i) /\ At(i, "admitted") /\ i # 0
      /\ runtime.turn \in Nat /\ runtime.turn + 1 \in Nat
  BY TaskTyped DEF IInv, Begin, Types
<1>2. /\ runtime' = [runtime EXCEPT !.turn = runtime.turn + 1, !.cancelling = FALSE, !.loading = TRUE,
                                    !.lease = task[i].lease, !.inbox = new]
      /\ IF last THEN Release(runtime.lease) ELSE UNCHANGED lease
      /\ inbox' = [k \in Task |-> IF ~inherits /\ k \in {i, runtime.inbox}
                                  THEN [accepting |-> k = i, pending |-> 0] ELSE inbox[k]]
      /\ task' = [task EXCEPT ![i].pc = "begun", ![i].turn = runtime.turn + 1, ![i].inbox = new]
      /\ UNCHANGED <<answer, work, committed, holder, op, abandoned, overrun>>
  BY DEF Begin
<1>3. task[i].stage = "send" /\ task[i].turn = 0 /\ task[i].lease # 0
  BY <1>1 DEF TaskInv, Staged, Timed, Leased, At, SendPc
<1>4. new \in Maybe /\ task[i].lease \in Maybe
  BY <1>1 DEF Types, TaskRecord, Maybe
<1>5. inbox' \in [Task -> [accepting : BOOLEAN, pending : Nat]]
  BY <1>1, <1>2 DEF Types
<1> HIDE DEF new, inherits
<1>6. /\ runtime' \in [turn : Nat, cancelling : BOOLEAN, loading : BOOLEAN,
                       lease : Maybe, receipt : Maybe, work : Maybe, inbox : Maybe]
      /\ runtime'.turn = runtime.turn + 1 /\ runtime'.lease = task[i].lease
      /\ runtime'.loading = TRUE /\ runtime'.cancelling = FALSE
  BY <1>1, <1>2, <1>4 DEF Types
<1>7. /\ task' \in [Task -> TaskRecord] /\ \A k \in Task : k # i => task'[k] = task[k]
      /\ task'[i].pc = "begun" /\ task'[i].turn = runtime.turn + 1
      /\ task'[i].stage = task[i].stage /\ task'[i].origin = task[i].origin
      /\ task'[i].lease = task[i].lease /\ task'[i].returned = task[i].returned
  <2>1. "begun" \in Pc
    BY DEF Pc, SendPc
  <2>2. task \in [Task -> TaskRecord] /\ task[i] \in TaskRecord
    BY <1>1 DEF Types
  <2> DEFINE r == [task[i] EXCEPT !.pc = "begun", !.turn = runtime.turn + 1, !.inbox = new]
  <2>3. r \in TaskRecord
    BY <1>1, <1>4, <2>1, <2>2 DEF TaskRecord
  <2>4. task' = [task EXCEPT ![i] = r]
    BY <1>2, <2>2
  <2>5. task' \in [Task -> TaskRecord] /\ task'[i] = r /\ \A k \in Task : k # i => task'[k] = task[k]
    BY <2>2, <2>3, <2>4
  <2> QED BY <2>2, <2>5 DEF TaskRecord
<1>8. /\ lease' = lease \/ lease' = 0
      /\ lease' # 0 /\ lease = runtime.lease => \E k \in Task : HoldsLease(k) /\ task[k].lease = lease
  BY <1>2 DEF Release
<1>9. Types'
  BY <1>1, <1>2, <1>5, <1>6, <1>7, <1>8 DEF Types, Maybe
<1>10. \A k \in Task : task[k].turn \in Nat /\ task[k].turn <= runtime.turn
  BY <1>1, TaskTyped DEF IInv, TaskInv, Timed
<1>11. ASSUME NEW k \in Task PROVE TaskInv(k)'
  <2>1. CASE k = i
    <3>1. Staged(i)'
      BY <1>1, <1>2, <1>3, <1>7 DEF TaskInv, Staged, At, SendPc, WorkerPc
    <3>2. Timed(i)'
      BY <1>1, <1>3, <1>6, <1>7 DEF Timed, At, SendPc
    <3>3. Leased(i)' /\ Settled(i)'
      BY <1>1, <1>3, <1>6, <1>7 DEF Leased, Settled, Active, At, IsCurrent, SendPc, WorkerPc
    <3>4. HasCommitted(i)' /\ Generating(i)'
      BY <1>1, <1>2, <1>3, <1>6, <1>7 DEF TaskInv, HasCommitted, Generating, At, WorkerPc, FinishPc
    <3> QED BY <2>1, <3>1, <3>2, <3>3, <3>4 DEF TaskInv
  <2>2. CASE k # i
    BY <1>2, <1>6, <1>7, <2>2, NewTurnOfNoOther
  <2> QED BY <2>1, <2>2
<1>12. Distinct'
  <2>1. \A k \in Task : (Active(k)' => Active(k)) /\ task'[k].lease = task[k].lease
    BY <1>1, <1>3, <1>7 DEF Active, At
  <2>2. \A k \in Task : k # i => task'[k].turn = task[k].turn
    BY <1>7
  <2>3. \A k \in Task : k # i => task'[k].turn # task'[i].turn
    BY <1>1, <1>7, <1>10, <2>2
  <2> QED BY <2>1, <2>2, <2>3 DEF IInv, Distinct
<1>13. Continued'
  <2>1. \A k \in Task : /\ task[k].origin \in Maybe /\ task'[k].origin = task[k].origin
                        /\ k # i => task'[k] = task[k]
    BY <1>1, <1>7 DEF Types, TaskRecord
  <2>2. \A k \in Task : task[k].origin # i
    BY <1>1, <1>3 DEF IInv, Continued
  <2>3. ASSUME NEW k \in Task, At(k, "delivering")' \/ task'[k].stage = "deliver", ~task'[k].error
        PROVE  \E j \in Task : task[j].origin = k
    <3>1. k # i
      BY <1>3, <1>7, <2>3 DEF At
    <3> QED BY <2>1, <2>3, <3>1 DEF IInv, Continued, At
  <2>4. ASSUME NEW k \in Task, task'[k].origin # 0
        PROVE  /\ task'[task'[k].origin].turn > 0
               /\ task'[k].turn # 0 => task'[k].turn > task'[task'[k].origin].turn
    <3>1. /\ task[k].origin \in Task /\ task[k].origin # i
          /\ task'[task'[k].origin].turn = task[task[k].origin].turn
      BY <2>1, <2>2, <2>4 DEF Maybe
    <3>2. task[task[k].origin].turn > 0 /\ task[task[k].origin].turn <= runtime.turn
      BY <1>10, <2>1, <2>4, <3>1 DEF IInv, Continued
    <3>3. CASE k = i
      BY <1>1, <1>7, <1>10, <3>1, <3>2, <3>3
    <3>4. CASE k # i
      BY <2>1, <2>4, <3>1, <3>2, <3>4 DEF IInv, Continued
    <3> QED BY <3>3, <3>4
  <2> QED BY <2>1, <2>3, <2>4 DEF Continued
<1>14. Cancelling'
  <2>1. \A c \in Canceller : op[c].mine \in Nat /\ op[c].mine <= runtime.turn
    BY <1>1 DEF IInv, Cancelling, Types, OpRecord
  <2>2. ASSUME NEW c \in Canceller, NEW k \in Task, op[c].mine # 0 PROVE task'[k].turn # op[c].mine
    BY <1>1, <1>7, <2>1, <2>2 DEF IInv, Cancelling
  <2>3. \A c \in Canceller : op[c].mine <= runtime'.turn /\ op[c].mine # runtime'.turn
    BY <1>1, <1>6, <2>1
  <2>4. \A c \in Canceller : /\ op[c].pc \in {"aborting", "finish"} => op[c].mine # 0
                             /\ \A d \in Canceller : op[c].mine = op[d].mine /\ op[c].mine # 0 => c = d
    BY DEF IInv, Cancelling
  <2>5. /\ holder' = User <=> op'["user"].pc # "free"
        /\ runtime'.turn > 0 /\ op' = op
    BY <1>1, <1>2, <1>6 DEF IInv, Cancelling
  <2> QED BY <2>2, <2>3, <2>4, <2>5 DEF Cancelling
<1>15. Acquired'
  <2>1. \A l \in Task : task'[l].pc = "free" => task[l].pc = "free"
    BY <1>7
  <2>2. lease \in Maybe /\ \A k \in Task : task[k].lease \in Maybe /\ task'[k].lease = task[k].lease
    BY <1>1, <1>7 DEF Types, TaskRecord
  <2>3. ASSUME NEW l \in Maybe, l # 0, ~At(l, "free") PROVE ~At(l, "free")'
    BY <2>1, <2>3 DEF At, Maybe
  <2>4. ASSUME NEW k \in Task, task[k].lease # 0 PROVE ~At(task[k].lease, "free")
    BY <2>4 DEF IInv, Acquired
  <2>5. ASSUME NEW k \in Task, task'[k].lease # 0 PROVE ~At(task[k].lease, "free")'
    BY <2>2, <2>3, <2>4, <2>5
  <2>6. lease' # 0 => ~At(lease, "free")'
    BY <1>8, <2>2, <2>3 DEF IInv, Acquired
  <2>7. ~At(runtime.lease, "free")'
    BY <1>3, <1>6, <2>2, <2>3, <2>4
  <2> QED BY <2>5, <2>6, <2>7 DEF Acquired
<1>16. LeaseHasOwner'
  <2>1. \A k \in Task : HoldsLease(k) => HoldsLease(k)' /\ task'[k].lease = task[k].lease
    BY <1>7 DEF HoldsLease
  <2> QED BY <1>8, <2>1 DEF IInv, LeaseHasOwner
<1>17. LoadingHasOwner'
  BY <1>6, <1>7 DEF LoadingHasOwner, Ended
<1> QED BY <1>9, <1>11, <1>12, <1>13, <1>14, <1>15, <1>16, <1>17 DEF IInv

-----------------------------------------------------------------------------
(* Every step keeps the inductive invariant                                *)

(* Each step of a send keeps the invariant.                                *)
LEMMA SendStepKeeps == ASSUME IInv, NEW i \in Task, SendStep(i) PROVE IInv'
BY SendUnconfiguredKeeps, SendInvalidKeeps, BeginKeeps, InstallReceiptKeeps, StartChatExecutionKeeps,
   BuildFailsKeeps, StreamCreatedKeeps, ProtectFailsKeeps, SendOvertakenKeeps, SpawnWorkerKeeps,
   SpawnFailsKeeps, DropGuardsKeeps, SendReturnsKeeps DEF SendStep

(* Each step at the end of a turn keeps the invariant.                     *)
LEMMA FinishStepKeeps == ASSUME IInv, NEW i \in Task, FinishStep(i) PROVE IInv'
BY CleanupRuntimeAfterTurnKeeps, CheckTurnKeeps, FailTurnReceiptKeeps, FinishChatExecutionKeeps,
   PublishTerminalStateKeeps DEF FinishStep

(* Each step of the worker of a turn keeps the invariant.                  *)
LEMMA WorkerStepKeeps == ASSUME IInv, NEW i \in Task, WorkerStep(i) PROVE IInv'
BY StreamEndsKeeps, CommitAssistantKeeps, ReadGuidanceLeaseKeeps, DrainGuidanceKeeps, DecideKeeps,
   RouteChangedKeeps, FinalizeMessageKeeps, PublishCompletedKeeps, CompleteTurnReceiptKeeps DEF WorkerStep

(* Each step of a guidance continuation keeps the invariant.               *)
LEMMA ContinuationStepKeeps == ASSUME IInv, NEW i \in Task, ContinuationStep(i) PROVE IInv'
BY OwnContinuationKeeps, ContinuationFailsKeeps, SummaryEndsKeeps, ContinueTurnKeeps,
   ContinuationEndsKeeps, DeliverContinuationKeeps, AnswerOriginKeeps DEF ContinuationStep

(* Each step of a cancellation keeps the invariant.                        *)
LEMMA CancelStepKeeps == ASSUME IInv, NEW c \in Canceller, CancelStep(c) PROVE IInv'
BY ReserveKeeps, NothingToCancelKeeps, SettleCancellationKeeps, FinishCancellationKeeps,
   PublishCancelledKeeps, AnswerCancellationKeeps DEF CancelStep

(* Every step, and every stuttering step, keeps the inductive invariant.   *)
LEMMA NextIInv == IInv /\ [Next]_vars => IInv'
<1> SUFFICES ASSUME IInv, [Next]_vars PROVE IInv'
  OBVIOUS
<1>1. ASSUME NEW i \in Task, TaskStep(i) PROVE IInv'
  BY <1>1, SendStepKeeps, FinishStepKeeps, WorkerStepKeeps, ContinuationStepKeeps DEF TaskStep
<1>2. ASSUME UNCHANGED vars PROVE IInv'
  <2>1. /\ UNCHANGED <<runtime, lease, task, answer, work, inbox, committed, holder, op, abandoned, overrun>>
        /\ holder = User <=> op["user"].pc # "free"
    BY <1>2 DEF vars, IInv, Cancelling
  <2>2. Types'
    BY <2>1 DEF IInv, Types
  <2> QED BY <2>1, <2>2, OpKeeps
<1> QED BY <1>1, <1>2, SendAdmittedKeeps, StopWorkKeeps, SendRejectedKeeps, CancelRequestedKeeps,
           SendDroppedKeeps, CancelDroppedKeeps, CancelStepKeeps, SteerMessageKeeps DEF Next

(* The inductive invariant holds in every reachable state.                 *)
LEMMA SpecIInv == Spec => []IInv
BY InitIInv, NextIInv, PTL DEF Spec

-----------------------------------------------------------------------------
(* Type correctness, and that the chat holder is held by the user's send   *)
(* that is under way, and by nobody else.                                  *)
THEOREM TypeCorrect == Spec => []TypeOK
<1>1. IInv => TypeOK
  <2> SUFFICES ASSUME IInv PROVE TypeOK
    OBVIOUS
  <2>1. Types /\ Cancelling /\ \A i \in Task : Staged(i)
    BY DEF IInv, TaskInv
  <2> QED BY <2>1 DEF TypeOK, Types, Maybe, Answers, Statuses, Cancelling, Staged
<1> QED BY <1>1, SpecIInv, PTL

(* A leased chat is leased for the runtime, for a send whose guard is      *)
(* armed or for a continuation on its way: some of them gives it back.     *)
THEOREM NoOrphanLease == Spec => []LeaseHasOwner
<1>1. IInv => LeaseHasOwner
  BY DEF IInv
<1> QED BY <1>1, SpecIInv, PTL

(* A chat that is loading has a task of its turn, or the cancellation of   *)
(* it, still at work, unless its caller dropped one of these two.          *)
THEOREM NoOrphanTurn == Spec => []LoadingHasOwner
<1>1. IInv => LoadingHasOwner
  BY DEF IInv
<1> QED BY <1>1, SpecIInv, PTL

(* A send that is told its turn completed has its response in the history, *)
(* through any chain of continuations.                                     *)
THEOREM CompletionIsHonest == Spec => []CompletedIsCommitted
<1>1. IInv => CompletedIsCommitted
  BY DEF IInv, TaskInv, HasCommitted, CompletedIsCommitted
<1> QED BY <1>1, SpecIInv, PTL

(* A worker that collects the response of the current turn has the chat,   *)
(* and still has it where it hands over to a continuation: the assertion   *)
(* in continuationOwnership holds unless a turn was ended by another one.  *)
THEOREM GenerationHasLease == Spec => []GenerationKeepsLease
<1>1. IInv => GenerationKeepsLease
  BY DEF IInv, TaskInv, Generating, GenerationKeepsLease, At, GeneratingPc
<1> QED BY <1>1, SpecIInv, PTL
=============================================================================
