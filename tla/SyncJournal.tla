---------------------------- MODULE SyncJournal ----------------------------
(***************************************************************************)
(* The operation journal of a Space node and the exchange of originals     *)
(* between nodes: SyncOperationStore.rs and transaction/Journal.rs (the    *)
(* durable state), RuntimeFileSyncStore.rs (an owner that writes locally), *)
(* transaction/Kernel.rs and SyncConsistency.rs (application of received   *)
(* originals).                                                             *)
(*                                                                         *)
(* A local write stores the bytes, commits the original in the SQL         *)
(* journal, advances the vector clock and records the entity version, in   *)
(* four separate durable steps.  A received page is committed as pending   *)
(* in one SQL transaction; then, dataset by dataset, each pending original *)
(* is compared with the entity version, materialized, recorded and         *)
(* acknowledged, and the dataset is completed by another SQL transaction.  *)
(* Every one of these steps interleaves with the other threads and may be  *)
(* the last one before a crash.                                            *)
(*                                                                         *)
(* The bytes of a file are the number of the write that made them; a       *)
(* deletion is one more value.  Pages are sets: the code sorts them.       *)
(***************************************************************************)
EXTENDS Integers, FiniteSets

CONSTANTS
    Nodes,      \* device ids, numbered in their string order
    Entities,   \* file paths
    Writers,    \* local threads that write files
    Home,       \* the node every writer runs on
    Offset,     \* how far the wall clock of a node is ahead
    PageLimit,  \* operations in one exported page
    MaxWrites,  \* bound: local writes of one node
    MaxTime,    \* bound: the shared part of the wall clocks
    MaxFlight,  \* bound: pages under way at once
    MaxFaults   \* bound: crashes, failed calls, lost and repeated pages

ASSUME JournalAssumption ==
    /\ Nodes \subseteq Nat
    /\ Home \in [Writers -> Nodes]
    /\ Offset \in [Nodes -> Nat]
    /\ PageLimit \in Nat \ {0}
    /\ MaxWrites \in Nat
    /\ MaxTime \in Nat
    /\ MaxFlight \in Nat
    /\ MaxFaults \in Nat

VARIABLES
    time,       \* the shared part of the wall clocks
    writes,     \* local writes started by each node
    originals,  \* rows of the originals table
    pending,    \* originals with pending = 1
    clock,      \* the vector clock file
    versions,   \* entity_versions.jsonl: newest recorded original, or None
    files,      \* live files: origin and number of the write, or None
    writer,     \* program counter and arguments of every local writer
    applier,    \* the thread that holds lockApplication on every node
    net,        \* exported pages that are under way
    faults      \* faults so far

durable == <<originals, pending, clock, versions, files>>
vars == <<time, writes, originals, pending, clock, versions, files,
          writer, applier, net, faults>>

None == [origin |-> -1]

Ops == [origin : Nodes, sequence : Nat, entity : Entities,
        createdAt : Nat, content : Nat]

(***************************************************************************)
(* Pure operators.                                                         *)
(***************************************************************************)

\* SyncOperationOrder: (createdAt, originDeviceId, sequence), lexicographic.
Before(o, p) ==
    \/ o.createdAt < p.createdAt
    \/ o.createdAt = p.createdAt /\ o.origin < p.origin
    \/ o.createdAt = p.createdAt /\ o.origin = p.origin
       /\ o.sequence < p.sequence

\* Mutant: a record without the comparison.
SupersedesAlways(o, version) == version = None \/ o # version

\* shouldApplyOperations, and the negation of the skip in
\* recordAppliedOperations: strictly newer than the recorded version.
Supersedes(o, version) == version = None \/ Before(version, o)

\* The bytes an operation carries.
Bytes(o) == [origin |-> o.origin, content |-> o.content]

SameIdentity(o, p) == o.origin = p.origin /\ o.sequence = p.sequence

\* The fingerprint check of Journal::put over one SQL transaction.
NoConflict(n, page) ==
    \A o \in page, p \in originals[n] \cup page : SameIdentity(o, p) => o = p

OfOrigin(S, n) == {o \in S : o.origin = n}

\* Journal::highest.
Highest(S, n) ==
    IF OfOrigin(S, n) = {} THEN 0
    ELSE CHOOSE s \in {o.sequence : o \in OfOrigin(S, n)} :
            \A o \in OfOrigin(S, n) : o.sequence <= s

Larger(i, j) == IF i >= j THEN i ELSE j

\* Mutant: the clock alone decides, as before the SQL journal.
SequenceFromClock(n) == clock[n][n] + 1

\* Mutant: the last sequence is taken for the next one to be undone.
SequenceBackwards(n) == Larger(clock[n][n], Highest(originals[n], n)) - 1

\* The sequence appendLocalOperation gives to the next operation.
NextSequence(n) == Larger(clock[n][n], Highest(originals[n], n)) + 1

\* Mutant: receipts that only know the highest sequence of every origin.
MissingAboveHighest(m, n) ==
    {o \in originals[m] : o.sequence > Highest(originals[n], o.origin)}

\* What node n lacks of node m, by n's exact receipt (Journal::receipt).
Missing(m, n) == originals[m] \ originals[n]

\* readJournalWithInventory: of the missing originals of one author on one
\* entity only the latest is exported; older ones stay gaps for later pages.
Winners(S) ==
    {o \in S : \A p \in S : p.origin = o.origin /\ p.entity = o.entity
                                => p.sequence <= o.sequence}

\* The page is the beginning of the winners in SyncOperationOrder.
Page(S) ==
    {o \in Winners(S) :
        Cardinality({p \in Winners(S) : Before(p, o)}) < PageLimit}

(***************************************************************************)
(* Threads.                                                                *)
(***************************************************************************)

IdleWriter == [pc |-> "idle", op |-> None]

IdleApplier ==
    [pc |-> "idle", groups |-> {}, mode |-> "batch", group |-> {}, todo |-> {},
     op |-> None]

\* Registry::receive between two datasets: the datasets that are left.
Planning(groups) ==
    [pc |-> "plan", groups |-> groups, mode |-> "batch", group |-> {},
     todo |-> {}, op |-> None]

\* Registry::receive inside a dataset: the operations that are left of group.
Choosing(groups, mode, group, todo) ==
    [pc |-> "choose", groups |-> groups, mode |-> mode, group |-> group,
     todo |-> todo, op |-> None]

\* The clock mutex is held from the choice of a sequence to the clock write.
ClockLocked(n) == \E w \in Writers : Home[w] = n /\ writer[w].pc = "logged"

WallClock(n) == time + Offset[n]

Completed(n) == originals[n] \ pending[n]

Init ==
    /\ time = 1
    /\ writes = [n \in Nodes |-> 0]
    /\ originals = [n \in Nodes |-> {}]
    /\ pending = [n \in Nodes |-> {}]
    /\ clock = [n \in Nodes |-> [m \in Nodes |-> 0]]
    /\ versions = [n \in Nodes |-> [e \in Entities |-> None]]
    /\ files = [n \in Nodes |-> [e \in Entities |-> None]]
    /\ writer = [w \in Writers |-> IdleWriter]
    /\ applier = [n \in Nodes |-> IdleApplier]
    /\ net = {}
    /\ faults = 0

\* The last tick only drains the exchange: no write is running in it.
Tick ==
    /\ time < MaxTime
    /\ time + 1 = MaxTime => \A w \in Writers : writer[w].pc = "idle"
    /\ time' = time + 1
    /\ UNCHANGED <<writes, durable, writer, applier, net, faults>>

(***************************************************************************)
(* A local write.                                                          *)
(***************************************************************************)

\* writeBytes, appendBytes, delete: the file is changed before anything is
\* journaled.  appendBytes ends in writeBytes, and an absent file is one more
\* content.  The operation exists as a draft without sequence and time.  Initial
\* seeds, which are journaled under an author of their own, are left out.
WriteBytes(w, e) ==
    LET n == Home[w]
        draft == [origin |-> n, sequence |-> 0, entity |-> e, createdAt |-> 0,
                  content |-> writes[n] + 1]
    IN  /\ writer[w].pc = "idle"
        /\ writes[n] < MaxWrites
        /\ time < MaxTime
        /\ writes' = [writes EXCEPT ![n] = @ + 1]
        /\ files' = [files EXCEPT ![n][e] = Bytes(draft)]
        /\ writer' = [writer EXCEPT ![w] = [pc |-> "written", op |-> draft]]
        /\ UNCHANGED <<time, originals, pending, clock, versions, applier,
                       net, faults>>

\* appendLocalOperation up to the SQL commit.
AppendLocal(w) ==
    LET n == Home[w]
        draft == writer[w].op
        op == [origin |-> n, sequence |-> NextSequence(n),
               entity |-> draft.entity, createdAt |-> WallClock(n),
               content |-> draft.content]
    IN  /\ writer[w].pc = "written"
        /\ ~ClockLocked(n)
        /\ NoConflict(n, {op})
        /\ originals' = [originals EXCEPT ![n] = @ \cup {op}]
        /\ writer' = [writer EXCEPT ![w] = [pc |-> "logged", op |-> op]]
        /\ UNCHANGED <<time, writes, pending, clock, versions, files, applier,
                       net, faults>>

\* Mutant: the clock file names the operation before it is committed.
WriteClockAhead(w) ==
    LET n == Home[w] IN
    /\ writer[w].pc \in {"written", "logged"}
    /\ IF writer[w].pc = "written"
       THEN /\ ~ClockLocked(n)
            /\ clock' = [clock EXCEPT ![n][n] = NextSequence(n)]
            /\ writer' = writer
       ELSE /\ clock' = clock
            /\ writer' = [writer EXCEPT ![w] = [pc |-> "clocked", op |-> @.op]]
    /\ UNCHANGED <<time, writes, originals, pending, versions, files, applier,
                   net, faults>>

\* appendLocalOperation: setSequence and writeLocalClockValue.
WriteClock(w) ==
    LET n == Home[w] IN
    /\ writer[w].pc = "logged"
    /\ clock' = [clock EXCEPT ![n][n] = writer[w].op.sequence]
    /\ writer' = [writer EXCEPT ![w] = [pc |-> "clocked", op |-> @.op]]
    /\ UNCHANGED <<time, writes, originals, pending, versions, files, applier,
                   net, faults>>

\* recordAppliedOperations, the version an entity has after o is recorded.
Recorded(n, o) ==
    [versions EXCEPT ![n][o.entity] = IF Supersedes(o, @) THEN o ELSE @]

\* appendLocalOperation: recordAppliedOperation, then the call returns.
RecordLocal(w) ==
    /\ writer[w].pc = "clocked"
    /\ versions' = Recorded(Home[w], writer[w].op)
    /\ writer' = [writer EXCEPT ![w] = IdleWriter]
    /\ UNCHANGED <<time, writes, originals, pending, clock, files, applier,
                   net, faults>>

\* A host or SQL error makes the call return early: what was written stays.
FailWrite(w) ==
    /\ faults < MaxFaults
    /\ writer[w].pc # "idle"
    /\ writer' = [writer EXCEPT ![w] = IdleWriter]
    /\ faults' = faults + 1
    /\ UNCHANGED <<time, writes, durable, applier, net>>

(***************************************************************************)
(* The exchange.                                                           *)
(***************************************************************************)

\* syncOperationsSince on m with the receipt of n: one page towards n.
Export(m, n) ==
    /\ m # n
    /\ Missing(m, n) # {}
    /\ Cardinality(net) < MaxFlight
    /\ net' = net \cup {[to |-> n, ops |-> Page(Missing(m, n))]}
    /\ UNCHANGED <<time, writes, durable, writer, applier, faults>>

\* Mutant: a redelivery makes the original pending again.
ReceivedAsPending(n, page) ==
    [pending EXCEPT ![n] = @ \cup page]

\* Journal::put with pending = true and ON CONFLICT DO NOTHING.
Received(n, page) == [pending EXCEPT ![n] = @ \cup (page \ originals[n])]

\* syncApplyOperations takes lockApplication, stores the page and plans one
\* group per dataset with pending originals.
ReceivePage(n, page) ==
    /\ applier[n].pc = "idle"
    /\ NoConflict(n, page)
    /\ originals' = [originals EXCEPT ![n] = @ \cup page]
    /\ pending' = Received(n, page)
    /\ applier' = [applier EXCEPT ![n] =
                    Planning({o.entity : o \in pending'[n]})]
    /\ UNCHANGED <<time, writes, clock, versions, files, writer>>

\* An operation reaches another node after the tick in which it was made.
Arrived(msg) == \A o \in msg.ops : o.createdAt - Offset[o.origin] < time

Deliver(msg) ==
    /\ msg \in net
    /\ Arrived(msg)
    /\ ReceivePage(msg.to, msg.ops)
    /\ net' = net \ {msg}
    /\ UNCHANGED faults

\* The caller timed out and the page is delivered again later.
DeliverTwice(msg) ==
    /\ faults < MaxFaults
    /\ msg \in net
    /\ Arrived(msg)
    /\ ReceivePage(msg.to, msg.ops)
    /\ faults' = faults + 1
    /\ UNCHANGED net

Lose(msg) ==
    /\ faults < MaxFaults
    /\ msg \in net
    /\ net' = net \ {msg}
    /\ faults' = faults + 1
    /\ UNCHANGED <<time, writes, durable, writer, applier>>

\* Every pass ends with an empty page, which retries the pending originals.
RetryPending(n) ==
    /\ pending[n] # {}
    /\ ReceivePage(n, {})
    /\ UNCHANGED <<net, faults>>

(***************************************************************************)
(* Registry::receive: the groups, one after the other.                     *)
(***************************************************************************)

Working(n, pc) == applier[n].pc = pc

\* Takes the pending originals of one dataset as a batch.
NextGroup(n, e) ==
    /\ Working(n, "plan")
    /\ e \in applier[n].groups
    /\ LET group == {o \in pending[n] : o.entity = e} IN
       applier' = [applier EXCEPT ![n] =
                    Choosing(@.groups \ {e}, "batch", group, group)]
    /\ UNCHANGED <<time, writes, durable, writer, net, faults>>

EndReceive(n) ==
    /\ Working(n, "plan")
    /\ applier[n].groups = {}
    /\ applier' = [applier EXCEPT ![n] = IdleApplier]
    /\ UNCHANGED <<time, writes, durable, writer, net, faults>>

\* The oldest operation left; shouldApplyOperation decides what becomes of it.
Check(n, o) ==
    /\ Working(n, "choose")
    /\ o \in applier[n].todo
    /\ \A p \in applier[n].todo : p = o \/ Before(o, p)
    /\ applier' = [applier EXCEPT ![n] =
                    [@ EXCEPT !.pc = IF Supersedes(o, versions[n][o.entity])
                                     THEN "write" ELSE "append",
                              !.op = o]]
    /\ UNCHANGED <<time, writes, durable, writer, net, faults>>

\* applySyncedOperation writes the bytes of the operation.
Materialize(n) ==
    /\ Working(n, "write")
    /\ files' = [files EXCEPT ![n][applier[n].op.entity] = Bytes(applier[n].op)]
    /\ applier' = [applier EXCEPT ![n].pc = "record"]
    /\ UNCHANGED <<time, writes, originals, pending, clock, versions, writer,
                   net, faults>>

RecordRemote(n) ==
    /\ Working(n, "record")
    /\ versions' = Recorded(n, applier[n].op)
    /\ applier' = [applier EXCEPT ![n].pc = "append"]
    /\ UNCHANGED <<time, writes, originals, pending, clock, files, writer,
                   net, faults>>

\* What the applier does once the operation at hand succeeded or failed:
\* a batch goes on to the next one and is completed as a whole, a single
\* operation of a failed batch is completed by itself.
Advance(n, rest, mode) ==
    IF rest = {}
    THEN Planning(applier[n].groups)
    ELSE Choosing(applier[n].groups, mode, applier[n].group, rest)

\* appendOperation: the original is there already, the clock follows it.
Append(n) ==
    /\ Working(n, "append")
    /\ ~ClockLocked(n)
    /\ clock' = [clock EXCEPT ![n][applier[n].op.origin] =
                                Larger(@, applier[n].op.sequence)]
    /\ applier' = [applier EXCEPT ![n].pc = "applied"]
    /\ UNCHANGED <<time, writes, originals, pending, versions, files, writer,
                   net, faults>>

\* The next operation of the batch, or completeOperations of what succeeded.
Complete(n) ==
    LET o == applier[n].op
        rest == applier[n].todo \ {o}
        done == IF applier[n].mode = "single" THEN {o}
                ELSE IF rest = {} THEN applier[n].group ELSE {}
    IN  /\ Working(n, "applied")
        /\ pending' = [pending EXCEPT ![n] = @ \ done]
        /\ applier' = [applier EXCEPT ![n] = Advance(n, rest, applier[n].mode)]
        /\ UNCHANGED <<time, writes, originals, clock, versions, files, writer,
                       net, faults>>

\* Mutant: an operation whose application failed is completed all the same.
FailAndComplete(n) ==
    LET a == applier[n] IN
    /\ faults < MaxFaults
    /\ a.pc \in {"write", "record", "append", "applied"}
    /\ pending' = [pending EXCEPT ![n] = @ \ {a.op}]
    /\ applier' = [applier EXCEPT ![n] = Advance(n, a.todo \ {a.op}, a.mode)]
    /\ faults' = faults + 1
    /\ UNCHANGED <<time, writes, originals, clock, versions, files, writer, net>>

\* The owner fails (a missing blob, a host error).  A batch of several starts
\* over, operation by operation; a single operation stays pending.
FailApply(n) ==
    LET a == applier[n] IN
    /\ faults < MaxFaults
    /\ a.pc \in {"write", "record", "append", "applied"}
    /\ applier' = [applier EXCEPT ![n] =
                    IF a.mode = "batch"
                    THEN Advance(n, IF a.group = {a.op} THEN {} ELSE a.group,
                                 "single")
                    ELSE Advance(n, a.todo \ {a.op}, "single")]
    /\ faults' = faults + 1
    /\ UNCHANGED <<time, writes, durable, writer, net>>

\* The process dies: threads are gone, everything durable stays.
Crash(n) ==
    /\ faults < MaxFaults
    /\ writer' = [w \in Writers |-> IF Home[w] = n THEN IdleWriter ELSE writer[w]]
    /\ applier' = [applier EXCEPT ![n] = IdleApplier]
    /\ faults' = faults + 1
    /\ UNCHANGED <<time, writes, durable, net>>

WriterStep(w) ==
    \/ AppendLocal(w)
    \/ WriteClock(w)
    \/ RecordLocal(w)

ApplierStep(n) ==
    \/ \E e \in Entities : NextGroup(n, e)
    \/ EndReceive(n)
    \/ \E o \in pending[n] : Check(n, o)
    \/ Materialize(n)
    \/ RecordRemote(n)
    \/ Append(n)
    \/ Complete(n)

Next ==
    \/ Tick
    \/ \E w \in Writers :
          \/ \E e \in Entities : WriteBytes(w, e)
          \/ WriterStep(w)
          \/ FailWrite(w)
    \/ \E m, n \in Nodes : Export(m, n)
    \/ \E msg \in net : Deliver(msg) \/ DeliverTwice(msg) \/ Lose(msg)
    \/ \E n \in Nodes :
          \/ RetryPending(n)
          \/ ApplierStep(n)
          \/ FailApply(n)
          \/ Crash(n)

Spec == Init /\ [][Next]_vars

\* Threads that run keep running, and the synchronization service keeps
\* exchanging pages with a reachable peer until nothing is missing.
Fairness ==
    /\ WF_vars(Tick)
    /\ \A w \in Writers : WF_vars(WriterStep(w))
    /\ \A m, n \in Nodes : WF_vars(Export(m, n))
    /\ \A n \in Nodes :
          /\ WF_vars(ApplierStep(n))
          /\ SF_vars(\E msg \in net : msg.to = n /\ Deliver(msg))
          /\ SF_vars(RetryPending(n))

LiveSpec == Spec /\ Fairness

-----------------------------------------------------------------------------
(***************************************************************************)
(* Properties.                                                             *)
(***************************************************************************)

Contents == {None} \cup [origin : Nodes, content : Nat]

WriterStates ==
    [pc : {"idle", "written", "logged", "clocked"}, op : Ops \cup {None}]

ApplierStates ==
    [pc : {"idle", "plan", "choose", "write", "record", "append", "applied"},
     groups : SUBSET Entities, mode : {"batch", "single"},
     group : SUBSET Ops, todo : SUBSET Ops, op : Ops \cup {None}]

\* The types of the tables, files and threads of every node.
TypeOK ==
    /\ time \in Nat
    /\ writes \in [Nodes -> Nat]
    /\ originals \in [Nodes -> SUBSET Ops]
    /\ pending \in [Nodes -> SUBSET Ops]
    /\ clock \in [Nodes -> [Nodes -> Nat]]
    /\ versions \in [Nodes -> [Entities -> Ops \cup {None}]]
    /\ files \in [Nodes -> [Entities -> Contents]]
    /\ writer \in [Writers -> WriterStates]
    /\ applier \in [Nodes -> ApplierStates]
    /\ net \subseteq [to : Nodes, ops : SUBSET Ops]
    /\ faults \in Nat

\* Journal::highest and appendLocalOperation: the sequence the next local
\* operation gets was never used by this author, neither on another node nor
\* on the wire, whatever write a crash cut off between commit and clock.
FreshSequence ==
    \A n \in Nodes :
        /\ \A m \in Nodes : \A o \in OfOrigin(originals[m], n) :
              o.sequence < NextSequence(n)
        /\ \A msg \in net : \A o \in OfOrigin(msg.ops, n) :
              o.sequence < NextSequence(n)

\* observe and setSequence: the clock peers are probed with never names an
\* operation that is not committed in the journal yet.
ClockNeverAhead ==
    \A n, m \in Nodes : clock[n][m] # 0 =>
        \E o \in OfOrigin(originals[n], m) : o.sequence = clock[n][m]

\* Registry::receive and Journal::complete: an operation of another node is
\* marked applied only once the entity version has caught up with it, across
\* failed batches, single retries and crashes between any two steps.
AppliedBeforeComplete ==
    \A n \in Nodes : \A o \in Completed(n) :
        o.origin # n => ~Supersedes(o, versions[n][o.entity])

\* Journal::put and complete: no redelivery, retry or crash makes a completed
\* original pending again or removes it.
CompletedStays == [][\A n \in Nodes : Completed(n) \subseteq Completed(n)']_vars

Quiet(n) ==
    /\ applier[n].pc = "idle"
    /\ \A w \in Writers : Home[w] = n => writer[w].pc = "idle"

\* recordAppliedOperations: as long as nothing failed, on a quiet node the
\* version of an entity is the newest completed operation on it, in whatever
\* order local writes and received pages came, a compacted older operation
\* after its successor included.
VersionIsNewest ==
    \A n \in Nodes : Quiet(n) /\ faults = 0 =>
        \A o \in Completed(n) : ~Supersedes(o, versions[n][o.entity])

\* readJournalWithInventory and the exact receipts: originals that compaction
\* held back are exported later, so all nodes end with the same journal and
\* nothing pending.
EventuallyInSync ==
    <>[](\A m, n \in Nodes : originals[m] = originals[n] /\ pending[n] = {})

\* What the journal, the receipts and the retries are for: under every
\* interleaving, lost page and crash the nodes implement ReplicatedLog, where
\* the identity of an operation is never used twice, operations are never
\* lost, versions only move forward and nothing counts as applied too early.
Log == INSTANCE ReplicatedLog WITH
    Replica <- Nodes, Entity <- Entities, None <- None,
    history <- originals, applied <- [n \in Nodes |-> Completed(n)], version <- versions

ImplementsLog == Log!LogSpec

\* "Records the newest operation that has been materialized for one
\* synchronized entity": on a quiet node the recorded version is what the
\* file holds.
VersionIsMaterialized ==
    \A n \in Nodes, e \in Entities :
        Quiet(n) /\ versions[n][e] # None =>
            /\ files[n][e] # None
            /\ files[n][e].origin = versions[n][e].origin
            /\ files[n][e].content = versions[n][e].content

\* "Returns whether an entity operation is newer than the last operation
\* applied locally": an operation chosen for materialization is newer than
\* every completed one, no local write being under way.
OnlyNewerChosen ==
    [][\A n \in Nodes :
         /\ applier[n].pc = "choose"
         /\ applier'[n].pc = "write"
         /\ \A w \in Writers : Home[w] = n =>
               writer[w].pc \in {"idle", "written"}
         => \A p \in Completed(n) :
               p.entity = applier'[n].op.entity => Before(p, applier'[n].op)]_vars

=============================================================================
