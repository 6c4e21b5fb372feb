------------------------ MODULE SyncJournalRefinement ------------------------
(***************************************************************************)
(* SyncJournal implements ReplicatedLog, for every number of nodes,        *)
(* writers and files and for every bound: the journal table is the         *)
(* history, its rows that are not pending are what was applied, and the    *)
(* recorded entity versions are the versions.                              *)
(***************************************************************************)
EXTENDS SyncJournalProofs

\* Supersedes is what the abstract specification calls not reached.
LEMMA ReachedIsCovered ==
    ASSUME NEW n \in Nodes, NEW o
    PROVE  Log!Reached(n, o) <=> Covered(n, o)
  BY DEF Log!Reached, Log!Precedes, Covered, Supersedes, Before

\* A step that leaves the journal and the versions alone is a stuttering step.
LEMMA LogStutter ==
    ASSUME UNCHANGED <<originals, pending, versions>>
    PROVE  UNCHANGED Log!logVars
  BY DEF Log!logVars, Completed

\* appendLocalOperation commits under an identity that nobody has used.
LEMMA AppendLocalIsAuthor ==
    ASSUME IInv, NEW w \in Writers, AppendLocal(w)
    PROVE  Log!LogNext
  <1> USE JournalAssumption
  <1> DEFINE n == Home[w]
             op == [origin |-> n, sequence |-> NextSequence(n),
                    entity |-> writer[w].op.entity, createdAt |-> WallClock(n),
                    content |-> writer[w].op.content]
  <1>0. /\ TypeOK /\ AuthorHolds /\ Contiguous /\ ClockNeverAhead /\ PendingReceived
        /\ WriterHolds
    BY DEF IInv, JournalInv
  <1>1. /\ n \in Nodes
        /\ writer[w].pc = "written"
        /\ originals' = [originals EXCEPT ![n] = @ \cup {op}]
        /\ pending' = pending /\ versions' = versions
    BY DEF AppendLocal
  <1>2. /\ originals \in [Nodes -> SUBSET Ops] /\ pending \in [Nodes -> SUBSET Ops]
        /\ time \in Nat
    BY <1>0 DEF TypeOK
  <1>3. PICK h \in Nat : {p.sequence : p \in OfOrigin(originals[n], n)} = 1..h
    BY <1>0, <1>1 DEF Contiguous
  <1>4. NextSequence(n) = h + 1
    BY <1>0, <1>1, <1>3, NextSequenceFollows
  <1>5. op \in Log!Operation
    <2>1. writer[w].op \in Ops
      BY <1>0, <1>1 DEF WriterHolds
    <2>2. writer[w].op.entity \in Entities /\ writer[w].op.content \in Nat
      BY <2>1 DEF Ops
    <2>3. ASSUME NEW i \in Nodes PROVE WallClock(i) \in Nat
      <3>1. Offset[i] \in Nat /\ time \in Nat
        BY <1>2
      <3> QED  BY <3>1 DEF WallClock
    <2>4. n \in Nodes
      BY <1>1
    <2>5. NextSequence(n) \in Nat
      BY <1>4
    <2> HIDE DEF n
    <2>6. WallClock(n) \in Nat
      BY <2>3, <2>4
    <2> QED  BY <2>2, <2>4, <2>5, <2>6 DEF Log!Operation
  <1>6. ASSUME NEW p \in Log!Written, p.origin = n PROVE p.sequence # op.sequence
    <2>1. PICK m \in Nodes : p \in originals[m]
      BY <1>6 DEF Log!Written
    <2>2. p \in OfOrigin(originals[n], n)
      BY <1>0, <1>6, <2>1 DEF AuthorHolds, OfOrigin
    <2>3. p.sequence \in 1..h
      BY <1>3, <2>2
    <2> QED  BY <1>4, <2>3
  <1>7. op \notin pending[n]
    BY <1>0, <1>1 DEF PendingReceived
  <1>8. [k \in Nodes |-> Completed(k)]' =
           [[k \in Nodes |-> Completed(k)] EXCEPT ![n] = @ \cup {op}]
    BY <1>1, <1>2, <1>7 DEF Completed
  <1>9. Log!Author(n, op)
    BY <1>1, <1>5, <1>6, <1>8 DEF Log!Author
  <1>10. op \in originals'[n]
    BY <1>1, <1>2
  <1> QED  BY <1>1, <1>9, <1>10 DEF Log!LogNext

\* A page that is received adds operations other nodes have, and applies none.
LEMMA ReceiveIsLearn ==
    ASSUME IInv, NEW n \in Nodes, NEW page, page \subseteq Log!Written, ReceivePage(n, page)
    PROVE  Log!LogNext
  <1>0. TypeOK /\ PendingReceived
    BY DEF IInv, JournalInv
  <1>1. originals \in [Nodes -> SUBSET Ops] /\ pending \in [Nodes -> SUBSET Ops]
    BY <1>0 DEF TypeOK
  <1>2. /\ originals' = [originals EXCEPT ![n] = originals[n] \cup page]
        /\ pending' = [pending EXCEPT ![n] = pending[n] \cup (page \ originals[n])]
        /\ versions' = versions
    BY DEF ReceivePage, Received
  <1>3. ASSUME NEW k \in Nodes PROVE Completed(k)' = Completed(k)
    <2>1. pending[k] \subseteq originals[k]
      BY <1>0 DEF PendingReceived
    <2> QED  BY <1>1, <1>2, <2>1 DEF Completed
  <1>4. Log!Learn(n, page)
    BY <1>2, <1>3 DEF Log!Learn
  <1> QED  BY <1>4 DEF Log!LogNext

\* Whatever is on the wire is in the journal of its author.
LEMMA PageIsWritten ==
    ASSUME IInv, NEW msg \in net
    PROVE  msg.to \in Nodes /\ msg.ops \subseteq Log!Written
  <1>0. TypeOK /\ AuthorHolds
    BY DEF IInv, JournalInv
  <1>1. msg.to \in Nodes /\ msg.ops \in SUBSET Ops
    BY <1>0 DEF TypeOK
  <1>2. ASSUME NEW o \in msg.ops PROVE o \in Log!Written
    <2>1. o.origin \in Nodes /\ o \in originals[o.origin]
      BY <1>0, <1>1, <1>2 DEF AuthorHolds, Ops
    <2> QED  BY <2>1 DEF Log!Written
  <1> QED  BY <1>1, <1>2

\* recordAppliedOperations moves a version forward, or leaves it.
LEMMA RecordIsAdvance ==
    ASSUME IInv, NEW n \in Nodes, NEW o \in originals[n], versions' = Recorded(n, o),
           UNCHANGED <<originals, pending>>
    PROVE  Log!LogNext \/ UNCHANGED Log!logVars
  <1>0. TypeOK
    BY DEF IInv, JournalInv
  <1>1. /\ versions \in [Nodes -> [Entities -> Ops \cup {None}]]
        /\ o \in Ops
    BY <1>0 DEF TypeOK
  <1>2. o.entity \in Entities
    BY <1>1 DEF Ops
  <1>3. CASE Supersedes(o, versions[n][o.entity])
    <2>1. versions' = [versions EXCEPT ![n][o.entity] = o]
      BY <1>1, <1>2, <1>3 DEF Recorded
    <2>2. ~Log!Reached(n, o)
      BY <1>3, ReachedIsCovered DEF Covered
    <2>3. [k \in Nodes |-> Completed(k)]' = [k \in Nodes |-> Completed(k)]
      BY DEF Completed
    <2>4. Log!Advance(n, o)
      BY <2>1, <2>2, <2>3 DEF Log!Advance
    <2> QED  BY <2>4 DEF Log!LogNext
  <1>4. CASE ~Supersedes(o, versions[n][o.entity])
    <2>1. versions' = versions
      BY <1>1, <1>2, <1>4 DEF Recorded
    <2> QED  BY <2>1, LogStutter
  <1> QED  BY <1>3, <1>4

\* completeOperations settles what the versions have reached.
LEMMA CompleteIsSettle ==
    ASSUME IInv, NEW n \in Nodes, Complete(n)
    PROVE  Log!LogNext
  <1> DEFINE a == applier[n]
             rest == a.todo \ {a.op}
             done == IF a.mode = "single" THEN {a.op}
                     ELSE IF rest = {} THEN a.group ELSE {}
  <1>0. TypeOK /\ PendingReceived /\ ApplierOK(n)
    BY DEF IInv, JournalInv, ApplierInv
  <1>1. /\ originals \in [Nodes -> SUBSET Ops] /\ pending \in [Nodes -> SUBSET Ops]
        /\ a.mode \in {"batch", "single"}
    BY <1>0 DEF TypeOK, ApplierStates
  <1>2. /\ a.pc = "applied"
        /\ pending' = [pending EXCEPT ![n] = pending[n] \ done]
        /\ originals' = originals /\ versions' = versions
    BY DEF Complete, Working
  <1>3. /\ a.todo \subseteq a.group /\ a.todo \subseteq pending[n]
        /\ a.op \in a.todo /\ Covered(n, a.op)
        /\ a.mode = "batch" => /\ a.group \subseteq pending[n]
                               /\ \A o \in a.group \ a.todo : Covered(n, o)
    BY <1>0, <1>2 DEF ApplierOK
  <1>4. done \subseteq pending[n]
    BY <1>1, <1>3
  <1>5. ASSUME NEW o \in done PROVE Covered(n, o)
    <2>1. CASE o = a.op
      BY <1>3, <2>1
    <2>2. CASE o # a.op
      <3>1. a.mode = "batch" /\ rest = {} /\ o \in a.group
        BY <1>1, <1>5, <2>2
      <3>2. o \notin a.todo
        BY <2>2, <3>1
      <3> QED  BY <1>3, <3>1, <3>2
    <2> QED  BY <2>1, <2>2
  <1>6. pending[n] \subseteq originals[n]
    BY <1>0 DEF PendingReceived
  <1>7. [k \in Nodes |-> Completed(k)]' =
           [[k \in Nodes |-> Completed(k)] EXCEPT ![n] = @ \cup done]
    <2> HIDE DEF done
    <2> QED  BY <1>1, <1>2, <1>4, <1>6 DEF Completed
  <1>8. \A o \in done : Log!Reached(n, o)
    BY <1>5, ReachedIsCovered
  <1>9. Log!Settle(n, done)
    <2> HIDE DEF done
    <2> QED  BY <1>2, <1>7, <1>8 DEF Log!Settle
  <1>10. done \subseteq originals[n]
    BY <1>4, <1>6
  <1> HIDE DEF done
  <1> QED  BY <1>9, <1>10 DEF Log!LogNext

-----------------------------------------------------------------------------
(***************************************************************************)
(* The refinement.                                                         *)
(***************************************************************************)

\* Empty journals are an empty history.
LEMMA RefinesInit == Init => Log!LogInit
  BY DEF Init, Log!LogInit, Completed

\* Every step of every thread, and every fault, is a step of the abstract
\* specification or changes nothing that it shows.
LEMMA RefinesNext ==
    ASSUME IInv, [Next]_vars
    PROVE  Log!LogNext \/ UNCHANGED Log!logVars
  <1>1. ASSUME NEW w \in Writers, AppendLocal(w) PROVE Log!LogNext
    BY <1>1, AppendLocalIsAuthor
  <1>2. ASSUME NEW w \in Writers, RecordLocal(w)
        PROVE  Log!LogNext \/ UNCHANGED Log!logVars
    <2>1. Home[w] \in Nodes /\ writer[w].pc = "clocked"
      BY <1>2, JournalAssumption DEF RecordLocal
    <2>2. writer[w].op \in originals[Home[w]]
      BY <2>1 DEF IInv, JournalInv, WriterHolds
    <2> QED  BY <1>2, <2>1, <2>2, RecordIsAdvance DEF RecordLocal
  <1>3. ASSUME NEW w \in Writers, WriteClock(w) PROVE UNCHANGED Log!logVars
    BY <1>3, LogStutter DEF WriteClock
  <1>4. ASSUME NEW msg \in net, Deliver(msg) \/ DeliverTwice(msg) PROVE Log!LogNext
    BY <1>4, PageIsWritten, ReceiveIsLearn DEF Deliver, DeliverTwice
  <1>5. ASSUME NEW n \in Nodes, RetryPending(n) PROVE Log!LogNext
    <2>1. {} \subseteq Log!Written
      OBVIOUS
    <2> QED  BY <1>5, <2>1, ReceiveIsLearn DEF RetryPending
  <1>6. ASSUME NEW n \in Nodes, RecordRemote(n)
        PROVE  Log!LogNext \/ UNCHANGED Log!logVars
    <2>1. applier[n].pc = "record" /\ versions' = Recorded(n, applier[n].op)
          /\ UNCHANGED <<originals, pending>>
      BY <1>6 DEF RecordRemote, Working
    <2>2. ApplierOK(n) /\ PendingReceived
      BY DEF IInv, JournalInv, ApplierInv
    <2>3. applier[n].op \in originals[n]
      BY <2>1, <2>2 DEF ApplierOK, PendingReceived
    <2> QED  BY <2>1, <2>3, RecordIsAdvance
  <1>7. ASSUME NEW n \in Nodes, Complete(n) PROVE Log!LogNext
    BY <1>7, CompleteIsSettle
  <1>8. ASSUME NEW n \in Nodes,
               \/ \E e \in Entities : NextGroup(n, e)
               \/ EndReceive(n)
               \/ \E o \in pending[n] : Check(n, o)
               \/ Materialize(n) \/ Append(n) \/ FailApply(n) \/ Crash(n)
        PROVE  UNCHANGED Log!logVars
    <2>1. UNCHANGED <<originals, pending, versions>>
      BY <1>8 DEF NextGroup, EndReceive, Check, Materialize, Append, FailApply, Crash, durable
    <2> QED  BY <2>1, LogStutter
  <1>9. ASSUME \/ Tick
               \/ \E w \in Writers : FailWrite(w)
               \/ \E w \in Writers, e \in Entities : WriteBytes(w, e)
               \/ \E m, n \in Nodes : Export(m, n)
               \/ \E msg \in net : Lose(msg)
               \/ UNCHANGED vars
        PROVE  UNCHANGED Log!logVars
    <2>1. UNCHANGED <<originals, pending, versions>>
      BY <1>9 DEF Tick, FailWrite, WriteBytes, Export, Lose, vars, durable
    <2> QED  BY <2>1, LogStutter
  <1>10. ASSUME NEW n \in Nodes, ApplierStep(n)
         PROVE  Log!LogNext \/ UNCHANGED Log!logVars
    BY <1>6, <1>7, <1>8, <1>10 DEF ApplierStep
  <1>11. ASSUME NEW w \in Writers, WriterStep(w)
         PROVE  Log!LogNext \/ UNCHANGED Log!logVars
    BY <1>1, <1>2, <1>3, <1>11 DEF WriterStep
  <1> QED
    BY <1>4, <1>5, <1>8, <1>9, <1>10, <1>11 DEF Next

\* Under every interleaving, error, lost or repeated page and crash the nodes
\* implement the abstract log: identities are used once, operations stay,
\* versions move forward only, and nothing counts as applied too early.
THEOREM JournalImplementsLog == Spec => ImplementsLog
  <1>1. Init => Log!LogInit
    BY RefinesInit
  <1>2. IInv /\ [Next]_vars => [Log!LogNext]_(Log!logVars)
    BY RefinesNext
  <1> QED  BY <1>1, <1>2, Invariant, PTL DEF Spec, ImplementsLog, Log!LogSpec

=============================================================================
