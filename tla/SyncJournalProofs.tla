-------------------------- MODULE SyncJournalProofs --------------------------
(***************************************************************************)
(* Proofs about SyncJournal, for every number of nodes, writers and files  *)
(* and for every bound.                                                    *)
(***************************************************************************)
EXTENDS SyncJournal, TLAPS

\* Pending originals are stored, and were made by another node.
PendingReceived ==
    \A n \in Nodes : /\ pending[n] \subseteq originals[n]
                     /\ \A o \in pending[n] : o.origin # n

\* Whatever is stored or on the wire is stored by its author.
AuthorHolds ==
    /\ \A n \in Nodes : \A o \in originals[n] : o \in originals[o.origin]
    /\ \A msg \in net : \A o \in msg.ops : o \in originals[o.origin]

\* The sequences an author has used are an interval that starts at 1.
Contiguous ==
    \A n \in Nodes : \E h \in Nat :
        {o.sequence : o \in OfOrigin(originals[n], n)} = 1..h

\* A journal holds one operation per identity.
UniqueIdentity ==
    \A n \in Nodes : \A o, p \in originals[n] : SameIdentity(o, p) => o = p

\* A writer's operation is its node's, and is stored from the commit on.
WriterHolds ==
    \A w \in Writers :
        /\ writer[w].pc # "idle" =>
              writer[w].op \in Ops /\ writer[w].op.origin = Home[w]
        /\ writer[w].pc \in {"logged", "clocked"} =>
              writer[w].op \in originals[Home[w]]

JournalInv ==
    /\ TypeOK
    /\ PendingReceived
    /\ AuthorHolds
    /\ Contiguous
    /\ UniqueIdentity
    /\ WriterHolds
    /\ ClockNeverAhead

Covered(n, o) == ~Supersedes(o, versions[n][o.entity])

\* The applier works on pending originals, and what it has behind it in a
\* batch, or is about to acknowledge, the entity version has caught up with.
ApplierOK(n) ==
    LET a == applier[n] IN
    /\ a.todo \subseteq a.group
    /\ a.todo \subseteq pending[n]
    /\ a.pc \in {"write", "record", "append", "applied"} => a.op \in a.todo
    /\ a.pc \in {"append", "applied"} => Covered(n, a.op)
    /\ a.mode = "batch" => /\ a.group \subseteq pending[n]
                           /\ \A o \in a.group \ a.todo : Covered(n, o)

ApplierInv == \A n \in Nodes : ApplierOK(n)

IInv == JournalInv /\ ApplierInv /\ AppliedBeforeComplete

\* Two nodes never hold different originals under one (origin, sequence).
OneOriginalPerIdentity ==
    \A m, n \in Nodes : \A o \in originals[m], p \in originals[n] :
        SameIdentity(o, p) => o = p

-----------------------------------------------------------------------------
(***************************************************************************)
(* The operators.                                                          *)
(***************************************************************************)

\* An operation is not a missing version.
LEMMA OpIsSome == ASSUME NEW o \in Ops PROVE o # None
  <1> SUFFICES ASSUME o = None PROVE FALSE
    OBVIOUS
  <1>1. o.origin \in Nat
    BY JournalAssumption DEF Ops
  <1>2. o.origin = -1
    BY DEF None
  <1> QED  BY <1>1, <1>2

\* SyncOperationOrder is a strict order.
LEMMA BeforeIrreflexive == ASSUME NEW o \in Ops PROVE ~Before(o, o)
  <1>1. o.createdAt \in Nat /\ o.origin \in Nat /\ o.sequence \in Nat
    BY JournalAssumption DEF Ops
  <1> QED  BY <1>1 DEF Before

\* Three operations compared as SyncOperationOrder compares them.
LEMMA BeforeTransitive ==
    ASSUME NEW o \in Ops, NEW p \in Ops, NEW q \in Ops, Before(o, p), Before(p, q)
    PROVE  Before(o, q)
  <1>1. /\ o.createdAt \in Nat /\ p.createdAt \in Nat /\ q.createdAt \in Nat
        /\ o.sequence \in Nat /\ p.sequence \in Nat /\ q.sequence \in Nat
        /\ o.origin \in Nat /\ p.origin \in Nat /\ q.origin \in Nat
    BY JournalAssumption DEF Ops
  <1> QED  BY <1>1 DEF Before

\* The sequence of the next local operation follows all the sequences the
\* author has used.
LEMMA NextSequenceFollows ==
    ASSUME TypeOK, ClockNeverAhead, NEW n \in Nodes, NEW h \in Nat,
           {o.sequence : o \in OfOrigin(originals[n], n)} = 1..h
    PROVE  NextSequence(n) = h + 1
  <1> DEFINE S == OfOrigin(originals[n], n)
  <1>1. /\ S \subseteq Ops
        /\ clock[n][n] \in Nat
        /\ \A o \in S : o.sequence \in Nat
    BY DEF TypeOK, OfOrigin, Ops
  <1>2. \A o \in S : o.sequence \in 1..h
    OBVIOUS
  <1>3. \A i \in 1..h : \E o \in S : o.sequence = i
    OBVIOUS
  <1>4. clock[n][n] <= h
    BY <1>1, <1>2 DEF ClockNeverAhead
  <1>5. CASE S = {}
    <2>1. h = 0
      BY <1>3, <1>5
    <2>2. Highest(originals[n], n) = 0
      BY <1>5 DEF Highest
    <2> QED  BY <1>1, <1>4, <2>1, <2>2 DEF NextSequence, Larger
  <1>6. CASE S # {}
    <2> DEFINE Q == {o.sequence : o \in S}
    <2>1. h \in Q /\ \A o \in S : o.sequence <= h
      BY <1>1, <1>2, <1>6
    <2>2. \A s \in Q : (\A o \in S : o.sequence <= s) => s = h
      <3> SUFFICES ASSUME NEW s \in Q, \A o \in S : o.sequence <= s
                   PROVE  s = h
        OBVIOUS
      <3>1. s \in 1..h
        BY <1>2
      <3>2. PICK o \in S : o.sequence = h
        BY <2>1
      <3> QED  BY <3>1, <3>2
    <2>3. (CHOOSE s \in Q : \A o \in S : o.sequence <= s) = h
      BY <2>1, <2>2
    <2>4. Highest(originals[n], n) = h
      BY <2>3, <1>6 DEF Highest
    <2> QED  BY <1>1, <1>4, <2>4 DEF NextSequence, Larger
  <1> QED  BY <1>5, <1>6

\* The record of an operation never gives up what a version covers, and
\* covers the operation itself.
LEMMA RecordedCovers ==
    ASSUME TypeOK, NEW n \in Nodes, NEW p \in Ops, versions' = Recorded(n, p)
    PROVE  /\ versions' \in [Nodes -> [Entities -> Ops \cup {None}]]
           /\ ~Supersedes(p, versions'[n][p.entity])
           /\ \A m \in Nodes : \A o \in Ops :
                 ~Supersedes(o, versions[m][o.entity]) =>
                     ~Supersedes(o, versions'[m][o.entity])
  <1> DEFINE v == versions[n][p.entity]
             u == IF Supersedes(p, v) THEN p ELSE v
  <1>1. /\ versions \in [Nodes -> [Entities -> Ops \cup {None}]]
        /\ p.entity \in Entities
        /\ v \in Ops \cup {None}
    BY DEF TypeOK, Ops
  <1>2. /\ versions' = [versions EXCEPT ![n][p.entity] = u]
        /\ u \in Ops \cup {None}
    BY <1>1 DEF Recorded
  <1>3. /\ versions' \in [Nodes -> [Entities -> Ops \cup {None}]]
        /\ versions'[n][p.entity] = u
        /\ \A m \in Nodes, e \in Entities :
              m # n \/ e # p.entity => versions'[m][e] = versions[m][e]
    BY <1>1, <1>2
  <1>4. ~Supersedes(p, u)
    BY <1>1, OpIsSome, BeforeIrreflexive DEF Supersedes
  <1>5. ASSUME NEW m \in Nodes, NEW o \in Ops,
               ~Supersedes(o, versions[m][o.entity])
        PROVE  ~Supersedes(o, versions'[m][o.entity])
    <2>1. o.entity \in Entities
      BY DEF Ops
    <2>2. CASE m # n \/ o.entity # p.entity
      BY <1>3, <1>5, <2>1, <2>2
    <2>3. CASE m = n /\ o.entity = p.entity
      <3>1. v # None /\ v \in Ops /\ ~Before(v, o)
        BY <1>1, <1>5, <2>3 DEF Supersedes
      <3>2. CASE Supersedes(p, v)
        <4>1. Before(v, p) /\ u = p
          BY <3>1, <3>2 DEF Supersedes
        <4>2. ~Before(p, o)
          BY <3>1, <4>1, BeforeTransitive
        <4> QED  BY <1>3, <2>3, <4>1, <4>2, OpIsSome DEF Supersedes
      <3>3. CASE ~Supersedes(p, v)
        BY <1>3, <2>3, <3>1, <3>3 DEF Supersedes
      <3> QED  BY <3>2, <3>3
    <2> QED  BY <2>2, <2>3
  <1> QED  BY <1>3, <1>4, <1>5

-----------------------------------------------------------------------------
(***************************************************************************)
(* The journal.                                                            *)
(***************************************************************************)

\* An empty journal, as SyncOperationStore opens it the first time.
LEMMA InitIInv == Init => IInv
  <1> SUFFICES ASSUME Init PROVE IInv
    OBVIOUS
  <1> USE JournalAssumption
  <1>1. TypeOK
    BY DEF Init, TypeOK, IdleWriter, IdleApplier, WriterStates, ApplierStates,
           Contents
  <1>2. PendingReceived /\ AuthorHolds /\ UniqueIdentity
    BY DEF Init, PendingReceived, AuthorHolds, UniqueIdentity
  <1>3. Contiguous
    <2>1. \A n \in Nodes : {o.sequence : o \in OfOrigin(originals[n], n)} = 1..0
      BY DEF Init, OfOrigin
    <2> QED  BY <2>1 DEF Contiguous
  <1>4. WriterHolds
    BY DEF Init, WriterHolds, IdleWriter
  <1>5. ClockNeverAhead
    BY DEF Init, ClockNeverAhead
  <1>6. ApplierInv
    BY DEF Init, ApplierInv, ApplierOK, IdleApplier
  <1>7. AppliedBeforeComplete
    BY DEF Init, AppliedBeforeComplete, Completed
  <1> QED  BY <1>1, <1>2, <1>3, <1>4, <1>5, <1>6, <1>7 DEF IInv, JournalInv

\* The journal part depends on nothing else than these variables.
LEMMA JournalFrame ==
    ASSUME JournalInv, TypeOK', UNCHANGED <<originals, pending, clock, net>>,
           WriterHolds'
    PROVE  JournalInv'
  BY DEF JournalInv, PendingReceived, AuthorHolds, Contiguous, UniqueIdentity,
         ClockNeverAhead, OfOrigin, SameIdentity

\* writeSnapshot only starts a draft: nothing it does reaches the journal.
LEMMA WriteBytesStep ==
    ASSUME IInv, NEW w \in Writers, NEW e \in Entities, WriteBytes(w, e)
    PROVE  IInv'
  <1> DEFINE n == Home[w]
             draft == [origin |-> n, sequence |-> 0, entity |-> e,
                       createdAt |-> 0, content |-> writes[n] + 1]
  <1> USE JournalAssumption
  <1>0. TypeOK /\ WriterHolds
    BY DEF IInv, JournalInv
  <1>a. n \in Nodes
    OBVIOUS
  <1>b. /\ writes \in [Nodes -> Nat]
        /\ writer \in [Writers -> WriterStates]
        /\ files \in [Nodes -> [Entities -> Contents]]
    BY <1>0 DEF TypeOK
  <1>1. writes[n] + 1 \in Nat
    <2>1. writes[n] \in Nat
      BY <1>a, <1>b
    <2> QED  BY <2>1
  <1>2. draft \in Ops /\ Bytes(draft) \in Contents
    BY <1>a, <1>1 DEF Ops, Bytes, Contents
  <1>3. /\ writes' = [writes EXCEPT ![n] = writes[n] + 1]
        /\ files' = [files EXCEPT ![n][e] = Bytes(draft)]
        /\ writer' = [writer EXCEPT ![w] = [pc |-> "written", op |-> draft]]
        /\ UNCHANGED <<time, originals, pending, clock, versions, applier,
                       net, faults>>
    BY DEF WriteBytes
  <1>4. TypeOK'
    <2>1. [pc |-> "written", op |-> draft] \in WriterStates
      BY <1>2 DEF WriterStates
    <2>2. writer' \in [Writers -> WriterStates]
      BY <1>b, <1>3, <2>1
    <2>3. writes' \in [Nodes -> Nat]
      BY <1>1, <1>b, <1>3
    <2>4. files' \in [Nodes -> [Entities -> Contents]]
      BY <1>b, <1>2, <1>3
    <2> QED  BY <1>0, <1>3, <2>2, <2>3, <2>4 DEF TypeOK
  <1>5. WriterHolds'
    <2>1. writer'[w] = [pc |-> "written", op |-> draft]
      BY <1>1, <1>b, <1>3
    <2>2. writer'[w].pc = "written" /\ writer'[w].op = draft /\ draft.origin = n
      BY <2>1
    <2>3. \A x \in Writers : x # w => writer'[x] = writer[x]
      BY <1>1, <1>b, <1>3
    <2> QED  BY <1>0, <1>2, <1>3, <2>2, <2>3 DEF WriterHolds
  <1>6. JournalInv'
    BY <1>3, <1>4, <1>5, JournalFrame DEF IInv
  <1>7. ApplierInv' /\ AppliedBeforeComplete'
    BY <1>3 DEF IInv, ApplierInv, ApplierOK, AppliedBeforeComplete, Covered,
           Completed
  <1> QED  BY <1>6, <1>7 DEF IInv

\* The commit of a local operation: the only step that makes an identity.
LEMMA AppendLocalStep ==
    ASSUME IInv, NEW w \in Writers, AppendLocal(w)
    PROVE  IInv'
  <1> DEFINE n == Home[w]
             draft == writer[w].op
             op == [origin |-> n, sequence |-> NextSequence(n),
                    entity |-> draft.entity, createdAt |-> WallClock(n),
                    content |-> draft.content]
  <1> USE JournalAssumption
  <1>0. /\ TypeOK /\ PendingReceived /\ AuthorHolds /\ Contiguous
        /\ UniqueIdentity /\ WriterHolds /\ ClockNeverAhead
        /\ ApplierInv /\ AppliedBeforeComplete
    BY DEF IInv, JournalInv
  <1>1. /\ n \in Nodes
        /\ writer \in [Writers -> WriterStates]
        /\ originals \in [Nodes -> SUBSET Ops]
        /\ time \in Nat
    BY <1>0 DEF TypeOK
  <1>2. PICK h \in Nat : {o.sequence : o \in OfOrigin(originals[n], n)} = 1..h
    BY <1>0, <1>1 DEF Contiguous
  <1>3. NextSequence(n) = h + 1
    BY <1>0, <1>1, <1>2, NextSequenceFollows
  <1>4. writer[w].op \in Ops /\ writer[w].op.origin = n
    BY <1>0 DEF AppendLocal, WriterHolds
  <1>5. op \in Ops /\ op.origin = n /\ op.sequence = h + 1
    <2>1. Offset[n] \in Nat
      BY <1>1
    <2>2. WallClock(n) \in Nat
      BY <1>1, <2>1 DEF WallClock
    <2>3. NextSequence(n) \in Nat
      BY <1>3
    <2>4. draft.entity \in Entities /\ draft.content \in Nat
      BY <1>4 DEF Ops
    <2>5. op \in Ops
      BY <1>1, <2>2, <2>3, <2>4 DEF Ops
    <2> QED  BY <1>3, <2>5
  <1>6. /\ originals' = [originals EXCEPT ![n] = originals[n] \cup {op}]
        /\ writer' = [writer EXCEPT ![w] = [pc |-> "logged", op |-> op]]
        /\ NoConflict(n, {op})
        /\ UNCHANGED <<time, writes, pending, clock, versions, files, applier,
                       net, faults>>
    BY DEF AppendLocal
  <1> HIDE DEF op
  <1>7. /\ originals'[n] = originals[n] \cup {op}
        /\ \A m \in Nodes : m # n => originals'[m] = originals[m]
        /\ \A m \in Nodes : originals[m] \subseteq originals'[m]
        /\ \A x \in Writers : x # w => writer'[x] = writer[x]
        /\ writer'[w] = [pc |-> "logged", op |-> op]
    BY <1>1, <1>6
  <1>8. TypeOK'
    <2>1. [pc |-> "logged", op |-> op] \in WriterStates
      BY <1>5 DEF WriterStates
    <2>2. writer' \in [Writers -> WriterStates]
      BY <1>1, <1>6, <2>1
    <2>3. originals' \in [Nodes -> SUBSET Ops]
      BY <1>1, <1>5, <1>6
    <2> QED  BY <1>0, <1>6, <2>2, <2>3 DEF TypeOK
  <1>9. PendingReceived'
    BY <1>0, <1>6, <1>7 DEF PendingReceived
  <1>10. AuthorHolds'
    <2>1. \A m \in Nodes : \A o \in originals[m] : o.origin \in Nodes
      BY <1>1 DEF Ops
    <2>2. \A msg \in net : \A o \in msg.ops : o.origin \in Nodes
      BY <1>0 DEF TypeOK, Ops
    <2> QED  BY <1>0, <1>1, <1>5, <1>6, <1>7, <2>1, <2>2 DEF AuthorHolds
  <1>11. Contiguous'
    <2>1. OfOrigin(originals[n], n)' = OfOrigin(originals[n], n) \cup {op}
      BY <1>5, <1>7 DEF OfOrigin
    <2>2. {o.sequence : o \in OfOrigin(originals[n], n)'} = (1..h) \cup {h + 1}
      BY <1>2, <1>5, <2>1
    <2>3. (1..h) \cup {h + 1} = 1..(h + 1)
      OBVIOUS
    <2>4. \A m \in Nodes : m # n => OfOrigin(originals[m], m)' = OfOrigin(originals[m], m)
      BY <1>7 DEF OfOrigin
    <2> QED  BY <1>0, <2>2, <2>3, <2>4 DEF Contiguous
  <1>12. UniqueIdentity'
    <2>1. \A p \in originals[n] : p.origin = n => p.sequence \in 1..h
      BY <1>2 DEF OfOrigin
    <2>2. \A p \in originals[n] : ~SameIdentity(op, p) /\ ~SameIdentity(p, op)
      BY <1>5, <2>1 DEF SameIdentity
    <2>3. ASSUME NEW o \in originals'[n], NEW p \in originals'[n],
                 SameIdentity(o, p)
          PROVE  o = p
      <3>1. CASE o \in originals[n] /\ p \in originals[n]
        BY <1>0, <1>1, <2>3, <3>1 DEF UniqueIdentity
      <3>2. CASE o = op \/ p = op
        BY <1>7, <2>2, <2>3, <3>2
      <3> QED  BY <1>7, <3>1, <3>2
    <2>4. \A m \in Nodes : m # n =>
             \A o, p \in originals'[m] : SameIdentity(o, p) => o = p
      BY <1>0, <1>7 DEF UniqueIdentity
    <2> QED  BY <2>3, <2>4 DEF UniqueIdentity, SameIdentity
  <1>13. WriterHolds'
    <2>1. writer'[w].pc = "logged" /\ writer'[w].op = op
      BY <1>7
    <2>2. op \in originals'[n]
      BY <1>7
    <2>3. \A x \in Writers : Home[x] \in Nodes
      OBVIOUS
    <2>4. ASSUME NEW x \in Writers, x # w
          PROVE  /\ writer'[x].pc # "idle" =>
                       writer'[x].op \in Ops /\ writer'[x].op.origin = Home[x]
                 /\ writer'[x].pc \in {"logged", "clocked"} =>
                       writer'[x].op \in originals'[Home[x]]
      BY <1>0, <1>7, <2>3, <2>4 DEF WriterHolds
    <2> QED  BY <1>5, <2>1, <2>2, <2>4 DEF WriterHolds
  <1>14. ClockNeverAhead'
    <2>1. \A m, x \in Nodes : OfOrigin(originals[m], x) \subseteq OfOrigin(originals[m], x)'
      BY <1>7 DEF OfOrigin
    <2> QED  BY <1>0, <1>6, <2>1 DEF ClockNeverAhead
  <1>15. ApplierInv'
    BY <1>0, <1>6 DEF ApplierInv, ApplierOK, Covered
  <1>16. AppliedBeforeComplete'
    <2> SUFFICES ASSUME NEW m \in Nodes, NEW o \in originals'[m], o \notin pending[m], o.origin # m
                 PROVE  ~Supersedes(o, versions[m][o.entity])
      BY <1>6 DEF AppliedBeforeComplete, Completed, Supersedes
    <2>1. o \in originals[m]
      BY <1>5, <1>7
    <2> QED
      BY <1>0, <2>1 DEF AppliedBeforeComplete, Completed
  <1> QED
    BY <1>8, <1>9, <1>10, <1>11, <1>12, <1>13, <1>14, <1>15, <1>16
       DEF IInv, JournalInv

\* Versions that give up nothing keep what the appliers and the completed
\* originals rely on.
LEMMA VersionFrame ==
    ASSUME TypeOK, ApplierInv, AppliedBeforeComplete,
           UNCHANGED <<originals, pending, applier>>,
           \A m \in Nodes : \A o \in Ops : Covered(m, o) => Covered(m, o)'
    PROVE  ApplierInv' /\ AppliedBeforeComplete'
  <1>1. /\ originals \in [Nodes -> SUBSET Ops]
        /\ applier \in [Nodes -> ApplierStates]
    BY DEF TypeOK
  <1>2. ASSUME NEW m \in Nodes PROVE ApplierOK(m)'
    <2>1. ApplierOK(m)
      BY DEF ApplierInv
    <2>2. applier[m].todo \subseteq Ops /\ applier[m].group \subseteq Ops
      BY <1>1 DEF ApplierStates
    <2>3. applier'[m] = applier[m] /\ pending'[m] = pending[m]
      OBVIOUS
    <2> QED  BY <2>1, <2>2, <2>3 DEF ApplierOK
  <1>3. AppliedBeforeComplete'
    BY <1>1 DEF AppliedBeforeComplete, Completed, Covered
  <1> QED  BY <1>2, <1>3 DEF ApplierInv

\* setSequence: the clock names the operation that was just committed.
LEMMA WriteClockStep ==
    ASSUME IInv, NEW w \in Writers, WriteClock(w)
    PROVE  IInv'
  <1> DEFINE n == Home[w]
             op == writer[w].op
  <1> USE JournalAssumption
  <1>0. /\ TypeOK /\ PendingReceived /\ AuthorHolds /\ Contiguous
        /\ UniqueIdentity /\ WriterHolds /\ ClockNeverAhead
        /\ ApplierInv /\ AppliedBeforeComplete
    BY DEF IInv, JournalInv
  <1>1. /\ n \in Nodes
        /\ writer \in [Writers -> WriterStates]
        /\ clock \in [Nodes -> [Nodes -> Nat]]
    BY <1>0 DEF TypeOK
  <1>2. op \in Ops /\ op.origin = n /\ op \in originals[n]
    BY <1>0 DEF WriteClock, WriterHolds
  <1>3. op.sequence \in Nat
    BY <1>2 DEF Ops
  <1>4. /\ clock' = [clock EXCEPT ![n][n] = op.sequence]
        /\ writer' = [writer EXCEPT ![w] = [pc |-> "clocked", op |-> op]]
        /\ UNCHANGED <<time, writes, originals, pending, versions, files, applier,
                       net, faults>>
    BY DEF WriteClock
  <1>5. TypeOK'
    <2>1. [pc |-> "clocked", op |-> op] \in WriterStates
      BY <1>2 DEF WriterStates
    <2>2. writer' \in [Writers -> WriterStates]
      BY <1>1, <1>4, <2>1
    <2>3. clock' \in [Nodes -> [Nodes -> Nat]]
      BY <1>1, <1>3, <1>4
    <2> QED  BY <1>0, <1>4, <2>2, <2>3 DEF TypeOK
  <1>6. WriterHolds'
    <2>1. writer'[w].pc = "clocked" /\ writer'[w].op = op
      BY <1>1, <1>4
    <2>2. \A x \in Writers : x # w => writer'[x] = writer[x]
      BY <1>1, <1>4
    <2> QED  BY <1>0, <1>2, <1>4, <2>1, <2>2 DEF WriterHolds
  <1>7. ClockNeverAhead'
    <2>1. clock'[n][n] = op.sequence
      BY <1>1, <1>4
    <2>2. \A x, m \in Nodes : x # n \/ m # n => clock'[x][m] = clock[x][m]
      BY <1>1, <1>4
    <2>3. op \in OfOrigin(originals[n], n)
      BY <1>2 DEF OfOrigin
    <2>4. \A x, m \in Nodes : clock'[x][m] # 0 =>
             \E o \in OfOrigin(originals[x], m) : o.sequence = clock'[x][m]
      BY <1>0, <2>1, <2>2, <2>3 DEF ClockNeverAhead
    <2> QED  BY <1>4, <2>4 DEF ClockNeverAhead, OfOrigin
  <1>8. PendingReceived' /\ AuthorHolds' /\ Contiguous' /\ UniqueIdentity'
    BY <1>0, <1>4 DEF PendingReceived, AuthorHolds, Contiguous, UniqueIdentity,
                      OfOrigin, SameIdentity
  <1>9. ApplierInv' /\ AppliedBeforeComplete'
    BY <1>0, <1>4, VersionFrame DEF Covered
  <1> QED  BY <1>5, <1>6, <1>7, <1>8, <1>9 DEF IInv, JournalInv

\* recordAppliedOperation at the end of a local write.
LEMMA RecordLocalStep ==
    ASSUME IInv, NEW w \in Writers, RecordLocal(w)
    PROVE  IInv'
  <1> DEFINE n == Home[w]
             op == writer[w].op
  <1> USE JournalAssumption
  <1>0. TypeOK /\ JournalInv /\ WriterHolds /\ ApplierInv /\ AppliedBeforeComplete
    BY DEF IInv, JournalInv
  <1>1. n \in Nodes /\ writer \in [Writers -> WriterStates]
    BY <1>0 DEF TypeOK
  <1>2. op \in Ops
    BY <1>0 DEF RecordLocal, WriterHolds
  <1>3. /\ versions' = Recorded(n, op)
        /\ writer' = [writer EXCEPT ![w] = IdleWriter]
        /\ UNCHANGED <<time, writes, originals, pending, clock, files, applier,
                       net, faults>>
    BY DEF RecordLocal
  <1>4. /\ versions' \in [Nodes -> [Entities -> Ops \cup {None}]]
        /\ \A m \in Nodes : \A o \in Ops : Covered(m, o) => Covered(m, o)'
    BY <1>0, <1>1, <1>2, <1>3, RecordedCovers DEF Covered
  <1>5. IdleWriter \in WriterStates
    BY DEF IdleWriter, WriterStates
  <1>6. TypeOK'
    <2>1. writer' \in [Writers -> WriterStates]
      BY <1>1, <1>3, <1>5
    <2> QED  BY <1>0, <1>3, <1>4, <2>1 DEF TypeOK
  <1>7. WriterHolds'
    <2>1. writer'[w].pc = "idle"
      BY <1>1, <1>3 DEF IdleWriter
    <2>2. \A x \in Writers : x # w => writer'[x] = writer[x]
      BY <1>1, <1>3
    <2> QED  BY <1>0, <1>3, <2>1, <2>2 DEF WriterHolds
  <1>8. JournalInv'
    BY <1>0, <1>3, <1>6, <1>7, JournalFrame
  <1>9. ApplierInv' /\ AppliedBeforeComplete'
    BY <1>0, <1>3, <1>4, VersionFrame
  <1> QED  BY <1>8, <1>9 DEF IInv

\* A write that fails leaves what it has written.
LEMMA FailWriteStep ==
    ASSUME IInv, NEW w \in Writers, FailWrite(w)
    PROVE  IInv'
  <1>0. TypeOK /\ JournalInv /\ WriterHolds /\ ApplierInv /\ AppliedBeforeComplete
    BY DEF IInv, JournalInv
  <1>1. writer \in [Writers -> WriterStates] /\ faults \in Nat
    BY <1>0 DEF TypeOK
  <1>3. /\ writer' = [writer EXCEPT ![w] = IdleWriter]
        /\ faults' = faults + 1
        /\ UNCHANGED <<time, writes, originals, pending, clock, versions, files,
                       applier, net>>
    BY DEF FailWrite, durable
  <1>5. IdleWriter \in WriterStates
    BY DEF IdleWriter, WriterStates
  <1>6. TypeOK'
    <2>1. writer' \in [Writers -> WriterStates]
      BY <1>1, <1>3, <1>5
    <2>2. faults' \in Nat
      BY <1>1, <1>3
    <2> QED  BY <1>0, <1>3, <2>1, <2>2 DEF TypeOK
  <1>7. WriterHolds'
    <2>1. writer'[w].pc = "idle"
      BY <1>1, <1>3 DEF IdleWriter
    <2>2. \A x \in Writers : x # w => writer'[x] = writer[x]
      BY <1>1, <1>3
    <2> QED  BY <1>0, <1>3, <2>1, <2>2 DEF WriterHolds
  <1>8. JournalInv'
    BY <1>0, <1>3, <1>6, <1>7, JournalFrame
  <1>9. ApplierInv' /\ AppliedBeforeComplete'
    BY <1>0, <1>3, VersionFrame DEF Covered
  <1> QED  BY <1>8, <1>9 DEF IInv

\* Time alone decides nothing.
LEMMA TickStep == ASSUME IInv, Tick PROVE IInv'
  <1>0. TypeOK /\ JournalInv /\ WriterHolds /\ ApplierInv /\ AppliedBeforeComplete
    BY DEF IInv, JournalInv
  <1>1. /\ time' = time + 1
        /\ UNCHANGED <<writes, originals, pending, clock, versions, files, writer,
                       applier, net, faults>>
    BY DEF Tick, durable
  <1>2. TypeOK'
    <2>1. time \in Nat
      BY <1>0 DEF TypeOK
    <2>2. time' \in Nat
      BY <1>1, <2>1
    <2> QED  BY <1>0, <1>1, <2>2 DEF TypeOK
  <1>3. WriterHolds'
    BY <1>0, <1>1 DEF WriterHolds
  <1>4. JournalInv'
    BY <1>0, <1>1, <1>2, <1>3, JournalFrame
  <1>5. ApplierInv' /\ AppliedBeforeComplete'
    BY <1>0, <1>1, VersionFrame DEF Covered
  <1> QED  BY <1>4, <1>5 DEF IInv

-----------------------------------------------------------------------------
(***************************************************************************)
(* The exchange.                                                           *)
(***************************************************************************)

\* A page holds originals of the exporting node.
LEMMA PageStored ==
    ASSUME NEW S PROVE Page(S) \subseteq S
  BY DEF Page, Winners

\* syncOperationsSince puts stored originals on the wire.
LEMMA ExportStep ==
    ASSUME IInv, NEW m \in Nodes, NEW n \in Nodes, Export(m, n)
    PROVE  IInv'
  <1> DEFINE page == Page(Missing(m, n))
             msg == [to |-> n, ops |-> page]
  <1>0. /\ TypeOK /\ PendingReceived /\ AuthorHolds /\ Contiguous
        /\ UniqueIdentity /\ WriterHolds /\ ClockNeverAhead
        /\ ApplierInv /\ AppliedBeforeComplete
    BY DEF IInv, JournalInv
  <1>1. /\ originals \in [Nodes -> SUBSET Ops]
        /\ net \subseteq [to : Nodes, ops : SUBSET Ops]
    BY <1>0 DEF TypeOK
  <1>2. page \subseteq originals[m] /\ page \subseteq Ops
    BY <1>1, PageStored DEF Missing
  <1>3. /\ net' = net \cup {msg}
        /\ UNCHANGED <<time, writes, originals, pending, clock, versions, files,
                       writer, applier, faults>>
    BY DEF Export, durable
  <1> HIDE DEF page
  <1>4. TypeOK'
    <2>1. net' \subseteq [to : Nodes, ops : SUBSET Ops]
      BY <1>1, <1>2, <1>3
    <2> QED  BY <1>0, <1>3, <2>1 DEF TypeOK
  <1>5. AuthorHolds'
    <2>1. \A o \in page : o \in originals[o.origin]
      BY <1>0, <1>2 DEF AuthorHolds
    <2>2. \A x \in net' : x \in net \/ x.ops = page
      BY <1>3
    <2> QED  BY <1>0, <1>3, <2>1, <2>2 DEF AuthorHolds
  <1>6. PendingReceived' /\ Contiguous' /\ UniqueIdentity' /\ ClockNeverAhead'
    BY <1>0, <1>3 DEF PendingReceived, Contiguous, UniqueIdentity,
                      ClockNeverAhead, OfOrigin, SameIdentity
  <1>7. WriterHolds'
    BY <1>0, <1>3 DEF WriterHolds
  <1>8. ApplierInv' /\ AppliedBeforeComplete'
    BY <1>0, <1>3, VersionFrame DEF Covered
  <1> QED  BY <1>4, <1>5, <1>6, <1>7, <1>8 DEF IInv, JournalInv

\* An applier that has nothing at hand is in order.
LEMMA FreshApplier ==
    ASSUME NEW n \in Nodes, applier'[n].todo = {}, applier'[n].group = {},
           applier'[n].pc \in {"idle", "plan", "choose"}
    PROVE  ApplierOK(n)'
  BY DEF ApplierOK

\* syncApplyOperations stores a page of originals which their authors hold.
LEMMA ReceiveStep ==
    ASSUME IInv, NEW n \in Nodes, NEW page \in SUBSET Ops,
           \A o \in page : o \in originals[o.origin],
           ReceivePage(n, page), net' \subseteq net, faults' \in Nat
    PROVE  IInv'
  <1> USE JournalAssumption
  <1>0. /\ TypeOK /\ PendingReceived /\ AuthorHolds /\ Contiguous
        /\ UniqueIdentity /\ WriterHolds /\ ClockNeverAhead
        /\ ApplierInv /\ AppliedBeforeComplete
    BY DEF IInv, JournalInv
  <1>1. /\ originals \in [Nodes -> SUBSET Ops]
        /\ pending \in [Nodes -> SUBSET Ops]
        /\ applier \in [Nodes -> ApplierStates]
        /\ net \subseteq [to : Nodes, ops : SUBSET Ops]
    BY <1>0 DEF TypeOK
  <1> DEFINE groups == {o.entity : o \in pending'[n]}
             fresh == Planning(groups)
  <1>2. /\ originals' = [originals EXCEPT ![n] = originals[n] \cup page]
        /\ pending' = [pending EXCEPT ![n] = pending[n] \cup (page \ originals[n])]
        /\ applier' = [applier EXCEPT ![n] = fresh]
        /\ NoConflict(n, page)
        /\ UNCHANGED <<time, writes, clock, versions, files, writer>>
    BY DEF ReceivePage, Received
  <1>3. /\ originals'[n] = originals[n] \cup page
        /\ pending'[n] = pending[n] \cup (page \ originals[n])
        /\ applier'[n] = fresh
        /\ \A m \in Nodes : m # n => /\ originals'[m] = originals[m]
                                     /\ pending'[m] = pending[m]
                                     /\ applier'[m] = applier[m]
    BY <1>1, <1>2
  <1>4. \A m \in Nodes : originals[m] \subseteq originals'[m]
    BY <1>3
  <1>5. pending'[n] \subseteq Ops
    BY <1>1, <1>3
  <1>6. fresh = [pc |-> "plan", groups |-> groups, mode |-> "batch",
                 group |-> {}, todo |-> {}, op |-> None]
    BY DEF Planning
  <1> HIDE DEF fresh
  <1>7. TypeOK'
    <2>1. originals' \in [Nodes -> SUBSET Ops] /\ pending' \in [Nodes -> SUBSET Ops]
      BY <1>1, <1>2
    <2>2. groups \subseteq Entities
      BY <1>5 DEF Ops
    <2>3. fresh \in ApplierStates
      BY <1>6, <2>2 DEF ApplierStates
    <2>4. applier' \in [Nodes -> ApplierStates]
      BY <1>1, <1>2, <2>3
    <2>5. net' \subseteq [to : Nodes, ops : SUBSET Ops]
      BY <1>1
    <2> QED  BY <1>0, <1>2, <2>1, <2>4, <2>5 DEF TypeOK
  <1>8. \A o \in page : o.origin = n => o \in originals[n]
    OBVIOUS
  <1>9. PendingReceived'
    BY <1>0, <1>3, <1>8 DEF PendingReceived
  <1>10. AuthorHolds'
    <2>1. \A o \in Ops : o.origin \in Nodes
      BY DEF Ops
    <2>2. \A o \in Ops : o \in originals[o.origin] => o \in originals'[o.origin]
      BY <1>4, <2>1
    <2>3. \A m \in Nodes : \A o \in originals'[m] : o \in originals[o.origin] /\ o \in Ops
      BY <1>0, <1>1, <1>3 DEF AuthorHolds
    <2>4. \A msg \in net' : \A o \in msg.ops : o \in originals[o.origin] /\ o \in Ops
      BY <1>0, <1>1 DEF AuthorHolds
    <2> QED  BY <2>2, <2>3, <2>4 DEF AuthorHolds
  <1>11. Contiguous'
    <2>1. \A m \in Nodes : OfOrigin(originals[m], m)' = OfOrigin(originals[m], m)
      BY <1>3, <1>8 DEF OfOrigin
    <2> QED  BY <1>0, <2>1 DEF Contiguous
  <1>12. UniqueIdentity'
    <2>1. ASSUME NEW o \in originals'[n], NEW p \in originals'[n],
                 SameIdentity(o, p)
          PROVE  o = p
      <3>1. CASE o \in originals[n] /\ p \in originals[n]
        BY <1>0, <2>1, <3>1 DEF UniqueIdentity
      <3>2. CASE o \in page
        BY <1>2, <1>3, <2>1, <3>2 DEF NoConflict
      <3>3. CASE p \in page
        <4>1. SameIdentity(p, o)
          BY <2>1 DEF SameIdentity
        <4> QED  BY <1>2, <1>3, <4>1, <3>3 DEF NoConflict
      <3> QED  BY <1>3, <3>1, <3>2, <3>3
    <2>2. \A m \in Nodes : m # n =>
             \A o, p \in originals'[m] : SameIdentity(o, p) => o = p
      BY <1>0, <1>3 DEF UniqueIdentity
    <2> QED  BY <2>1, <2>2 DEF UniqueIdentity, SameIdentity
  <1>13. WriterHolds'
    BY <1>0, <1>2, <1>4 DEF WriterHolds
  <1>14. ClockNeverAhead'
    <2>1. \A m, x \in Nodes : OfOrigin(originals[m], x) \subseteq OfOrigin(originals[m], x)'
      BY <1>4 DEF OfOrigin
    <2> QED  BY <1>0, <1>2, <2>1 DEF ClockNeverAhead
  <1>15. ApplierInv'
    <2>1. ApplierOK(n)'
      BY <1>3, <1>6, FreshApplier
    <2>2. ASSUME NEW m \in Nodes, m # n PROVE ApplierOK(m)'
      <3>1. ApplierOK(m)
        BY <1>0 DEF ApplierInv
      <3>2. applier'[m] = applier[m] /\ pending'[m] = pending[m] /\ versions' = versions
        BY <1>2, <1>3, <2>2
      <3> QED  BY <3>1, <3>2 DEF ApplierOK, Covered
    <2> QED  BY <2>1, <2>2 DEF ApplierInv
  <1>16. AppliedBeforeComplete'
    <2>1. \A m \in Nodes : Completed(m)' \subseteq Completed(m)
      BY <1>3 DEF Completed
    <2> QED  BY <1>0, <1>2, <2>1 DEF AppliedBeforeComplete
  <1> QED
    BY <1>7, <1>9, <1>10, <1>11, <1>12, <1>13, <1>14, <1>15, <1>16
       DEF IInv, JournalInv

\* A page that arrives, once or twice, or is lost.
LEMMA NetStep ==
    ASSUME IInv, NEW msg \in net,
           Deliver(msg) \/ DeliverTwice(msg) \/ Lose(msg)
    PROVE  IInv'
  <1>0. /\ TypeOK /\ PendingReceived /\ AuthorHolds /\ Contiguous
        /\ UniqueIdentity /\ WriterHolds /\ ClockNeverAhead
        /\ ApplierInv /\ AppliedBeforeComplete
    BY DEF IInv, JournalInv
  <1>1. net \subseteq [to : Nodes, ops : SUBSET Ops] /\ faults \in Nat
    BY <1>0 DEF TypeOK
  <1>2. msg.to \in Nodes /\ msg.ops \in SUBSET Ops
    BY <1>1
  <1>3. \A o \in msg.ops : o \in originals[o.origin]
    BY <1>0 DEF AuthorHolds
  <1>4. faults + 1 \in Nat
    BY <1>1
  <1>5. CASE Deliver(msg)
    BY <1>1, <1>2, <1>3, <1>5, ReceiveStep DEF Deliver
  <1>6. CASE DeliverTwice(msg)
    BY <1>4, <1>2, <1>3, <1>6, ReceiveStep DEF DeliverTwice
  <1>7. CASE Lose(msg)
    <2>1. /\ net' \subseteq net
          /\ faults' = faults + 1
          /\ UNCHANGED <<time, writes, originals, pending, clock, versions, files,
                         writer, applier>>
      BY <1>7 DEF Lose, durable
    <2>2. TypeOK'
      BY <1>0, <1>4, <2>1 DEF TypeOK
    <2>3. WriterHolds' /\ AuthorHolds'
      BY <1>0, <2>1 DEF WriterHolds, AuthorHolds
    <2>4. PendingReceived' /\ Contiguous' /\ UniqueIdentity' /\ ClockNeverAhead'
      BY <1>0, <2>1 DEF PendingReceived, Contiguous, UniqueIdentity,
                        ClockNeverAhead, OfOrigin, SameIdentity
    <2>5. ApplierInv' /\ AppliedBeforeComplete'
      BY <1>0, <2>1, VersionFrame DEF Covered
    <2> QED  BY <2>2, <2>3, <2>4, <2>5 DEF IInv, JournalInv
  <1> QED  BY <1>5, <1>6, <1>7

\* The empty page that makes a node try its pending originals again.
LEMMA RetryStep ==
    ASSUME IInv, NEW n \in Nodes, RetryPending(n)
    PROVE  IInv'
  <1>1. faults \in Nat
    BY DEF IInv, JournalInv, TypeOK
  <1>2. ReceivePage(n, {}) /\ net' = net /\ faults' = faults
    BY DEF RetryPending
  <1>3. {} \in SUBSET Ops /\ \A o \in {} : o \in originals[o.origin]
    OBVIOUS
  <1> QED  BY <1>1, <1>2, <1>3, ReceiveStep

-----------------------------------------------------------------------------
(***************************************************************************)
(* The applier.                                                            *)
(***************************************************************************)

\* A step of the applier of one node that leaves the journal alone.
LEMMA ApplierMove ==
    ASSUME IInv, NEW n \in Nodes, NEW a \in ApplierStates,
           applier' = [applier EXCEPT ![n] = a], ApplierOK(n)', faults' \in Nat,
           files' \in [Nodes -> [Entities -> Contents]],
           versions' \in [Nodes -> [Entities -> Ops \cup {None}]],
           \A m \in Nodes : \A o \in Ops : Covered(m, o) => Covered(m, o)',
           UNCHANGED <<time, writes, originals, pending, clock, writer, net>>
    PROVE  IInv'
  <1>0. TypeOK /\ JournalInv /\ WriterHolds /\ ApplierInv /\ AppliedBeforeComplete
    BY DEF IInv, JournalInv
  <1>1. /\ applier \in [Nodes -> ApplierStates]
        /\ originals \in [Nodes -> SUBSET Ops]
    BY <1>0 DEF TypeOK
  <1>2. TypeOK'
    <2>1. applier' \in [Nodes -> ApplierStates]
      BY <1>1
    <2> QED  BY <1>0, <2>1 DEF TypeOK
  <1>3. WriterHolds'
    BY <1>0 DEF WriterHolds
  <1>4. JournalInv'
    BY <1>0, <1>2, <1>3, JournalFrame
  <1>5. ASSUME NEW m \in Nodes PROVE ApplierOK(m)'
    <2>1. CASE m = n
      BY <2>1
    <2>2. CASE m # n
      <3>1. ApplierOK(m)
        BY <1>0 DEF ApplierInv
      <3>2. applier'[m] = applier[m] /\ pending'[m] = pending[m]
        BY <1>1, <2>2
      <3>3. applier[m].todo \subseteq Ops /\ applier[m].group \subseteq Ops
        BY <1>1 DEF ApplierStates
      <3> QED  BY <3>1, <3>2, <3>3 DEF ApplierOK
    <2> QED  BY <2>1, <2>2
  <1>6. AppliedBeforeComplete'
    BY <1>0, <1>1 DEF AppliedBeforeComplete, Completed, Covered
  <1> QED  BY <1>4, <1>5, <1>6 DEF IInv, ApplierInv

\* What an applier holds, by type and by ApplierInv.
LEMMA ApplierHolds ==
    ASSUME IInv, NEW n \in Nodes
    PROVE  /\ applier \in [Nodes -> ApplierStates]
           /\ applier[n] \in ApplierStates
           /\ applier[n].groups \subseteq Entities
           /\ applier[n].mode \in {"batch", "single"}
           /\ applier[n].group \subseteq Ops
           /\ applier[n].todo \subseteq Ops
           /\ pending[n] \subseteq Ops
           /\ faults \in Nat
           /\ files \in [Nodes -> [Entities -> Contents]]
           /\ versions \in [Nodes -> [Entities -> Ops \cup {None}]]
           /\ ApplierOK(n)
  <1>1. /\ applier \in [Nodes -> ApplierStates]
        /\ pending \in [Nodes -> SUBSET Ops]
        /\ faults \in Nat
        /\ files \in [Nodes -> [Entities -> Contents]]
        /\ versions \in [Nodes -> [Entities -> Ops \cup {None}]]
    BY DEF IInv, JournalInv, TypeOK
  <1>2. applier[n] \in ApplierStates
    BY <1>1
  <1>3. ApplierOK(n)
    BY DEF IInv, ApplierInv
  <1> QED  BY <1>1, <1>2, <1>3 DEF ApplierStates

\* Registry::receive takes the pending originals of a dataset.
LEMMA NextGroupStep ==
    ASSUME IInv, NEW n \in Nodes, NEW e \in Entities, NextGroup(n, e)
    PROVE  IInv'
  <1> DEFINE group == {o \in pending[n] : o.entity = e}
             groups == applier[n].groups \ {e}
             a == Choosing(groups, "batch", group, group)
  <1>1. /\ applier' = [applier EXCEPT ![n] = a]
        /\ UNCHANGED <<time, writes, originals, pending, clock, versions, files,
                       writer, net, faults>>
    BY DEF NextGroup, durable
  <1>2. group \subseteq Ops /\ groups \subseteq Entities /\ group \subseteq pending[n]
    BY ApplierHolds
  <1> HIDE DEF group, groups
  <1>3. /\ a \in ApplierStates /\ a.pc = "choose" /\ a.mode = "batch"
        /\ a.group = group /\ a.todo = group
    BY <1>2 DEF Choosing, ApplierStates
  <1> HIDE DEF a
  <1>4. applier'[n] = a
    BY <1>1, ApplierHolds
  <1>5. ApplierOK(n)'
    BY <1>1, <1>2, <1>3, <1>4 DEF ApplierOK
  <1> QED  BY <1>1, <1>3, <1>5, ApplierHolds, ApplierMove DEF Covered

\* The application lock is released.
LEMMA EndReceiveStep ==
    ASSUME IInv, NEW n \in Nodes, EndReceive(n)
    PROVE  IInv'
  <1>1. /\ applier' = [applier EXCEPT ![n] = IdleApplier]
        /\ UNCHANGED <<time, writes, originals, pending, clock, versions, files,
                       writer, net, faults>>
    BY DEF EndReceive, durable
  <1>2. /\ IdleApplier \in ApplierStates /\ IdleApplier.todo = {}
        /\ IdleApplier.group = {} /\ IdleApplier.pc = "idle"
    BY DEF IdleApplier, ApplierStates
  <1>3. applier'[n] = IdleApplier
    BY <1>1, ApplierHolds
  <1>4. ApplierOK(n)'
    BY <1>2, <1>3, FreshApplier
  <1> QED  BY <1>1, <1>2, <1>4, ApplierHolds, ApplierMove DEF Covered

\* shouldApplyOperation: what is skipped is covered already.
LEMMA CheckStep ==
    ASSUME IInv, NEW n \in Nodes, NEW o \in pending[n], Check(n, o)
    PROVE  IInv'
  <1> DEFINE pc == IF Supersedes(o, versions[n][o.entity]) THEN "write" ELSE "append"
             a == [applier[n] EXCEPT !.pc = pc, !.op = o]
  <1>1. /\ o \in applier[n].todo
        /\ applier' = [applier EXCEPT ![n] = a]
        /\ UNCHANGED <<time, writes, originals, pending, clock, versions, files,
                       writer, net, faults>>
    BY DEF Check, durable
  <1>2. /\ pc \in {"write", "append"}
        /\ pc = "append" => ~Supersedes(o, versions[n][o.entity])
    OBVIOUS
  <1>3. o \in Ops
    BY ApplierHolds
  <1> HIDE DEF pc
  <1>4. /\ a \in ApplierStates /\ a.pc = pc /\ a.op = o
        /\ a.mode = applier[n].mode /\ a.group = applier[n].group
        /\ a.todo = applier[n].todo
    BY <1>2, <1>3, ApplierHolds DEF ApplierStates
  <1> HIDE DEF a
  <1>5. applier'[n] = a
    BY <1>1, ApplierHolds
  <1>6. ApplierOK(n)'
    BY <1>1, <1>2, <1>4, <1>5, ApplierHolds DEF ApplierOK, Covered
  <1> QED  BY <1>1, <1>4, <1>6, ApplierHolds, ApplierMove DEF Covered

\* applySyncedOperation changes the file and nothing of the journal.
LEMMA MaterializeStep ==
    ASSUME IInv, NEW n \in Nodes, Materialize(n)
    PROVE  IInv'
  <1> DEFINE op == applier[n].op
             a == [applier[n] EXCEPT !.pc = "record"]
  <1>1. /\ applier[n].pc = "write"
        /\ files' = [files EXCEPT ![n][op.entity] = Bytes(op)]
        /\ applier' = [applier EXCEPT ![n] = a]
        /\ UNCHANGED <<time, writes, originals, pending, clock, versions, writer,
                       net, faults>>
    BY DEF Materialize, Working
  <1>2. op \in applier[n].todo /\ op \in Ops
    BY <1>1, ApplierHolds DEF ApplierOK
  <1>3. op.entity \in Entities /\ Bytes(op) \in Contents
    BY <1>2 DEF Ops, Bytes, Contents
  <1>4. files' \in [Nodes -> [Entities -> Contents]]
    BY <1>1, <1>3, ApplierHolds
  <1>5. /\ a \in ApplierStates /\ a.pc = "record" /\ a.op = op
        /\ a.mode = applier[n].mode /\ a.group = applier[n].group
        /\ a.todo = applier[n].todo
    BY ApplierHolds DEF ApplierStates
  <1> HIDE DEF a
  <1>6. applier'[n] = a
    BY <1>1, ApplierHolds
  <1>7. ApplierOK(n)'
    BY <1>1, <1>2, <1>5, <1>6, ApplierHolds DEF ApplierOK, Covered
  <1> QED  BY <1>1, <1>4, <1>5, <1>7, ApplierHolds, ApplierMove DEF Covered

\* recordAppliedOperation after a remote operation was materialized.
LEMMA RecordRemoteStep ==
    ASSUME IInv, NEW n \in Nodes, RecordRemote(n)
    PROVE  IInv'
  <1> DEFINE op == applier[n].op
             a == [applier[n] EXCEPT !.pc = "append"]
  <1>1. /\ applier[n].pc = "record"
        /\ versions' = Recorded(n, op)
        /\ applier' = [applier EXCEPT ![n] = a]
        /\ UNCHANGED <<time, writes, originals, pending, clock, files, writer,
                       net, faults>>
    BY DEF RecordRemote, Working
  <1>2. op \in applier[n].todo /\ op \in Ops
    BY <1>1, ApplierHolds DEF ApplierOK
  <1>3. TypeOK
    BY DEF IInv, JournalInv
  <1>4. /\ versions' \in [Nodes -> [Entities -> Ops \cup {None}]]
        /\ \A m \in Nodes : \A o \in Ops : Covered(m, o) => Covered(m, o)'
        /\ Covered(n, op)'
    BY <1>1, <1>2, <1>3, RecordedCovers DEF Covered
  <1>5. /\ a \in ApplierStates /\ a.pc = "append" /\ a.op = op
        /\ a.mode = applier[n].mode /\ a.group = applier[n].group
        /\ a.todo = applier[n].todo
    BY ApplierHolds DEF ApplierStates
  <1> HIDE DEF a
  <1>6. applier'[n] = a
    BY <1>1, ApplierHolds
  <1>7. ApplierOK(n)'
    BY <1>1, <1>2, <1>4, <1>5, <1>6, ApplierHolds DEF ApplierOK
  <1> QED  BY <1>1, <1>4, <1>5, <1>7, ApplierHolds, ApplierMove

\* appendOperation: the clock only ever takes the sequence of a stored original.
LEMMA AppendStep ==
    ASSUME IInv, NEW n \in Nodes, Append(n)
    PROVE  IInv'
  <1> DEFINE op == applier[n].op
             a == [applier[n] EXCEPT !.pc = "applied"]
             c == Larger(clock[n][op.origin], op.sequence)
  <1>0. /\ TypeOK /\ PendingReceived /\ AuthorHolds /\ Contiguous
        /\ UniqueIdentity /\ WriterHolds /\ ClockNeverAhead
        /\ ApplierInv /\ AppliedBeforeComplete
    BY DEF IInv, JournalInv
  <1>1. /\ applier[n].pc = "append"
        /\ clock' = [clock EXCEPT ![n][op.origin] = c]
        /\ applier' = [applier EXCEPT ![n] = a]
        /\ UNCHANGED <<time, writes, originals, pending, versions, files, writer,
                       net, faults>>
    BY DEF Append, Working
  <1>2. op \in applier[n].todo /\ op \in Ops /\ op \in originals[n]
    BY <1>0, <1>1, ApplierHolds DEF ApplierOK, PendingReceived
  <1>3. /\ op.origin \in Nodes /\ op.sequence \in Nat
        /\ clock \in [Nodes -> [Nodes -> Nat]]
    BY <1>0, <1>2 DEF Ops, TypeOK
  <1>4. c \in {clock[n][op.origin], op.sequence} /\ c \in Nat
    BY <1>3 DEF Larger
  <1>5. /\ a \in ApplierStates /\ a.pc = "applied" /\ a.op = op
        /\ a.mode = applier[n].mode /\ a.group = applier[n].group
        /\ a.todo = applier[n].todo
    BY ApplierHolds DEF ApplierStates
  <1> HIDE DEF a, c
  <1>6. /\ applier'[n] = a
        /\ \A m \in Nodes : m # n => applier'[m] = applier[m]
        /\ applier' \in [Nodes -> ApplierStates]
    BY <1>1, <1>5, ApplierHolds
  <1>7. TypeOK'
    <2>1. clock' \in [Nodes -> [Nodes -> Nat]]
      BY <1>1, <1>3, <1>4
    <2> QED  BY <1>0, <1>1, <1>6, <2>1 DEF TypeOK
  <1>8. ClockNeverAhead'
    <2>1. clock'[n][op.origin] = c
      BY <1>1, <1>3
    <2>2. \A x, m \in Nodes : x # n \/ m # op.origin => clock'[x][m] = clock[x][m]
      BY <1>1, <1>3
    <2>3. op \in OfOrigin(originals[n], op.origin)
      BY <1>2 DEF OfOrigin
    <2>4. \A x, m \in Nodes : clock'[x][m] # 0 =>
             \E o \in OfOrigin(originals[x], m) : o.sequence = clock'[x][m]
      BY <1>0, <1>3, <1>4, <2>1, <2>2, <2>3 DEF ClockNeverAhead
    <2> QED  BY <1>1, <2>4 DEF ClockNeverAhead, OfOrigin
  <1>9. PendingReceived' /\ AuthorHolds' /\ Contiguous' /\ UniqueIdentity' /\ WriterHolds'
    BY <1>0, <1>1 DEF PendingReceived, AuthorHolds, Contiguous, UniqueIdentity,
                      OfOrigin, SameIdentity, WriterHolds
  <1>10. ApplierInv'
    <2>1. ApplierOK(n)'
      BY <1>1, <1>2, <1>5, <1>6, ApplierHolds DEF ApplierOK, Covered
    <2>2. ASSUME NEW m \in Nodes, m # n PROVE ApplierOK(m)'
      BY <1>0, <1>1, <1>6, <2>2 DEF ApplierInv, ApplierOK, Covered
    <2> QED  BY <2>1, <2>2 DEF ApplierInv
  <1>11. AppliedBeforeComplete'
    BY <1>0, <1>1 DEF AppliedBeforeComplete, Completed
  <1> QED  BY <1>7, <1>8, <1>9, <1>10, <1>11 DEF IInv, JournalInv

\* Journal::complete: only what the entity version covers is acknowledged.
LEMMA CompleteStep ==
    ASSUME IInv, NEW n \in Nodes, Complete(n)
    PROVE  IInv'
  <1> DEFINE o == applier[n].op
             mode == applier[n].mode
             group == applier[n].group
             rest == applier[n].todo \ {o}
             done == IF mode = "single" THEN {o}
                     ELSE IF rest = {} THEN group ELSE {}
             a == Advance(n, rest, mode)
  <1>0. /\ TypeOK /\ PendingReceived /\ AuthorHolds /\ Contiguous
        /\ UniqueIdentity /\ WriterHolds /\ ClockNeverAhead
        /\ ApplierInv /\ AppliedBeforeComplete
    BY DEF IInv, JournalInv
  <1>1. /\ applier[n].pc = "applied"
        /\ pending' = [pending EXCEPT ![n] = pending[n] \ done]
        /\ applier' = [applier EXCEPT ![n] = a]
        /\ UNCHANGED <<time, writes, originals, clock, versions, files, writer,
                       net, faults>>
    BY DEF Complete, Working
  <1>2. /\ o \in applier[n].todo /\ Covered(n, o)
        /\ applier[n].todo \subseteq group /\ applier[n].todo \subseteq pending[n]
        /\ mode = "batch" => /\ group \subseteq pending[n]
                             /\ \A p \in group \ applier[n].todo : Covered(n, p)
    BY <1>1, ApplierHolds DEF ApplierOK
  <1>3. /\ mode \in {"batch", "single"} /\ group \subseteq Ops /\ rest \subseteq Ops
        /\ applier[n].groups \subseteq Entities
    BY ApplierHolds
  <1>4. /\ \A p \in done : Covered(n, p)
        /\ done \cap rest = {}
        /\ mode = "batch" /\ rest # {} => done = {}
    BY <1>2, <1>3
  <1>5. /\ a \in ApplierStates
        /\ rest = {} => a.todo = {} /\ a.group = {} /\ a.pc = "plan"
        /\ rest # {} => a.todo = rest /\ a.group = group /\ a.pc = "choose"
                         /\ a.mode = mode
    BY <1>3 DEF Advance, Planning, Choosing, ApplierStates
  <1>6. \A p \in group \ rest : mode = "batch" => Covered(n, p)
    BY <1>2
  <1>p. pending \in [Nodes -> SUBSET Ops]
    BY <1>0 DEF TypeOK
  <1>7. /\ applier'[n] = a
        /\ \A m \in Nodes : m # n => applier'[m] = applier[m] /\ pending'[m] = pending[m]
        /\ applier' \in [Nodes -> ApplierStates]
        /\ pending'[n] = pending[n] \ done
        /\ pending' \in [Nodes -> SUBSET Ops]
    BY <1>1, <1>5, <1>p, ApplierHolds
  <1>q. rest \subseteq applier[n].todo
    OBVIOUS
  <1> HIDE DEF a, done, rest, group, mode, o
  <1>8. TypeOK'
    BY <1>0, <1>1, <1>7 DEF TypeOK
  <1>9. PendingReceived'
    BY <1>0, <1>1, <1>7 DEF PendingReceived
  <1>10. /\ AuthorHolds' /\ Contiguous' /\ UniqueIdentity' /\ WriterHolds'
         /\ ClockNeverAhead'
    BY <1>0, <1>1 DEF AuthorHolds, Contiguous, UniqueIdentity, OfOrigin,
                      SameIdentity, WriterHolds, ClockNeverAhead
  <1>11. ApplierInv'
    <2>1. rest = {} => ApplierOK(n)'
      BY <1>5, <1>7, FreshApplier
    <2>2. ASSUME rest # {} PROVE ApplierOK(n)'
      <3>1. rest \subseteq pending'[n] /\ rest \subseteq group
        BY <1>2, <1>4, <1>7, <1>q
      <3>2. mode = "batch" => group \subseteq pending'[n]
        BY <1>2, <1>4, <1>7, <2>2
      <3>3. \A p \in group \ rest : mode = "batch" => Covered(n, p)'
        BY <1>1, <1>6 DEF Covered
      <3> QED  BY <1>5, <1>7, <2>2, <3>1, <3>2, <3>3 DEF ApplierOK
    <2>3. ASSUME NEW m \in Nodes, m # n PROVE ApplierOK(m)'
      BY <1>0, <1>1, <1>7, <2>3 DEF ApplierInv, ApplierOK, Covered
    <2> QED  BY <2>1, <2>2, <2>3 DEF ApplierInv
  <1>12. AppliedBeforeComplete'
    <2>1. Completed(n)' \subseteq Completed(n) \cup done
      BY <1>1, <1>7 DEF Completed
    <2>2. \A m \in Nodes : m # n => Completed(m)' = Completed(m)
      BY <1>1, <1>7 DEF Completed
    <2>3. ASSUME NEW m \in Nodes, NEW p \in Completed(m)', p.origin # m
          PROVE  ~Supersedes(p, versions'[m][p.entity])
      BY <1>0, <1>1, <1>4, <2>1, <2>2, <2>3 DEF AppliedBeforeComplete, Covered
    <2> QED  BY <2>3 DEF AppliedBeforeComplete
  <1> QED  BY <1>8, <1>9, <1>10, <1>11, <1>12 DEF IInv, JournalInv

\* A failed batch starts over one by one, a failed operation stays pending.
LEMMA FailApplyStep ==
    ASSUME IInv, NEW n \in Nodes, FailApply(n)
    PROVE  IInv'
  <1> DEFINE b == applier[n]
             rest == IF b.mode = "batch"
                     THEN IF b.group = {b.op} THEN {} ELSE b.group
                     ELSE b.todo \ {b.op}
             a == Advance(n, rest, "single")
  <1>1. /\ applier' = [applier EXCEPT ![n] = a]
        /\ faults' = faults + 1
        /\ UNCHANGED <<time, writes, originals, pending, clock, versions, files,
                       writer, net>>
    BY DEF FailApply, durable
  <1>2. rest \subseteq b.group /\ rest \subseteq pending[n]
    BY ApplierHolds DEF ApplierOK
  <1>3. b.group \subseteq Ops /\ rest \subseteq Ops /\ b.groups \subseteq Entities
    BY <1>2, ApplierHolds
  <1> HIDE DEF rest
  <1>4. /\ a \in ApplierStates
        /\ rest = {} => a.todo = {} /\ a.group = {} /\ a.pc = "plan"
        /\ rest # {} => a.todo = rest /\ a.group = b.group /\ a.pc = "choose"
                         /\ a.mode = "single"
    BY <1>3 DEF Advance, Planning, Choosing, ApplierStates
  <1> HIDE DEF a
  <1>5. applier'[n] = a
    BY <1>1, ApplierHolds
  <1>6. faults' \in Nat
    <2>1. faults \in Nat
      BY ApplierHolds
    <2> QED  BY <1>1, <2>1
  <1>7. ApplierOK(n)'
    <2>1. rest = {} => ApplierOK(n)'
      BY <1>4, <1>5, FreshApplier
    <2>2. rest # {} => ApplierOK(n)'
      BY <1>1, <1>2, <1>4, <1>5 DEF ApplierOK
    <2> QED  BY <2>1, <2>2
  <1> QED  BY <1>1, <1>4, <1>6, <1>7, ApplierHolds, ApplierMove DEF Covered

\* A crash: the threads of the node are gone, its files stay.
LEMMA CrashStep ==
    ASSUME IInv, NEW n \in Nodes, Crash(n)
    PROVE  IInv'
  <1>0. TypeOK /\ JournalInv /\ WriterHolds /\ ApplierInv /\ AppliedBeforeComplete
    BY DEF IInv, JournalInv
  <1>1. /\ writer' = [w \in Writers |-> IF Home[w] = n THEN IdleWriter ELSE writer[w]]
        /\ applier' = [applier EXCEPT ![n] = IdleApplier]
        /\ faults' = faults + 1
        /\ UNCHANGED <<time, writes, originals, pending, clock, versions, files, net>>
    BY DEF Crash, durable
  <1>2. /\ IdleApplier \in ApplierStates /\ IdleApplier.todo = {}
        /\ IdleApplier.group = {} /\ IdleApplier.pc = "idle"
        /\ IdleWriter \in WriterStates /\ IdleWriter.pc = "idle"
    BY DEF IdleApplier, ApplierStates, IdleWriter, WriterStates
  <1>3. writer \in [Writers -> WriterStates]
    BY <1>0 DEF TypeOK
  <1>4. TypeOK'
    <2>1. applier' \in [Nodes -> ApplierStates]
      BY <1>1, <1>2, ApplierHolds
    <2>2. writer' \in [Writers -> WriterStates]
      BY <1>1, <1>2, <1>3
    <2>3. faults \in Nat
      BY <1>0 DEF TypeOK
    <2>4. faults' \in Nat
      BY <1>1, <2>3
    <2> QED  BY <1>0, <1>1, <2>1, <2>2, <2>4 DEF TypeOK
  <1>5. WriterHolds'
    <2>1. \A w \in Writers : writer'[w] = writer[w] \/ writer'[w].pc = "idle"
      BY <1>1, <1>2
    <2> QED  BY <1>0, <1>1, <2>1 DEF WriterHolds
  <1>6. JournalInv'
    BY <1>0, <1>1, <1>4, <1>5, JournalFrame
  <1>7. ApplierInv'
    <2>1. applier'[n] = IdleApplier /\ \A m \in Nodes : m # n => applier'[m] = applier[m]
      BY <1>1, ApplierHolds
    <2>2. ApplierOK(n)'
      BY <1>2, <2>1, FreshApplier
    <2>3. ASSUME NEW m \in Nodes, m # n PROVE ApplierOK(m)'
      BY <1>0, <1>1, <2>1, <2>3 DEF ApplierInv, ApplierOK, Covered
    <2> QED  BY <2>2, <2>3 DEF ApplierInv
  <1>8. AppliedBeforeComplete'
    BY <1>0, <1>1 DEF AppliedBeforeComplete, Completed
  <1> QED  BY <1>6, <1>7, <1>8 DEF IInv

-----------------------------------------------------------------------------
(***************************************************************************)
(* The theorems.                                                           *)
(***************************************************************************)

\* Every step of every thread, and every fault, preserves the invariant.
LEMMA NextIInv == IInv /\ [Next]_vars => IInv'
  <1> SUFFICES ASSUME IInv, [Next]_vars PROVE IInv'
    OBVIOUS
  <1>1. CASE Tick
    BY <1>1, TickStep
  <1>2. ASSUME NEW w \in Writers, NEW e \in Entities, WriteBytes(w, e) PROVE IInv'
    BY <1>2, WriteBytesStep
  <1>3. ASSUME NEW w \in Writers, WriterStep(w) PROVE IInv'
    BY <1>3, AppendLocalStep, WriteClockStep, RecordLocalStep DEF WriterStep
  <1>4. ASSUME NEW w \in Writers, FailWrite(w) PROVE IInv'
    BY <1>4, FailWriteStep
  <1>5. ASSUME NEW m \in Nodes, NEW n \in Nodes, Export(m, n) PROVE IInv'
    BY <1>5, ExportStep
  <1>6. ASSUME NEW msg \in net, Deliver(msg) \/ DeliverTwice(msg) \/ Lose(msg)
        PROVE  IInv'
    BY <1>6, NetStep
  <1>7. ASSUME NEW n \in Nodes, RetryPending(n) PROVE IInv'
    BY <1>7, RetryStep
  <1>8. ASSUME NEW n \in Nodes, ApplierStep(n) PROVE IInv'
    BY <1>8, NextGroupStep, EndReceiveStep, CheckStep, MaterializeStep,
       RecordRemoteStep, AppendStep, CompleteStep DEF ApplierStep
  <1>9. ASSUME NEW n \in Nodes, FailApply(n) PROVE IInv'
    BY <1>9, FailApplyStep
  <1>10. ASSUME NEW n \in Nodes, Crash(n) PROVE IInv'
    BY <1>10, CrashStep
  <1>11. CASE UNCHANGED vars
    <2>1. TypeOK /\ JournalInv /\ WriterHolds /\ ApplierInv /\ AppliedBeforeComplete
      BY DEF IInv, JournalInv
    <2>2. TypeOK' /\ WriterHolds'
      BY <1>11, <2>1 DEF vars, TypeOK, WriterHolds
    <2>3. UNCHANGED <<originals, pending, clock, net, applier, versions>>
      BY <1>11 DEF vars
    <2>4. JournalInv'
      BY <2>1, <2>2, <2>3, JournalFrame
    <2>5. ApplierInv' /\ AppliedBeforeComplete'
      BY <2>1, <2>3, VersionFrame DEF Covered
    <2> QED  BY <2>4, <2>5 DEF IInv
  <1> QED
    BY <1>1, <1>2, <1>3, <1>4, <1>5, <1>6, <1>7, <1>8, <1>9, <1>10, <1>11 DEF Next

\* The invariant holds throughout.
THEOREM Invariant == Spec => []IInv
  BY InitIInv, NextIInv, PTL DEF Spec

\* The tables, files and threads of every node keep their types.
THEOREM TypeCorrect == Spec => []TypeOK
  <1>1. IInv => TypeOK
    BY DEF IInv, JournalInv
  <1> QED  BY <1>1, Invariant, PTL

\* appendLocalOperation never gives out a sequence twice, whatever step of an
\* earlier write a crash or an error cut off.
THEOREM SequencesFresh == Spec => []FreshSequence
  <1>1. ASSUME IInv PROVE FreshSequence
    <2> USE JournalAssumption
    <2>0. /\ TypeOK /\ AuthorHolds /\ Contiguous /\ ClockNeverAhead
      BY <1>1 DEF IInv, JournalInv
    <2>1. ASSUME NEW n \in Nodes, NEW o \in originals[n], o.origin = n
          PROVE  o.sequence < NextSequence(n)
      <3>1. PICK h \in Nat : {p.sequence : p \in OfOrigin(originals[n], n)} = 1..h
        BY <2>0 DEF Contiguous
      <3>2. NextSequence(n) = h + 1
        BY <2>0, <3>1, NextSequenceFollows
      <3>3. o \in OfOrigin(originals[n], n)
        BY <2>1 DEF OfOrigin
      <3>4. o.sequence \in 1..h
        BY <3>1, <3>3
      <3> QED  BY <3>2, <3>4
    <2>2. ASSUME NEW n \in Nodes, NEW m \in Nodes, NEW o \in OfOrigin(originals[m], n)
          PROVE  o.sequence < NextSequence(n)
      <3>1. o.origin = n /\ o \in originals[n]
        BY <2>0 DEF OfOrigin, AuthorHolds
      <3> QED  BY <2>1, <3>1
    <2>3. ASSUME NEW n \in Nodes, NEW msg \in net, NEW o \in OfOrigin(msg.ops, n)
          PROVE  o.sequence < NextSequence(n)
      <3>1. o.origin = n /\ o \in originals[n]
        BY <2>0 DEF OfOrigin, AuthorHolds
      <3> QED  BY <2>1, <3>1
    <2> QED  BY <2>2, <2>3 DEF FreshSequence
  <1> QED  BY <1>1, Invariant, PTL

\* The vector clock a node answers probes with names committed originals only.
THEOREM ClockCommitted == Spec => []ClockNeverAhead
  <1>1. IInv => ClockNeverAhead
    BY DEF IInv, JournalInv
  <1> QED  BY <1>1, Invariant, PTL

\* Registry::receive acknowledges an operation of another node only once the
\* entity version has caught up with it.
THEOREM CompletedIsApplied == Spec => []AppliedBeforeComplete
  <1>1. IInv => AppliedBeforeComplete
    BY DEF IInv
  <1> QED  BY <1>1, Invariant, PTL

\* The fingerprint conflict of Journal::put cannot arise between nodes.
THEOREM IdentitiesAgree == Spec => []OneOriginalPerIdentity
  <1>1. ASSUME IInv PROVE OneOriginalPerIdentity
    <2>0. TypeOK /\ AuthorHolds /\ UniqueIdentity
      BY <1>1 DEF IInv, JournalInv
    <2>1. originals \in [Nodes -> SUBSET Ops]
      BY <2>0 DEF TypeOK
    <2>2. ASSUME NEW m \in Nodes, NEW n \in Nodes, NEW o \in originals[m],
                 NEW p \in originals[n], SameIdentity(o, p)
          PROVE  o = p
      <3>1. o.origin \in Nodes /\ o.origin = p.origin
        BY <2>1, <2>2 DEF Ops, SameIdentity
      <3>2. o \in originals[o.origin] /\ p \in originals[o.origin]
        BY <2>0, <3>1 DEF AuthorHolds
      <3> QED  BY <2>0, <2>2, <3>1, <3>2 DEF UniqueIdentity
    <2> QED  BY <2>2 DEF OneOriginalPerIdentity
  <1> QED  BY <1>1, Invariant, PTL

\* Completed originals by step: what a step may do to a journal.
LEMMA JournalGrows ==
    ASSUME IInv, [Next]_vars, NEW n \in Nodes
    PROVE  Completed(n) \subseteq Completed(n)'
  <1>0. TypeOK /\ PendingReceived
    BY DEF IInv, JournalInv
  <1>1. originals \in [Nodes -> SUBSET Ops] /\ pending \in [Nodes -> SUBSET Ops]
    BY <1>0 DEF TypeOK
  <1>2. ASSUME UNCHANGED <<originals, pending>>
        PROVE  Completed(n) \subseteq Completed(n)'
    BY <1>2 DEF Completed
  <1>3. ASSUME NEW m \in Nodes, NEW page, ReceivePage(m, page)
        PROVE  Completed(n) \subseteq Completed(n)'
    <2>1. /\ originals' = [originals EXCEPT ![m] = originals[m] \cup page]
          /\ pending' = [pending EXCEPT ![m] = pending[m] \cup (page \ originals[m])]
      BY <1>3 DEF ReceivePage, Received
    <2> QED  BY <1>1, <2>1 DEF Completed
  <1>4. ASSUME NEW w \in Writers, AppendLocal(w)
        PROVE  Completed(n) \subseteq Completed(n)'
    <2>1. originals[n] \subseteq originals'[n] /\ pending' = pending
      BY <1>1, <1>4 DEF AppendLocal
    <2> QED  BY <2>1 DEF Completed
  <1>5. ASSUME NEW m \in Nodes, Complete(m)
        PROVE  Completed(n) \subseteq Completed(n)'
    <2>1. originals' = originals /\ pending'[n] \subseteq pending[n]
      BY <1>1, <1>5 DEF Complete
    <2> QED  BY <2>1 DEF Completed
  <1>6. ASSUME NEW msg \in net, Deliver(msg) \/ DeliverTwice(msg) \/ Lose(msg)
        PROVE  Completed(n) \subseteq Completed(n)'
    <2>1. msg.to \in Nodes
      BY <1>0 DEF TypeOK
    <2> QED  BY <1>2, <1>3, <1>6, <2>1 DEF Deliver, DeliverTwice, Lose, durable
  <1>7. ASSUME NEW m \in Nodes, RetryPending(m)
        PROVE  Completed(n) \subseteq Completed(n)'
    BY <1>3, <1>7 DEF RetryPending
  <1>8. ASSUME NEW m \in Nodes, ApplierStep(m)
        PROVE  Completed(n) \subseteq Completed(n)'
    BY <1>2, <1>5, <1>8 DEF ApplierStep, NextGroup, EndReceive, Check, Materialize,
                            RecordRemote, Append, durable
  <1>9. ASSUME NEW w \in Writers, WriterStep(w)
        PROVE  Completed(n) \subseteq Completed(n)'
    BY <1>2, <1>4, <1>9 DEF WriterStep, WriteClock, RecordLocal
  <1>10. ASSUME \/ Tick
                \/ \E w \in Writers : FailWrite(w)
                \/ \E w \in Writers, e \in Entities : WriteBytes(w, e)
                \/ \E m, x \in Nodes : Export(m, x)
                \/ \E m \in Nodes : FailApply(m) \/ Crash(m)
                \/ UNCHANGED vars
         PROVE  Completed(n) \subseteq Completed(n)'
    <2>1. UNCHANGED <<originals, pending>>
      BY <1>10 DEF Tick, FailWrite, WriteBytes, Export, FailApply, Crash, vars,
                   durable
    <2> QED  BY <1>2, <2>1
  <1> QED
    BY <1>6, <1>7, <1>8, <1>9, <1>10 DEF Next

\* No step of any thread and no fault makes a completed original pending again
\* or removes it.
THEOREM CompletedForGood == Spec => CompletedStays
  <1>1. IInv /\ [Next]_vars =>
           [\A n \in Nodes : Completed(n) \subseteq Completed(n)']_vars
    BY JournalGrows
  <1> QED  BY <1>1, Invariant, PTL DEF Spec, CompletedStays

\* As long as nothing failed, every operation a node made is recorded, or its
\* writer is still on the way to record it.
OwnRecorded ==
    faults = 0 => \A n \in Nodes : \A o \in originals[n] : o.origin = n =>
        \/ Covered(n, o)
        \/ \E w \in Writers :
              Home[w] = n /\ writer[w].pc \in {"logged", "clocked"} /\ writer[w].op = o

\* A step that makes no operation and moves no writer that has one to record.
LEMMA OwnFrame ==
    ASSUME IInv, OwnRecorded, faults = 0,
           \A n \in Nodes : \A o \in originals'[n] : o.origin = n => o \in originals[n],
           \A m \in Nodes : \A o \in Ops : Covered(m, o) => Covered(m, o)',
           \A w \in Writers : writer[w].pc \in {"logged", "clocked"} =>
              \/ writer'[w].pc \in {"logged", "clocked"} /\ writer'[w].op = writer[w].op
              \/ ~Supersedes(writer[w].op, versions'[Home[w]][writer[w].op.entity])
    PROVE  OwnRecorded'
  <1> SUFFICES ASSUME NEW n \in Nodes, NEW o \in originals'[n], o.origin = n
               PROVE  \/ Covered(n, o)'
                      \/ \E w \in Writers :
                            Home[w] = n /\ writer'[w].pc \in {"logged", "clocked"} /\ writer'[w].op = o
    BY DEF OwnRecorded
  <1>1. o \in originals[n] /\ o \in Ops
    BY DEF IInv, JournalInv, TypeOK
  <1>2. CASE Covered(n, o)
    BY <1>1, <1>2
  <1>3. CASE \E w \in Writers :
                Home[w] = n /\ writer[w].pc \in {"logged", "clocked"} /\ writer[w].op = o
    <2>1. PICK w \in Writers : Home[w] = n /\ writer[w].pc \in {"logged", "clocked"} /\ writer[w].op = o
      BY <1>3
    <2>2. \/ writer'[w].pc \in {"logged", "clocked"} /\ writer'[w].op = o
          \/ ~Supersedes(o, versions'[n][o.entity])
      BY <2>1
    <2> QED BY <2>1, <2>2 DEF Covered
  <1> QED BY <1>1, <1>2, <1>3 DEF OwnRecorded

\* A page brings a node none of its own operations it does not have.
LEMMA OwnReceive ==
    ASSUME IInv, OwnRecorded, faults = 0, NEW n \in Nodes, NEW page \in SUBSET Ops,
           \A o \in page : o \in originals[o.origin], ReceivePage(n, page)
    PROVE  OwnRecorded'
  <1>1. /\ originals' = [originals EXCEPT ![n] = @ \cup page]
        /\ UNCHANGED <<versions, writer>>
    BY DEF ReceivePage
  <1>2. \A m \in Nodes : \A o \in originals'[m] : o.origin = m => o \in originals[m]
    BY <1>1 DEF IInv, JournalInv, TypeOK
  <1>3. \A m \in Nodes : \A o \in Ops : Covered(m, o) => Covered(m, o)'
    BY <1>1 DEF Covered
  <1> QED BY <1>1, <1>2, <1>3, OwnFrame

\* No step forgets an operation that is to be recorded.
LEMMA OwnStep == ASSUME IInv, [Next]_vars, OwnRecorded PROVE OwnRecorded'
  <1> USE JournalAssumption
  <1>0. /\ TypeOK /\ WriterHolds /\ AuthorHolds /\ faults \in Nat
        /\ originals \in [Nodes -> SUBSET Ops] /\ writer \in [Writers -> WriterStates]
        /\ net \subseteq [to : Nodes, ops : SUBSET Ops]
    BY DEF IInv, JournalInv, TypeOK
  <1> SUFFICES ASSUME faults' = 0 PROVE OwnRecorded'
    BY DEF OwnRecorded
  <1>1. ASSUME UNCHANGED <<originals, writer, faults>>,
               \A m \in Nodes : \A o \in Ops : Covered(m, o) => Covered(m, o)'
        PROVE  OwnRecorded'
    BY <1>1, OwnFrame
  <1>2. ASSUME UNCHANGED <<originals, versions, writer, faults>> PROVE OwnRecorded'
    BY <1>1, <1>2 DEF Covered
  <1>3. CASE Tick \/ UNCHANGED vars
    BY <1>2, <1>3 DEF Tick, vars, durable
  <1>4. ASSUME NEW w \in Writers, NEW e \in Entities, WriteBytes(w, e) PROVE OwnRecorded'
    <2>1. /\ writer[w].pc = "idle" /\ UNCHANGED <<originals, versions, faults>>
          /\ \A x \in Writers : x # w => writer'[x] = writer[x]
      BY <1>0, <1>4 DEF WriteBytes
    <2>2. \A m \in Nodes : \A o \in Ops : Covered(m, o) => Covered(m, o)'
      BY <2>1 DEF Covered
    <2> QED BY <2>1, <2>2, OwnFrame
  <1>5. ASSUME NEW w \in Writers, AppendLocal(w) PROVE OwnRecorded'
    <2> DEFINE op == writer'[w].op
    <2>0. Home[w] \in Nodes
      OBVIOUS
    <2>1. /\ writer[w].pc = "written" /\ UNCHANGED <<versions, faults>>
          /\ originals' = [originals EXCEPT ![Home[w]] = @ \cup {op}]
          /\ writer'[w].pc = "logged"
          /\ \A x \in Writers : x # w => writer'[x] = writer[x]
      BY <1>0, <1>5 DEF AppendLocal
    <2> HIDE DEF op
    <2> SUFFICES ASSUME NEW n \in Nodes, NEW o \in originals'[n], o.origin = n
                 PROVE  \/ Covered(n, o)'
                        \/ \E x \in Writers :
                              Home[x] = n /\ writer'[x].pc \in {"logged", "clocked"} /\ writer'[x].op = o
      BY DEF OwnRecorded
    <2>2. CASE n = Home[w] /\ o = op
      BY <2>1, <2>2 DEF op
    <2>3. CASE ~(n = Home[w] /\ o = op)
      <3>1. o \in originals[n]
        BY <1>0, <2>0, <2>1, <2>3
      <3>2. \/ Covered(n, o)
            \/ \E x \in Writers :
                  Home[x] = n /\ writer[x].pc \in {"logged", "clocked"} /\ writer[x].op = o
        BY <2>1, <3>1 DEF OwnRecorded
      <3>3. Covered(n, o) => Covered(n, o)'
        BY <2>1 DEF Covered
      <3> QED BY <2>1, <3>2, <3>3
    <2> QED BY <2>2, <2>3
  <1>6. ASSUME NEW w \in Writers, WriteClock(w) PROVE OwnRecorded'
    <2>1. /\ UNCHANGED <<originals, versions, faults>>
          /\ writer'[w].pc = "clocked" /\ writer'[w].op = writer[w].op
          /\ \A x \in Writers : x # w => writer'[x] = writer[x]
      BY <1>0, <1>6 DEF WriteClock
    <2>2. \A m \in Nodes : \A o \in Ops : Covered(m, o) => Covered(m, o)'
      BY <2>1 DEF Covered
    <2> QED BY <2>1, <2>2, OwnFrame
  <1>7. ASSUME NEW w \in Writers, RecordLocal(w) PROVE OwnRecorded'
    <2>1. /\ UNCHANGED <<originals, faults>> /\ versions' = Recorded(Home[w], writer[w].op)
          /\ \A x \in Writers : x # w => writer'[x] = writer[x]
      BY <1>0, <1>7 DEF RecordLocal
    <2>2. writer[w].op \in Ops
      BY <1>0, <1>7 DEF RecordLocal, WriterHolds
    <2>3. /\ ~Supersedes(writer[w].op, versions'[Home[w]][writer[w].op.entity])
          /\ \A m \in Nodes : \A o \in Ops : Covered(m, o) => Covered(m, o)'
      <3>1. /\ ~Supersedes(writer[w].op, versions'[Home[w]][writer[w].op.entity])
            /\ \A m \in Nodes : \A o \in Ops :
                  ~Supersedes(o, versions[m][o.entity]) => ~Supersedes(o, versions'[m][o.entity])
        BY <1>0, <2>1, <2>2, RecordedCovers
      <3> QED BY <3>1 DEF Covered
    <2> QED BY <2>1, <2>3, OwnFrame
  <1>8. ASSUME NEW w \in Writers, FailWrite(w) PROVE FALSE
    BY <1>0, <1>8 DEF FailWrite
  <1>9. ASSUME NEW m \in Nodes, NEW n \in Nodes, Export(m, n) PROVE OwnRecorded'
    BY <1>2, <1>9 DEF Export, durable
  <1>10. ASSUME NEW msg \in net, Deliver(msg) \/ DeliverTwice(msg) \/ Lose(msg) PROVE OwnRecorded'
    <2>1. msg.to \in Nodes /\ msg.ops \in SUBSET Ops /\ \A o \in msg.ops : o \in originals[o.origin]
      BY <1>0 DEF AuthorHolds
    <2>2. CASE Deliver(msg)
      BY <2>1, <2>2, OwnReceive DEF Deliver
    <2>3. CASE DeliverTwice(msg) \/ Lose(msg)
      BY <1>0, <2>3 DEF DeliverTwice, Lose
    <2> QED BY <1>10, <2>2, <2>3
  <1>11. ASSUME NEW n \in Nodes, RetryPending(n) PROVE OwnRecorded'
    BY <1>11, OwnReceive DEF RetryPending
  <1>12. ASSUME NEW n \in Nodes, ApplierStep(n) PROVE OwnRecorded'
    <2>1. CASE RecordRemote(n)
      <3>1. applier[n].op \in Ops
        BY <2>1, ApplierHolds DEF RecordRemote, Working, IInv, ApplierInv, ApplierOK
      <3>2. UNCHANGED <<originals, writer, faults>> /\ versions' = Recorded(n, applier[n].op)
        BY <2>1 DEF RecordRemote
      <3>3. \A m \in Nodes : \A o \in Ops : Covered(m, o) => Covered(m, o)'
        BY <1>0, <3>1, <3>2, RecordedCovers DEF Covered
      <3> QED BY <1>1, <3>2, <3>3
    <2>2. CASE ~RecordRemote(n)
      <3>1. UNCHANGED <<originals, versions, writer, faults>>
        BY <1>12, <2>2 DEF ApplierStep, NextGroup, EndReceive, Check, Materialize, Append, Complete, durable
      <3> QED BY <1>2, <3>1
    <2> QED BY <2>1, <2>2
  <1>13. ASSUME NEW n \in Nodes, FailApply(n) \/ Crash(n) PROVE FALSE
    BY <1>0, <1>13 DEF FailApply, Crash
  <1>14. CASE Next
    BY <1>3, <1>4, <1>5, <1>6, <1>7, <1>8, <1>9, <1>10, <1>11, <1>12, <1>13, <1>14 DEF Next, WriterStep
  <1> QED BY <1>3, <1>14

\* recordAppliedOperations, called by the local writer and by the applier: with
\* no failure so far, a node on which no thread is at work has recorded the
\* newest of the operations it completed, its own and received ones.
THEOREM NewestRecorded == Spec => []VersionIsNewest
  <1>1. Init => OwnRecorded
    BY DEF Init, OwnRecorded
  <1>2. IInv /\ [Next]_vars /\ OwnRecorded => OwnRecorded'
    BY OwnStep
  <1>3. IInv /\ OwnRecorded => VersionIsNewest
    <2> SUFFICES ASSUME IInv, OwnRecorded, NEW n \in Nodes, Quiet(n), faults = 0, NEW o \in Completed(n)
                 PROVE  ~Supersedes(o, versions[n][o.entity])
      BY DEF VersionIsNewest
    <2>1. CASE o.origin # n
      BY <2>1 DEF IInv, AppliedBeforeComplete
    <2>2. CASE o.origin = n
      <3>1. ~\E w \in Writers :
               Home[w] = n /\ writer[w].pc \in {"logged", "clocked"} /\ writer[w].op = o
        BY DEF Quiet
      <3> QED BY <2>2, <3>1 DEF OwnRecorded, Completed, Covered
    <2> QED BY <2>1, <2>2
  <1> QED BY <1>1, <1>2, <1>3, Invariant, PTL DEF Spec

=============================================================================
