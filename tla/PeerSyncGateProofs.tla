------------------------- MODULE PeerSyncGateProofs -------------------------
(***************************************************************************)
(* Proofs about PeerSyncGate, for any two members, roles and bounds.       *)
(*                                                                         *)
(* The baseline of a gate may run ahead of what its node holds only while  *)
(* something will still compare the two: work that is marked as pending, a *)
(* failure that is counted, a pass that has a page to come, or a cycle     *)
(* that has decided for a pass.  The inductive invariant says so of the    *)
(* baseline, of the copy a cycle took of it, and of the probe that the     *)
(* next record promotes.                                                   *)
(***************************************************************************)
EXTENDS PeerSyncGate, FiniteSetTheorems, TLAPS

Kind == {"cycle", "route"}
Pc == {"none", "probe"} \cup Owing \cup InPass
Gate == [lastRemote : Summary, lastLocal : Summary, probed : Summary,
         failures : Nat, waiting : BOOLEAN, pendingWork : BOOLEAN]
Locals == [baseline : Summary, changed : BOOLEAN, page : [Node -> Nat], pages : Nat]
Entry == Nat \X (Node \cup {0})

(* The types of the state.                                                 *)
Types ==
    /\ held \in [Node -> [Node -> Nat]]
    /\ stuck \in [Node -> BOOLEAN]
    /\ prefs \in [Node -> [Node -> Entry]]
    /\ prefRev \in [Node -> Nat]
    /\ gate \in [Node -> Gate]
    /\ execution \in [Node -> Kind \cup {"free"}]
    /\ pc \in [Task -> Pc]
    /\ loc \in [Task -> Locals]
    /\ connected \in BOOLEAN
    /\ used \in [ops : Nat, prefs : Nat, faults : Nat, routes : Nat]

(* Nobody has more operations of an author than the author, and nobody has *)
(* more than was made.                                                     *)
Bounded ==
    /\ used.ops + used.prefs <= MaxEdits /\ used.prefs <= MaxPrefs
    /\ \A o \in Node : held[o][o] <= used.ops
    /\ \A n, o \in Node : held[n][o] <= held[o][o]
    /\ \A t \in Task, o \in Node : loc[t].page[o] <= held[o][o]
    /\ \A n, d \in Node : prefs[n][d][1] <= used.prefs

(* A task is in a pass exactly when it holds the mutex of its node.        *)
Exclusive ==
    \A n \in Node, kind \in Kind :
        (execution[n] = kind) <=> (<<n, kind>> \in Task /\ pc[<<n, kind>>] \in InPass)

(* A digest is never ahead of the clock it was read from.                  *)
Digests ==
    \A n \in Node :
        /\ gate[n].lastRemote.ops <= held[Peer(n)][Peer(n)]
        /\ gate[n].probed.ops <= held[Peer(n)][Peer(n)]
        /\ loc[<<n, "cycle">>].baseline.ops <= held[Peer(n)][Peer(n)]

(* Without a fault every call arrives, and without a change of route there *)
(* is no other pass than the one of the cycle.                             *)
Calm ==
    /\ used.faults = 0 => connected /\ \A n \in Node : gate[n].failures = 0
    /\ used.routes = 0 => \A n \in RouteNode : pc[<<n, "route">>] = "none"

(* A pass that is going to compare the receipts of both sides.             *)
Comparing == {"prefs", "page", "apply"}
WillCompare(n) == \E t \in Task : t[1] = n /\ pc[t] \in Comparing

(* A cycle that no fault keeps from the pass it has decided for.           *)
WillPass(n) == used.routes > 0 /\ pc[<<n, "cycle">>] \in Owing

Covered(n) == gate[n].pendingWork \/ WillCompare(n) \/ WillPass(n)

Fetched(n, digest) == digest.ops <= held[n][Peer(n)]

(* The baseline of the gate, the copy that a cycle compares with a probe,  *)
(* and what the next record makes of them.                                 *)
Promoted(n) ==
    /\ Fetched(n, gate[n].lastRemote) \/ Covered(n) \/ gate[n].failures > 0
    /\ pc[<<n, "cycle">>] = "probe" =>
          Fetched(n, loc[<<n, "cycle">>].baseline) \/ Covered(n) \/ gate[n].failures > 0
    /\ \A t \in Task : t[1] = n /\ pc[t] \in {"settle", "record"} =>
          \/ Fetched(n, gate[n].probed) /\ Fetched(n, gate[n].lastRemote)
          \/ Covered(n)

Promotion == Quiet => \A n \in Node : Promoted(n)

(* An operation that waits for its materialization is known to some gate.  *)
StuckIsPending == (\E m \in Node : stuck[m]) => \E n \in Node : gate[n].pendingWork

IInv == Types /\ Bounded /\ Exclusive /\ Digests /\ Calm /\ StuckIsPending /\ Promotion

-----------------------------------------------------------------------------
(* Members and tasks                                                       *)

(* There are two members, each the peer of the other.                      *)
LEMMA PeerFacts ==
    \A n \in Node : Peer(n) \in Node /\ Peer(n) # n /\ Peer(Peer(n)) = n /\ \A m \in Node : m = n \/ m = Peer(n)
<1>1. PICK a, b : a \in Node /\ b \in Node /\ a # b /\ Node = {a, b}
  <2>1. Node # {}
    BY NodeAssumption, FS_EmptySet
  <2>2. PICK a : a \in Node
    BY <2>1
  <2>3. IsFiniteSet(Node \ {a}) /\ Cardinality(Node \ {a}) = 1
    BY <2>2, NodeAssumption, FS_RemoveElement
  <2>4. Node \ {a} # {}
    BY <2>3, FS_EmptySet
  <2>5. PICK b : b \in Node \ {a}
    BY <2>4
  <2>6. IsFiniteSet((Node \ {a}) \ {b}) /\ Cardinality((Node \ {a}) \ {b}) = 0
    BY <2>3, <2>5, FS_RemoveElement
  <2>7. (Node \ {a}) \ {b} = {}
    BY <2>6, FS_EmptySet
  <2> QED BY <2>2, <2>5, <2>7
<1>2. Peer(a) = b /\ Peer(b) = a
  BY <1>1 DEF Peer
<1> QED BY <1>1, <1>2

(* What a task is.                                                         *)
LEMMA TaskFacts ==
    /\ \A t \in Task : t[1] \in Node /\ t[2] \in Kind /\ t = <<t[1], t[2]>> /\ (t[2] = "route" => t[1] \in RouteNode)
    /\ \A n \in Node : <<n, "cycle">> \in Task /\ <<n, "cycle">>[1] = n /\ <<n, "cycle">>[2] = "cycle"
    /\ \A n \in RouteNode : <<n, "route">> \in Task /\ n \in Node /\ <<n, "route">>[1] = n /\ <<n, "route">>[2] = "route"
BY RoleAssumption DEF Task, Kind

(* The summaries, the locals and the entry they start from are typed.      *)
LEMMA ConstantTypes ==
    /\ None \in Summary /\ NoPage \in [Node -> Nat] /\ NoLocals \in Locals /\ <<0, 0>> \in Entry
    /\ NoLocals.baseline.ops = 0 /\ \A o \in Node : NoLocals.page[o] = 0
    /\ \A a, b \in Nat : Some(a, b) \in Summary /\ Some(a, b).ops = a
BY NodeAssumption DEF None, NoPage, NoLocals, Locals, Summary, Some, Entry

(* The gates start with nothing to hide.                                   *)
LEMMA InitIInv == Init => IInv
<1> SUFFICES ASSUME Init PROVE IInv
  OBVIOUS
<1> USE ConstantTypes, TaskFacts, PeerFacts, BoundAssumption DEF Init
<1>1. Types
  BY DEF Types, Gate, Kind, Pc
<1>2. Bounded
  BY DEF Bounded, NoPage
<1>3. Exclusive
  BY DEF Exclusive, Kind, InPass
<1>0. None.ops = 0 /\ \A n \in Node : gate[n].lastRemote = None /\ gate[n].probed = None
  BY DEF None
<1>8. \A n, o \in Node : held[n][o] = 0
  BY DEF NoPage
<1>9. \A n \in Node : loc[<<n, "cycle">>] = NoLocals /\ pc[<<n, "cycle">>] = "none"
  OBVIOUS
<1>4. Digests
  <2> SUFFICES ASSUME NEW n \in Node
               PROVE  /\ gate[n].lastRemote.ops <= held[Peer(n)][Peer(n)]
                      /\ gate[n].probed.ops <= held[Peer(n)][Peer(n)]
                      /\ loc[<<n, "cycle">>].baseline.ops <= held[Peer(n)][Peer(n)]
    BY Zenon DEF Digests
  <2>1. held[Peer(n)][Peer(n)] = 0
    BY ONLY <1>8, PeerFacts, n \in Node
  <2>2. gate[n].lastRemote.ops = 0 /\ gate[n].probed.ops = 0
    BY ONLY <1>0, n \in Node
  <2>3. loc[<<n, "cycle">>].baseline.ops = 0
    BY ONLY <1>9, ConstantTypes, n \in Node
  <2> QED BY ONLY <2>1, <2>2, <2>3
<1>5. Calm
  BY DEF Calm
<1>6. StuckIsPending
  BY DEF StuckIsPending
<1>7. Promotion
  <2>1. \A n \in Node : Fetched(n, gate[n].lastRemote)
    BY ONLY <1>0, <1>8, PeerFacts DEF Fetched
  <2> QED BY <1>9, <2>1 DEF Promotion, Promoted
<1> QED BY <1>1, <1>2, <1>3, <1>4, <1>5, <1>6, <1>7 DEF IInv

-----------------------------------------------------------------------------
(* A step of one task                                                      *)

(* The operations and preferences grow, but no author gains an operation.  *)
Kept ==
    /\ held' \in [Node -> [Node -> Nat]]
    /\ \A n, o \in Node : held[n][o] <= held'[n][o] /\ held'[n][o] <= held[o][o]
    /\ \A o \in Node : held'[o][o] = held[o][o]
    /\ \A n, d \in Node : prefs'[n][d][1] <= used.prefs

(* The step changes only what belongs to task t and its node.              *)
Acts(t) ==
    /\ \A u \in Task : u # t => pc'[u] = pc[u] /\ loc'[u] = loc[u]
    /\ \A m \in Node : m # t[1] => gate'[m] = gate[m] /\ execution'[m] = execution[m]
    /\ connected' = connected
    /\ used'.ops = used.ops /\ used'.prefs = used.prefs /\ used'.routes = used.routes /\ used'.faults >= used.faults

(* It enters its pass with the mutex, stays where it is or leaves with it. *)
Locks(t) ==
    \/ (pc[t] \in InPass <=> pc'[t] \in InPass) /\ execution'[t[1]] = execution[t[1]]
    \/ pc[t] \notin InPass /\ pc'[t] \in InPass /\ execution[t[1]] = "free" /\ execution'[t[1]] = t[2]
    \/ pc[t] \in InPass /\ pc'[t] \notin InPass /\ execution'[t[1]] = "free"

(* A step that leaves a node alone keeps what its gate knows.              *)
LEMMA OtherPromoted ==
    ASSUME Types, Types', NEW m \in Node, Promoted(m), gate'[m] = gate[m],
           \A t \in Task : t[1] = m => pc'[t] = pc[t] /\ loc'[t] = loc[t],
           \A n, o \in Node : held[n][o] <= held'[n][o],
           used.routes > 0 => used'.routes > 0
    PROVE  Promoted(m)'
<1>1. Covered(m) => Covered(m)'
  BY TaskFacts DEF Covered, WillCompare, WillPass
<1>2. \A d : d.ops \in Nat /\ Fetched(m, d) => Fetched(m, d)'
  BY PeerFacts DEF Fetched, Types
<1>3. /\ gate[m].lastRemote.ops \in Nat /\ gate[m].probed.ops \in Nat
      /\ loc[<<m, "cycle">>].baseline.ops \in Nat
  BY TaskFacts DEF Types, Gate, Locals, Summary
<1>4. /\ Fetched(m, gate[m].lastRemote) => Fetched(m, gate[m].lastRemote)'
      /\ Fetched(m, gate[m].probed) => Fetched(m, gate[m].probed)'
      /\ Fetched(m, loc[<<m, "cycle">>].baseline) => Fetched(m, loc[<<m, "cycle">>].baseline)'
  BY <1>3, PeerFacts, TaskFacts DEF Fetched, Types
<1> QED BY <1>1, <1>4, TaskFacts DEF Promoted

(* A step of task t keeps the invariant when it keeps what concerns t.     *)
LEMMA TaskKeeps ==
    ASSUME IInv, NEW t \in Task, Types', Kept, Acts(t), Locks(t),
           \A o \in Node : loc'[t].page[o] <= held[o][o],
           gate'[t[1]].lastRemote.ops <= held[Peer(t[1])][Peer(t[1])],
           gate'[t[1]].probed.ops <= held[Peer(t[1])][Peer(t[1])],
           t[2] = "cycle" => loc'[t].baseline.ops <= held[Peer(t[1])][Peer(t[1])],
           used'.faults = 0 => gate'[t[1]].failures = 0,
           pc[t] = "none" => t[2] = "cycle",
           StuckIsPending',
           Quiet' => Promoted(t[1])'
    PROVE  IInv'
<1>1. Bounded'
  BY DEF IInv, Types, Bounded, Kept, Acts
<1>2. Exclusive'
  <2> SUFFICES ASSUME NEW n \in Node, NEW kind \in Kind
               PROVE  (execution'[n] = kind) <=> (<<n, kind>> \in Task /\ pc'[<<n, kind>>] \in InPass)
    BY DEF Exclusive
  <2>0. (execution[n] = kind) <=> (<<n, kind>> \in Task /\ pc[<<n, kind>>] \in InPass)
    BY DEF IInv, Exclusive
  <2>1. CASE n # t[1]
    BY <2>0, <2>1 DEF Acts
  <2>2. CASE n = t[1] /\ kind # t[2]
    <3>1. <<n, kind>> # t
      BY <2>2, TaskFacts
    <3>2. (execution[n] = t[2]) <=> pc[t] \in InPass
      BY <2>2, TaskFacts DEF IInv, Exclusive
    <3> QED BY <2>0, <2>2, <3>1, <3>2 DEF Acts, Locks, Kind
  <2>3. CASE n = t[1] /\ kind = t[2]
    <3>1. <<n, kind>> = t
      BY <2>3, TaskFacts
    <3> QED BY <2>0, <2>3, <3>1 DEF Locks, Kind
  <2> QED BY <2>1, <2>2, <2>3
<1>3. Digests'
  <2> SUFFICES ASSUME NEW n \in Node
               PROVE  /\ gate'[n].lastRemote.ops <= held[Peer(n)][Peer(n)]
                      /\ gate'[n].probed.ops <= held[Peer(n)][Peer(n)]
                      /\ loc'[<<n, "cycle">>].baseline.ops <= held[Peer(n)][Peer(n)]
    BY PeerFacts DEF Digests, Kept
  <2>1. <<n, "cycle">> = t => t[1] = n /\ t[2] = "cycle"
    BY TaskFacts
  <2>2. loc'[<<n, "cycle">>].baseline.ops <= held[Peer(n)][Peer(n)]
    BY <2>1, TaskFacts DEF IInv, Digests, Acts
  <2>3. gate'[n].lastRemote.ops <= held[Peer(n)][Peer(n)] /\ gate'[n].probed.ops <= held[Peer(n)][Peer(n)]
    BY DEF IInv, Digests, Acts
  <2> QED BY <2>2, <2>3
<1>4. Calm'
  <2>1. used'.faults = 0 => used.faults = 0
    BY DEF IInv, Types, Acts
  <2>2. used'.routes = 0 => \A n \in RouteNode : pc'[<<n, "route">>] = "none"
    <3> SUFFICES ASSUME used'.routes = 0, NEW n \in RouteNode PROVE pc'[<<n, "route">>] = "none"
      OBVIOUS
    <3>1. pc[<<n, "route">>] = "none" /\ <<n, "route">> \in Task /\ <<n, "route">>[2] = "route"
      BY TaskFacts DEF IInv, Calm, Acts
    <3>2. <<n, "route">> # t
      BY <3>1
    <3> QED BY <3>1, <3>2 DEF Acts
  <2> QED BY <2>1, <2>2 DEF IInv, Calm, Acts
<1>5. Promotion'
  <2> SUFFICES ASSUME Quiet', NEW m \in Node PROVE Promoted(m)'
    BY DEF Promotion
  <2>1. Quiet
    BY DEF Quiet, Acts, IInv, Types
  <2>2. CASE m # t[1]
    <3>1. \A u \in Task : u[1] = m => pc'[u] = pc[u] /\ loc'[u] = loc[u]
      BY <2>2 DEF Acts
    <3>2. Promoted(m)
      BY <2>1 DEF IInv, Promotion
    <3> QED BY <2>2, <3>1, <3>2, OtherPromoted DEF IInv, Kept, Acts
  <2> QED BY <2>2
<1> QED BY <1>1, <1>2, <1>3, <1>4, <1>5 DEF IInv

(* Data that is left alone is kept.                                        *)
LEMMA DataKept ==
    ASSUME IInv, UNCHANGED <<held, prefs>>
    PROVE  Kept
BY DEF IInv, Types, Bounded, Kept

(* A step of task t that leaves the data, the mutex and the counts alone.  *)
Does(t, there, l, g) ==
    /\ pc' = [pc EXCEPT ![t] = there] /\ loc' = [loc EXCEPT ![t] = l] /\ gate' = [gate EXCEPT ![t[1]] = g]
    /\ UNCHANGED <<held, stuck, prefs, prefRev, execution, connected, used>>

(* The types of the parts of the state that a task changes.                *)
LEMMA StepTyped ==
    ASSUME IInv, NEW t \in Task, NEW there \in Pc, NEW l \in Locals, NEW g \in Gate,
           Does(t, there, l, g)
    PROVE  /\ Types' /\ Kept /\ Acts(t) /\ pc'[t] = there /\ loc'[t] = l /\ gate'[t[1]] = g
           /\ execution' = execution /\ stuck' = stuck /\ used' = used
<1>1. t[1] \in Node
  BY TaskFacts
<1>2. Types'
  BY <1>1 DEF IInv, Types, Does
<1>3. Acts(t)
  BY <1>1 DEF IInv, Types, Acts, Does
<1> QED BY <1>1, <1>2, <1>3, DataKept DEF IInv, Types, Does

(* What is known of the gate and the locals of a task.                     *)
LEMMA TaskState ==
    ASSUME IInv, NEW t \in Task
    PROVE  /\ t[1] \in Node /\ Peer(t[1]) \in Node /\ pc[t] \in Pc /\ loc[t] \in Locals /\ gate[t[1]] \in Gate
           /\ gate[t[1]].lastRemote.ops <= held[Peer(t[1])][Peer(t[1])]
           /\ gate[t[1]].probed.ops <= held[Peer(t[1])][Peer(t[1])]
           /\ (t[2] = "cycle" => loc[t].baseline.ops <= held[Peer(t[1])][Peer(t[1])])
           /\ \A o \in Node : loc[t].page[o] <= held[o][o]
           /\ (used.faults = 0 => gate[t[1]].failures = 0 /\ connected)
           /\ (used.routes = 0 /\ t[2] = "route" => pc[t] = "none")
           /\ held[Peer(t[1])][Peer(t[1])] \in Nat
<1>1. t[1] \in Node /\ Peer(t[1]) \in Node /\ t = <<t[1], t[2]>>
  BY TaskFacts, PeerFacts
<1>2. used.routes = 0 /\ t[2] = "route" => pc[t] = "none"
  BY <1>1, TaskFacts DEF IInv, Calm
<1> QED BY <1>1, <1>2 DEF IInv, Types, Digests, Bounded, Calm

(* A step of a task that touches neither data nor mutex keeps the          *)
(* invariant when it keeps what concerns the task.                         *)
LEMMA StepKeeps ==
    ASSUME IInv, NEW t \in Task, NEW there \in Pc, NEW l \in Locals, NEW g \in Gate,
           Does(t, there, l, g),
           pc[t] \in InPass <=> there \in InPass,
           \A o \in Node : l.page[o] <= held[o][o],
           t[2] = "cycle" => l.baseline.ops <= held[Peer(t[1])][Peer(t[1])],
           g.lastRemote = gate[t[1]].lastRemote,
           g.probed.ops <= held[Peer(t[1])][Peer(t[1])],
           g.failures = gate[t[1]].failures,
           (\E m \in Node : stuck[m]) /\ gate[t[1]].pendingWork => g.pendingWork,
           pc[t] = "none" => t[2] = "cycle",
           Quiet' => Promoted(t[1])'
    PROVE  IInv'
<1>1. /\ Types' /\ Kept /\ Acts(t) /\ pc'[t] = there /\ loc'[t] = l /\ gate'[t[1]] = g
      /\ execution' = execution /\ stuck' = stuck /\ used' = used
  BY StepTyped
<1>2. Locks(t)
  BY <1>1 DEF Locks
<1>3. StuckIsPending'
  BY <1>1 DEF IInv, StuckIsPending, Acts
<1> QED BY <1>1, <1>2, <1>3, TaskState, TaskKeeps

(* A digest that is fetched stays so.                                      *)
LEMMA FetchedKept ==
    ASSUME IInv, Kept, NEW n \in Node, NEW d \in Summary, Fetched(n, d)
    PROVE  d.ops <= held'[n][Peer(n)]
BY PeerFacts DEF IInv, Types, Kept, Fetched, Summary

(* What covers the baseline is lost only with pending work that is cleared *)
(* or with a task that stops comparing or owing a pass.                    *)
LEMMA CoverKept ==
    ASSUME IInv, NEW t \in Task, Acts(t), Covered(t[1]),
           pc[t] \in Comparing => pc'[t] \in Comparing,
           t[2] = "cycle" /\ pc[t] \in Owing /\ used.routes > 0 => pc'[t] \in Owing \cup Comparing,
           gate[t[1]].pendingWork => gate'[t[1]].pendingWork
    PROVE  Covered(t[1])'
<1>1. CASE gate[t[1]].pendingWork
  BY <1>1 DEF Covered
<1>2. CASE WillCompare(t[1])
  BY <1>2 DEF Covered, WillCompare, Acts
<1>3. CASE WillPass(t[1])
  <2>1. CASE t = <<t[1], "cycle">>
    <3>1. t[2] = "cycle"
      BY <2>1, TaskFacts
    <3> QED BY <1>3, <2>1, <3>1 DEF Covered, WillPass, WillCompare, Acts
  <2>2. CASE t # <<t[1], "cycle">>
    BY <1>3, <2>2, TaskFacts DEF Covered, WillPass, Acts
  <2> QED BY <2>1, <2>2
<1> QED BY <1>1, <1>2, <1>3 DEF Covered

(* What has to be shown of the node of a step.                             *)
LEMMA PromotedIf ==
    ASSUME NEW n \in Node,
           \/ gate'[n].lastRemote.ops <= held'[n][Peer(n)]
           \/ Covered(n)' \/ gate'[n].failures > 0,
           pc'[<<n, "cycle">>] = "probe" =>
              \/ loc'[<<n, "cycle">>].baseline.ops <= held'[n][Peer(n)]
              \/ Covered(n)' \/ gate'[n].failures > 0,
           \A u \in Task : u[1] = n /\ pc'[u] \in {"settle", "record"} =>
              \/ gate'[n].probed.ops <= held'[n][Peer(n)] /\ gate'[n].lastRemote.ops <= held'[n][Peer(n)]
              \/ Covered(n)'
    PROVE  Promoted(n)'
BY DEF Promoted, Fetched

(* Only one task of a node is in a pass.                                   *)
LEMMA Alone ==
    ASSUME IInv, NEW t \in Task, NEW u \in Task, t[1] = u[1], pc[t] \in InPass, pc[u] \in InPass
    PROVE  t = u
<1>1. t = <<t[1], t[2]>> /\ u = <<u[1], u[2]>> /\ t[1] \in Node /\ t[2] \in Kind /\ u[2] \in Kind
  BY TaskFacts
<1>2. execution[t[1]] = t[2] /\ execution[t[1]] = u[2]
  BY <1>1 DEF IInv, Exclusive
<1> QED BY <1>1, <1>2

-----------------------------------------------------------------------------
(* The cycle                                                               *)

(* The decision of a cycle.                                                *)
LEMMA DecidedDoes ==
    ASSUME IInv, NEW n \in Node, NEW required \in BOOLEAN, Decided(n, required)
    PROVE  \E there \in {"none", "projection", "lock"} :
              /\ pc' = [pc EXCEPT ![<<n, "cycle">>] = there] /\ loc' = [loc EXCEPT ![<<n, "cycle">>] = NoLocals]
              /\ required <=> there \in Owing
              /\ ~required <=> there = "none"
BY DEF Decided, Owing

(* The decision without a probe, and the copy a cycle takes of its gate.   *)
LEMMA CycleStartKeeps == ASSUME IInv, NEW n \in Node, CycleStart(n) PROVE IInv'
<1> DEFINE t == <<n, "cycle">>
           g == gate[n]
<1>0. t \in Task /\ t[1] = n /\ t[2] = "cycle"
  BY TaskFacts
<1>1. /\ pc[t] = "none" /\ UNCHANGED <<held, stuck, prefs, prefRev, gate, execution, connected, used>>
      /\ g \in Gate /\ gate' = [gate EXCEPT ![t[1]] = g]
  BY <1>0, TaskState DEF CycleStart, data, IInv, Types
<1>2. PICK there \in {"none", "projection", "lock", "probe"}, l \in Locals :
         /\ pc' = [pc EXCEPT ![t] = there] /\ loc' = [loc EXCEPT ![t] = l]
         /\ l.baseline.ops \in {0, g.lastRemote.ops, loc[t].baseline.ops}
         /\ \A o \in Node : l.page[o] \in {0, loc[t].page[o]}
         /\ there = "probe" => l.baseline = g.lastRemote
  <2>1. CASE g.waiting \/ g.pendingWork \/ g.failures > 0
    <3>1. Decided(n, ~g.waiting) /\ (~g.waiting) \in BOOLEAN
      BY <1>1, <2>1 DEF CycleStart, Gate
    <3>2. PICK there \in {"none", "projection", "lock"} :
             pc' = [pc EXCEPT ![t] = there] /\ loc' = [loc EXCEPT ![t] = NoLocals]
      BY <3>1, DecidedDoes, Zenon
    <3>3. there \in {"none", "projection", "lock", "probe"} /\ there # "probe"
      BY <3>2
    <3> QED BY <3>2, <3>3, ConstantTypes
  <2>2. CASE ~(g.waiting \/ g.pendingWork \/ g.failures > 0)
    <3> DEFINE c == (g.lastLocal # LocalStateSummary(n))
               l == [loc[t] EXCEPT !.baseline = g.lastRemote, !.changed = c]
    <3>1. pc' = [pc EXCEPT ![t] = "probe"] /\ loc' = [loc EXCEPT ![t].baseline = g.lastRemote, ![t].changed = c]
      BY <2>2 DEF CycleStart
    <3>2. loc[t] \in Locals /\ loc \in [Task -> Locals] /\ g.lastRemote \in Summary /\ c \in BOOLEAN
      BY <1>0, <1>1 DEF IInv, Types, Gate
    <3> HIDE DEF c
    <3>3. l \in Locals /\ l.baseline = g.lastRemote /\ l.page = loc[t].page
      BY <3>2 DEF Locals
    <3>4. loc' = [loc EXCEPT ![t] = l]
      BY <1>0, <3>1, <3>2
    <3> QED BY <3>1, <3>3, <3>4
  <2> QED BY <2>1, <2>2
<1>3. there \in Pc /\ there \notin InPass
  BY DEF Pc, Owing, InPass
<1>5. Does(t, there, l, g)
  BY <1>1, <1>2 DEF Does
<1> HIDE DEF t, g
<1>4. /\ Types' /\ Kept /\ Acts(t) /\ pc'[t] = there /\ loc'[t] = l /\ gate'[t[1]] = g
      /\ execution' = execution
  BY <1>0, <1>1, <1>3, <1>5, StepTyped
<1>7. ASSUME Quiet' PROVE Promoted(t[1])'
  <2>1. Promoted(n) /\ held' = held /\ gate' = gate
    BY <1>1, <1>7 DEF IInv, Promotion, Quiet
  <2>2. Covered(n) => Covered(n)'
    BY <1>0, <1>1, <1>4, CoverKept DEF Comparing, Owing, g
  <2>3. \A u \in Task : u[1] = n /\ pc'[u] \in {"settle", "record"} => pc[u] \in {"settle", "record"}
    BY <1>3, <1>4 DEF Acts, InPass
  <2>4. t = <<n, "cycle">> /\ g = gate[n]
    BY DEF t, g
  <2> QED BY <1>0, <1>2, <1>4, <2>1, <2>2, <2>3, <2>4 DEF Promoted, Fetched
<1>8. (\A o \in Node : l.page[o] <= held[o][o]) /\ l.baseline.ops <= held[Peer(t[1])][Peer(t[1])]
  <2>1. g = gate[t[1]]
    BY <1>0 DEF g
  <2>2. \A o \in Node : held[o][o] \in Nat
    BY DEF IInv, Types
  <2> QED BY <1>0, <1>2, <2>1, <2>2, TaskState
<1>9. /\ pc[t] \notin InPass /\ g.lastRemote = gate[t[1]].lastRemote /\ g.failures = gate[t[1]].failures
      /\ g.pendingWork = gate[t[1]].pendingWork /\ g.probed.ops <= held[Peer(t[1])][Peer(t[1])]
  BY <1>0, <1>1, TaskState DEF g, InPass
<1> QED BY <1>0, <1>1, <1>3, <1>5, <1>7, <1>8, <1>9, StepKeeps
(* The probe: what it shows is kept, and a pass is owed unless it shows    *)
(* what the baseline has.                                                  *)
LEMMA CycleProbeKeeps == ASSUME IInv, NEW n \in Node, CycleProbe(n) PROVE IInv'
<1> DEFINE t == <<n, "cycle">>
           digest == ClockDigest(Peer(n))
           g == [gate[n] EXCEPT !.probed = digest]
           required == loc[t].changed \/ loc[t].baseline # digest
<1>0. t \in Task /\ t[1] = n /\ t[2] = "cycle"
  BY TaskFacts
<1>1. /\ pc[t] = "probe" /\ UNCHANGED <<held, stuck, prefs, prefRev, execution, connected, used>>
      /\ gate' = [gate EXCEPT ![n].probed = digest] /\ Decided(n, required)
  BY DEF CycleProbe, data
<1>2. gate[n] \in Gate /\ gate \in [Node -> Gate] /\ loc[t] \in Locals /\ Peer(n) \in Node /\ held[Peer(n)][Peer(n)] \in Nat
  BY <1>0, TaskState DEF IInv, Types
<1>3. digest \in Summary /\ digest.ops = held[Peer(n)][Peer(n)]
  BY <1>2, ConstantTypes DEF ClockDigest
<1>4. PICK there \in {"none", "projection", "lock"} :
         /\ pc' = [pc EXCEPT ![t] = there] /\ loc' = [loc EXCEPT ![t] = NoLocals]
         /\ required <=> there \in Owing
         /\ ~required <=> there = "none"
  <2>1. required \in BOOLEAN
    BY <1>2 DEF Locals
  <2> QED BY <1>1, <2>1, DecidedDoes
<1> HIDE DEF digest
<1>5. /\ g \in Gate /\ g.probed = digest /\ g.lastRemote = gate[n].lastRemote /\ g.failures = gate[n].failures
      /\ g.pendingWork = gate[n].pendingWork /\ gate' = [gate EXCEPT ![t[1]] = g]
  BY <1>0, <1>1, <1>2, <1>3 DEF Gate
<1>6. there \in Pc /\ there \notin InPass
  BY DEF Pc, Owing, InPass
<1>7. ~required => digest = loc[t].baseline
  OBVIOUS
<1>13. Does(t, there, NoLocals, g)
  BY <1>1, <1>4, <1>5 DEF Does
<1> HIDE DEF t, g, required
<1>8. /\ Types' /\ Kept /\ Acts(t) /\ pc'[t] = there /\ loc'[t] = NoLocals /\ gate'[n] = g
  <2>1. NoLocals \in Locals /\ g \in Gate
    BY <1>5, ConstantTypes
  <2>2. /\ Types' /\ Kept /\ Acts(t) /\ pc'[t] = there /\ loc'[t] = NoLocals /\ gate'[t[1]] = g
    BY <1>0, <1>6, <1>13, <2>1, StepTyped
  <2> QED BY <1>0, <2>2
<1>9. ASSUME Quiet' PROVE Promoted(n)'
  <2>0. t = <<n, "cycle">>
    BY DEF t
  <2>1. Promoted(n) /\ held' = held /\ Quiet
    BY <1>1, <1>9 DEF IInv, Promotion, Quiet
  <2>2. Covered(n) => Covered(n)'
    BY <1>0, <1>1, <1>5, <1>8, CoverKept DEF Comparing, Owing
  <2>3. gate'[n].lastRemote.ops <= held'[n][Peer(n)] \/ Covered(n)' \/ gate'[n].failures > 0
    <3>1. Fetched(n, gate[n].lastRemote) \/ Covered(n) \/ gate[n].failures > 0
      BY <2>1 DEF Promoted
    <3> QED BY <1>5, <1>8, <2>1, <2>2, <3>1 DEF Fetched
  <2>4. ASSUME NEW u \in Task, u[1] = n, pc'[u] \in {"settle", "record"}
        PROVE  \/ gate'[n].probed.ops <= held'[n][Peer(n)] /\ gate'[n].lastRemote.ops <= held'[n][Peer(n)]
               \/ Covered(n)'
    <3>1. u # t /\ pc[u] = pc'[u]
      BY <1>6, <1>8, <2>4 DEF Acts, InPass
    <3>2. used.routes > 0 /\ gate[n].failures = 0 /\ used'.routes = used.routes
      <4>1. u[2] = "route"
        BY <2>0, <2>4, <3>1, TaskFacts DEF Kind
      <4>2. used.routes # 0
        BY <2>4, <3>1, <4>1, TaskState
      <4> QED BY <1>0, <1>1, <2>1, <4>2, TaskState DEF Quiet, IInv, Types
    <3>3. CASE required
      BY <1>4, <1>8, <2>0, <3>2, <3>3 DEF Covered, WillPass
    <3>4. CASE ~required
      <4>0. digest = loc[t].baseline
        BY <1>7, <3>4
      <4>1. Fetched(n, loc[t].baseline) \/ Covered(n)
        <5>1. Fetched(n, loc[t].baseline) \/ Covered(n) \/ gate[n].failures > 0
          BY <1>1, <2>0, <2>1 DEF Promoted
        <5> QED BY <3>2, <5>1
      <4>2. (Fetched(n, gate[n].probed) /\ Fetched(n, gate[n].lastRemote)) \/ Covered(n)
        BY <2>1, <2>4, <3>1 DEF Promoted
      <4>3. digest.ops <= held[n][Peer(n)] \/ Covered(n)
        BY <4>0, <4>1 DEF Fetched
      <4> QED BY <1>5, <1>8, <2>1, <2>2, <4>2, <4>3 DEF Fetched
    <3> QED BY <3>3, <3>4
  <2>5. pc'[<<n, "cycle">>] # "probe"
    BY <1>8, <2>0
  <2> QED BY <2>3, <2>4, <2>5, PromotedIf
<1>10. (\A o \in Node : NoLocals.page[o] <= held[o][o]) /\ NoLocals.baseline.ops <= held[Peer(t[1])][Peer(t[1])]
  <2>1. \A o \in Node : held[o][o] \in Nat
    BY DEF IInv, Types
  <2> QED BY <1>0, <1>2, <2>1, ConstantTypes
<1>11. g.probed.ops <= held[Peer(t[1])][Peer(t[1])]
  BY <1>0, <1>2, <1>3, <1>5
<1>12. /\ g.lastRemote = gate[t[1]].lastRemote /\ g.failures = gate[t[1]].failures
       /\ g.pendingWork = gate[t[1]].pendingWork /\ g \in Gate
       /\ NoLocals \in Locals /\ (Quiet' => Promoted(t[1])')
       /\ pc[t] \notin InPass /\ pc[t] # "none"
  BY <1>0, <1>1, <1>5, <1>9, ConstantTypes DEF InPass
<1> QED BY <1>0, <1>6, <1>10, <1>11, <1>12, <1>13, StepKeeps
(* The call for the projection, and the step to the member, keep what the  *)
(* cycle owes, unless the connection is gone.                              *)
LEMMA CycleMoves ==
    ASSUME IInv, NEW n \in Node, NEW there \in {"member", "lock", "none"},
           pc[<<n, "cycle">>] \in {"projection", "member"},
           pc' = [pc EXCEPT ![<<n, "cycle">>] = there],
           UNCHANGED <<held, stuck, prefs, prefRev, gate, execution, loc, connected, used>>,
           there = "none" => ~connected
    PROVE  IInv'
<1> DEFINE t == <<n, "cycle">>
<1>0. t \in Task /\ t[1] = n /\ t[2] = "cycle"
  BY TaskFacts
<1>1. pc[t] \in {"projection", "member"} /\ pc' = [pc EXCEPT ![t] = there]
  OBVIOUS
<1>2. /\ gate[t[1]] \in Gate /\ gate' = [gate EXCEPT ![t[1]] = gate[t[1]]]
      /\ loc[t] \in Locals /\ loc' = [loc EXCEPT ![t] = loc[t]]
  BY <1>0 DEF IInv, Types
<1>3. there \in Pc /\ there \notin InPass /\ there # "probe" /\ pc[t] \notin InPass /\ pc[t] # "none" /\ pc[t] \notin Comparing
  BY <1>1 DEF Pc, Owing, InPass, Comparing
<1> HIDE DEF t
<1>9. PICK l \in Locals, g \in Gate : l = loc[t] /\ g = gate[t[1]]
  BY <1>2, Zenon
<1>8. Does(t, there, l, g)
  BY <1>1, <1>2, <1>9 DEF Does
<1>4. /\ Types' /\ Kept /\ Acts(t) /\ pc'[t] = there /\ loc'[t] = l /\ gate'[t[1]] = g
  BY <1>0, <1>3, <1>8, StepTyped
<1>5. ASSUME Quiet' PROVE Promoted(n)'
  <2>0. t = <<n, "cycle">>
    BY DEF t
  <2>1. Promoted(n) /\ held' = held /\ gate' = gate /\ Quiet
    BY <1>5 DEF IInv, Promotion, Quiet
  <2>2. used.routes > 0 => there \in Owing
    BY <1>0, <2>1, TaskState DEF Quiet, Owing, IInv, Types
  <2>3. Covered(n) => Covered(n)'
    BY <1>0, <1>3, <1>4, <1>9, <2>2, CoverKept
  <2>4. \A u \in Task : u[1] = n /\ pc'[u] \in {"settle", "record"} => pc[u] = pc'[u]
    BY <1>3, <1>4 DEF Acts, InPass
  <2>5. pc'[<<n, "cycle">>] # "probe"
    BY <1>3, <1>4, <2>0
  <2>6. gate'[n].lastRemote.ops <= held'[n][Peer(n)] \/ Covered(n)' \/ gate'[n].failures > 0
    BY <2>1, <2>3 DEF Promoted, Fetched
  <2>7. ASSUME NEW u \in Task, u[1] = n, pc'[u] \in {"settle", "record"}
        PROVE  \/ gate'[n].probed.ops <= held'[n][Peer(n)] /\ gate'[n].lastRemote.ops <= held'[n][Peer(n)]
               \/ Covered(n)'
    <3>1. (Fetched(n, gate[n].probed) /\ Fetched(n, gate[n].lastRemote)) \/ Covered(n)
      BY <2>1, <2>4, <2>7 DEF Promoted
    <3> QED BY <2>1, <2>3, <3>1 DEF Fetched
  <2> QED BY <2>5, <2>6, <2>7, PromotedIf
<1>6. Quiet' => Promoted(t[1])'
  BY <1>0, <1>5
<1>7. /\ \A o \in Node : l.page[o] <= held[o][o]
      /\ l.baseline.ops <= held[Peer(t[1])][Peer(t[1])]
      /\ g.lastRemote = gate[t[1]].lastRemote /\ g.failures = gate[t[1]].failures
      /\ g.pendingWork = gate[t[1]].pendingWork
      /\ g.probed.ops <= held[Peer(t[1])][Peer(t[1])]
  BY <1>0, <1>9, TaskState
<1> QED BY <1>0, <1>3, <1>6, <1>7, <1>8, StepKeeps

(* exchangePairedDeviceSpaceProjection keeps the pass that is owed.        *)
LEMMA CycleProjectionKeeps == ASSUME IInv, NEW n \in Node, CycleProjection(n) PROVE IInv'
BY CycleMoves DEF CycleProjection, Move, data

(* Loop 2 goes on to the pass, or passes over a peer it cannot reach.      *)
LEMMA CycleMemberKeeps == ASSUME IInv, NEW n \in Node, CycleMember(n) PROVE IInv'
<1> DEFINE there == IF connected THEN "lock" ELSE "none"
<1>1. there \in {"member", "lock", "none"} /\ (there = "none" => ~connected)
  OBVIOUS
<1>2. /\ pc[<<n, "cycle">>] \in {"projection", "member"} /\ pc' = [pc EXCEPT ![<<n, "cycle">>] = there]
      /\ UNCHANGED <<held, stuck, prefs, prefRev, gate, execution, loc, connected, used>>
  BY DEF CycleMember, Move, data
<1> HIDE DEF there
<1> QED BY <1>1, <1>2, CycleMoves

-----------------------------------------------------------------------------
(* The pass                                                                *)

(* What a step of task t writes, whatever it does to the data.             *)
Writes(t, there, l, g, e) ==
    /\ pc' = [pc EXCEPT ![t] = there] /\ loc' = [loc EXCEPT ![t] = l] /\ gate' = [gate EXCEPT ![t[1]] = g]
    /\ execution' = [execution EXCEPT ![t[1]] = e]
    /\ connected' = connected
    /\ used' = used \/ used' = [used EXCEPT !.faults = @ + 1]
    /\ stuck' \in [Node -> BOOLEAN] /\ prefs' \in [Node -> [Node -> Entry]] /\ prefRev' \in [Node -> Nat]

(* A step of a task keeps the types.                                       *)
LEMMA WritesTyped ==
    ASSUME IInv, NEW t \in Task, NEW there \in Pc, NEW l \in Locals, NEW g \in Gate,
           NEW e \in Kind \cup {"free"}, Writes(t, there, l, g, e), Kept
    PROVE  /\ Types' /\ Acts(t) /\ pc'[t] = there /\ loc'[t] = l /\ gate'[t[1]] = g /\ execution'[t[1]] = e
           /\ used'.routes = used.routes /\ used'.faults >= used.faults
<1>1. t[1] \in Node
  BY TaskFacts
<1>2. /\ used' \in [ops : Nat, prefs : Nat, faults : Nat, routes : Nat]
      /\ used'.ops = used.ops /\ used'.prefs = used.prefs /\ used'.routes = used.routes /\ used'.faults >= used.faults
  BY DEF Writes, IInv, Types
<1>3. Types'
  BY <1>1, <1>2 DEF IInv, Types, Writes, Kept
<1>4. Acts(t)
  BY <1>1, <1>2 DEF IInv, Types, Acts, Writes
<1> QED BY <1>1, <1>2, <1>3, <1>4 DEF IInv, Types, Writes

(* What a gate is after a failure.                                         *)
LEMMA FailedGate ==
    ASSUME NEW x \in Gate
    PROVE  LET g == RecordPeerPassFailed(x)
           IN  /\ g \in Gate /\ g.failures > 0 /\ g.lastRemote = x.lastRemote /\ g.probed = x.probed
               /\ g.pendingWork = x.pendingWork
<1> DEFINE g == [x EXCEPT !.failures = x.failures + 1, !.waiting = TRUE]
<1>1. x.failures \in Nat /\ x.failures + 1 \in Nat /\ x.failures + 1 > 0
  BY DEF Gate
<1>2. g \in Gate /\ g.failures = x.failures + 1
  BY <1>1 DEF Gate
<1>3. g.lastRemote = x.lastRemote /\ g.probed = x.probed /\ g.pendingWork = x.pendingWork
  BY DEF Gate
<1>4. RecordPeerPassFailed(x) = g
  BY DEF RecordPeerPassFailed, Gate
<1> QED BY <1>1, <1>2, <1>3, <1>4

(* A task that fails counts a failure, and the failures cover the          *)
(* baseline: where a call can fail no other pass is under way.             *)
LEMMA FailKeeps ==
    ASSUME IInv, NEW t \in Task, pc[t] # "none", Kept,
           prefs' \in [Node -> [Node -> Entry]], prefRev' \in [Node -> Nat],
           UNCHANGED <<stuck, connected>>,
           IF connected THEN Fault ELSE UNCHANGED used,
           gate' = [gate EXCEPT ![t[1]] = RecordPeerPassFailed(@)],
           pc' = [pc EXCEPT ![t] = "none"], loc' = [loc EXCEPT ![t] = NoLocals],
           execution' = [execution EXCEPT ![t[1]] = IF pc[t] \in InPass THEN "free" ELSE @]
    PROVE  IInv'
<1> DEFINE n == t[1]
           g == RecordPeerPassFailed(gate[n])
           e == IF pc[t] \in InPass THEN "free" ELSE execution[n]
<1>0. n \in Node /\ gate[n] \in Gate /\ execution[n] \in Kind \cup {"free"} /\ stuck \in [Node -> BOOLEAN]
      /\ gate \in [Node -> Gate] /\ execution \in [Node -> Kind \cup {"free"}] /\ used.faults \in Nat /\ used.routes \in Nat
  BY TaskFacts DEF IInv, Types
<1>1. /\ g \in Gate /\ g.failures > 0 /\ g.lastRemote = gate[n].lastRemote /\ g.probed = gate[n].probed
      /\ g.pendingWork = gate[n].pendingWork
  BY <1>0, FailedGate
<1>2. used' = used \/ used' = [used EXCEPT !.faults = @ + 1]
  BY DEF Fault
<1>3. used'.faults > 0
  <2>1. CASE connected
    BY <2>1, <1>0 DEF Fault, IInv, Types
  <2>2. CASE ~connected
    BY <2>2, <1>0, TaskState
  <2> QED BY <2>1, <2>2
<1>4. Writes(t, "none", NoLocals, g, e)
  BY <1>0, <1>2 DEF Writes
<1>5. "none" \in Pc /\ "none" \notin InPass /\ NoLocals \in Locals /\ e \in Kind \cup {"free"}
  BY <1>0, ConstantTypes DEF Pc, InPass, Owing
<1> HIDE DEF g, e
<1>6. /\ Types' /\ Acts(t) /\ pc'[t] = "none" /\ loc'[t] = NoLocals /\ gate'[n] = g /\ execution'[n] = e
      /\ used'.routes = used.routes
  BY <1>1, <1>4, <1>5, WritesTyped
<1>7. Locks(t)
  BY <1>0, <1>5, <1>6 DEF Locks, e
<1>8. StuckIsPending'
  BY <1>1, <1>6 DEF IInv, StuckIsPending, Acts
<1>9. ASSUME Quiet' PROVE Promoted(n)'
  <2>1. used.routes = 0
    BY <1>3, <1>6, <1>9 DEF Quiet
  <2>2. ASSUME NEW u \in Task, u[1] = n, pc'[u] \in {"settle", "record"} PROVE FALSE
    <3>1. u # t /\ pc[u] = pc'[u]
      BY <1>6, <2>2 DEF Acts
    <3>2. u[2] # "route" /\ t[2] # "route"
      BY <2>1, <2>2, <3>1, TaskState
    <3> QED BY <2>2, <3>1, <3>2, TaskFacts DEF Kind
  <2> QED BY <1>0, <1>1, <1>6, <2>2, PromotedIf
<1>10. /\ \A o \in Node : loc'[t].page[o] <= held[o][o]
       /\ loc'[t].baseline.ops <= held[Peer(n)][Peer(n)]
  <2>1. \A o \in Node : held[o][o] \in Nat
    BY DEF IInv, Types
  <2> QED BY <1>0, <1>6, <2>1, ConstantTypes, PeerFacts, SMTT(30)
<1>11. gate'[n].lastRemote.ops <= held[Peer(n)][Peer(n)] /\ gate'[n].probed.ops <= held[Peer(n)][Peer(n)]
  BY <1>1, <1>6, TaskState
<1>12. ~(used'.faults = 0)
  BY <1>3, <1>6 DEF Types
<1> HIDE DEF n
<1>13. /\ Types' /\ Acts(t) /\ Locks(t) /\ StuckIsPending' /\ (Quiet' => Promoted(t[1])')
       /\ \A o \in Node : loc'[t].page[o] <= held[o][o]
       /\ loc'[t].baseline.ops <= held[Peer(t[1])][Peer(t[1])]
       /\ gate'[t[1]].lastRemote.ops <= held[Peer(t[1])][Peer(t[1])]
       /\ gate'[t[1]].probed.ops <= held[Peer(t[1])][Peer(t[1])]
  BY <1>6, <1>7, <1>8, <1>9, <1>10, <1>11 DEF n
<1> QED BY <1>12, <1>13, TaskKeeps

(* The probe or the projection is lost.                                    *)
LEMMA CycleCallLostKeeps == ASSUME IInv, NEW n \in Node, CycleCallLost(n) PROVE IInv'
<1> DEFINE t == <<n, "cycle">>
<1>0. t \in Task /\ t[1] = n
  BY TaskFacts
<1>1. /\ pc[t] \in {"probe", "projection"} /\ (IF connected THEN Fault ELSE UNCHANGED used)
      /\ gate' = [gate EXCEPT ![t[1]] = RecordPeerPassFailed(@)]
      /\ pc' = [pc EXCEPT ![t] = "none"] /\ loc' = [loc EXCEPT ![t] = NoLocals]
      /\ UNCHANGED <<held, stuck, prefs, prefRev, execution, connected>>
  BY <1>0 DEF CycleCallLost, Decided, data
<1>2. pc[t] # "none" /\ pc[t] \notin InPass
  BY <1>1 DEF InPass
<1>3. execution' = [execution EXCEPT ![t[1]] = IF pc[t] \in InPass THEN "free" ELSE @]
  BY <1>0, <1>1, <1>2 DEF IInv, Types
<1>4. Kept /\ prefs' \in [Node -> [Node -> Entry]] /\ prefRev' \in [Node -> Nat]
  BY <1>1, DataKept DEF IInv, Types
<1> HIDE DEF t
<1> QED BY <1>0, <1>1, <1>2, <1>3, <1>4, FailKeeps

(* A merge of preferences only takes entries of the peer.                  *)
LEMMA MergeKeeps ==
    ASSUME IInv, NEW D \in [Node -> SUBSET Node], MergePreferences(D)
    PROVE  /\ prefs' \in [Node -> [Node -> Entry]] /\ prefRev' \in [Node -> Nat]
           /\ \A n, d \in Node : prefs'[n][d][1] <= used.prefs
<1> DEFINE changed(m) == {d \in D[m] : Newer(prefs[Peer(m)][d], prefs[m][d])}
<1>1. /\ prefs' = [m \in Node |-> [d \in Node |-> prefs[IF d \in changed(m) THEN Peer(m) ELSE m][d]]]
      /\ prefRev' = [m \in Node |-> prefRev[m] + Cardinality(changed(m))]
  BY DEF MergePreferences
<1>2. \A m \in Node : Cardinality(changed(m)) \in Nat
  <2> TAKE m \in Node
  <2>1. changed(m) \subseteq Node
    OBVIOUS
  <2> QED BY <2>1, NodeAssumption, FS_Subset, FS_CardinalityType
<1>3. prefRev' \in [Node -> Nat]
  <2>1. prefRev \in [Node -> Nat]
    BY DEF IInv, Types
  <2> HIDE DEF changed
  <2> QED BY <1>1, <1>2, <2>1
<1>4. \A m, d \in Node : \E k \in Node : prefs'[m][d] = prefs[k][d]
  <2> TAKE m, d \in Node
  <2>1. prefs'[m][d] = prefs[IF d \in changed(m) THEN Peer(m) ELSE m][d]
    BY <1>1
  <2> QED BY <2>1, PeerFacts
<1>5. prefs \in [Node -> [Node -> Entry]] /\ \A n, d \in Node : prefs[n][d][1] <= used.prefs
  BY DEF IInv, Types, Bounded
<1>6. prefs' \in [Node -> [Node -> Entry]]
  <2>1. \A m, d \in Node : prefs[IF d \in changed(m) THEN Peer(m) ELSE m][d] \in Entry
    BY <1>5, PeerFacts
  <2> HIDE DEF changed
  <2> QED BY <1>1, <2>1
<1> QED BY <1>3, <1>4, <1>5, <1>6

(* A page is received: nobody gets more than its author has.               *)
LEMMA ReceiveKeeps ==
    ASSUME IInv, NEW S, NEW page \in [Node -> Nat], \A o \in Node : page[o] <= held[o][o],
           Receive(S, page), prefs' = prefs
    PROVE  Kept
<1>1. held \in [Node -> [Node -> Nat]] /\ \A n, o \in Node : held[n][o] <= held[o][o]
  BY DEF IInv, Types, Bounded
<1>2. \A n, o \in Node : held'[n][o] = held[n][o] \/ (held'[n][o] = page[o] /\ page[o] >= held[n][o])
  BY <1>1 DEF Receive, Greatest
<1>3. held' \in [Node -> [Node -> Nat]]
  BY <1>1 DEF Receive, Greatest
<1>4. \A n, o \in Node : held[n][o] <= held'[n][o] /\ held'[n][o] <= held[o][o]
  BY <1>1, <1>2, <1>3
<1>5. \A o \in Node : held'[o][o] = held[o][o]
  <2> TAKE o \in Node
  <2>1. held[o][o] <= held'[o][o] /\ held'[o][o] <= held[o][o] /\ held[o][o] \in Nat /\ held'[o][o] \in Nat
    BY <1>1, <1>3, <1>4
  <2> QED BY ONLY <2>1
<1>6. \A n, d \in Node : prefs'[n][d][1] <= used.prefs
  BY DEF IInv, Bounded
<1> QED BY <1>3, <1>4, <1>5, <1>6 DEF Kept

(* A pass that fails, whatever of the data it changed before.              *)
LEMMA PassFailsKeeps ==
    ASSUME IInv, NEW t \in Task, NEW here \in InPass, PassFails(t, here), Kept, stuck' = stuck,
           prefs' \in [Node -> [Node -> Entry]], prefRev' \in [Node -> Nat]
    PROVE  IInv'
<1>1. /\ pc[t] = here /\ (IF connected THEN Fault ELSE UNCHANGED used)
      /\ gate' = [gate EXCEPT ![t[1]] = RecordPeerPassFailed(@)]
      /\ pc' = [pc EXCEPT ![t] = "none"] /\ loc' = [loc EXCEPT ![t] = NoLocals]
      /\ execution' = [execution EXCEPT ![t[1]] = "free"]
      /\ UNCHANGED connected
  BY DEF PassFails, PassEnds
<1>2. pc[t] # "none" /\ pc[t] \in InPass
  BY <1>1 DEF InPass
<1>3. execution' = [execution EXCEPT ![t[1]] = IF pc[t] \in InPass THEN "free" ELSE @]
  BY <1>1, <1>2
<1> QED BY <1>1, <1>2, <1>3, FailKeeps

(* The exchange of preferences is cut off between two merges.              *)
LEMMA PassPreferencesFailsKeeps == ASSUME IInv, NEW t \in Task, PassPreferencesFails(t) PROVE IInv'
<1>0. t[1] \in Node /\ Peer(t[1]) \in Node
  BY TaskFacts, PeerFacts
<1>1. PassFails(t, "prefs") /\ UNCHANGED <<held, stuck>> /\ "prefs" \in InPass
  BY DEF PassPreferencesFails, InPass
<1>2. PICK D \in [Node -> SUBSET Node] : MergePreferences(D)
  <2> DEFINE p == Peer(t[1])
  <2>1. PICK done \in IF connected THEN {<<{}, {}>>, <<{}, {p}>>, <<{p}, {p}>>, <<{p}, Node>>} ELSE {<<{}, {}>>} :
           MergePreferences([m \in Node |-> IF m = t[1] THEN done[1] ELSE done[2]])
    BY Zenon DEF PassPreferencesFails
  <2>2. done[1] \in SUBSET Node /\ done[2] \in SUBSET Node
    BY <1>0
  <2>3. [m \in Node |-> IF m = t[1] THEN done[1] ELSE done[2]] \in [Node -> SUBSET Node]
    BY <2>2
  <2> QED BY <2>1, <2>3
<1>3. /\ prefs' \in [Node -> [Node -> Entry]] /\ prefRev' \in [Node -> Nat]
      /\ \A n, d \in Node : prefs'[n][d][1] <= used.prefs
  BY <1>2, MergeKeeps
<1>4. Kept
  BY <1>1, <1>3 DEF IInv, Types, Bounded, Kept
<1> QED BY <1>1, <1>3, <1>4, PassFailsKeeps

(* The receipts or the exports of a page are lost.                         *)
LEMMA PassPageFailsKeeps == ASSUME IInv, NEW t \in Task, PassPageFails(t) PROVE IInv'
BY DataKept, PassFailsKeeps DEF PassPageFails, data, IInv, Types, InPass

(* The retry of what waits is lost.                                        *)
LEMMA PassSettleFailsKeeps == ASSUME IInv, NEW t \in Task, PassSettleFails(t) PROVE IInv'
BY DataKept, PassFailsKeeps DEF PassSettleFails, data, IInv, Types, InPass

(* One side of the page fails, whoever has received it.                    *)
LEMMA PassApplyFailsKeeps == ASSUME IInv, NEW t \in Task, PassApplyFails(t) PROVE IInv'
<1>1. PassFails(t, "apply") /\ UNCHANGED <<stuck, prefs, prefRev>> /\ "apply" \in InPass
  BY DEF PassApplyFails, InPass
<1>2. PICK S : Receive(S, loc[t].page)
  BY Zenon DEF PassApplyFails
<1>3. loc[t].page \in [Node -> Nat] /\ \A o \in Node : loc[t].page[o] <= held[o][o]
  BY TaskState DEF Locals
<1>4. Kept
  BY <1>1, <1>2, <1>3, ReceiveKeeps
<1>5. prefs' \in [Node -> [Node -> Entry]] /\ prefRev' \in [Node -> Nat]
  BY <1>1 DEF IInv, Types
<1> QED BY <1>1, <1>4, <1>5, PassFailsKeeps

(* The mutex is taken, kept or given back.                                 *)
Mutex(t, there, e) ==
    \/ pc[t] \in InPass /\ there \in InPass /\ e = execution[t[1]]
    \/ pc[t] \notin InPass /\ there \in InPass /\ execution[t[1]] = "free" /\ e = t[2]
    \/ pc[t] \in InPass /\ there \notin InPass /\ e = "free"

(* The values a step writes are bounded like the ones before.              *)
Sound(t, l, g) ==
    /\ \A o \in Node : l.page[o] <= held[o][o]
    /\ t[2] = "cycle" => l.baseline.ops <= held[Peer(t[1])][Peer(t[1])]
    /\ g.lastRemote.ops <= held[Peer(t[1])][Peer(t[1])]
    /\ g.probed.ops <= held[Peer(t[1])][Peer(t[1])]
    /\ used.faults = 0 => g.failures = 0

(* A step of a pass keeps the invariant when it keeps what concerns its    *)
(* gate.                                                                   *)
LEMMA PassKeeps ==
    ASSUME IInv, NEW t \in Task, NEW there \in Pc, NEW l \in Locals, NEW g \in Gate,
           NEW e \in Kind \cup {"free"}, Writes(t, there, l, g, e), Kept, Mutex(t, there, e), Sound(t, l, g),
           pc[t] # "none", StuckIsPending', Quiet' => Promoted(t[1])'
    PROVE  IInv'
<1>1. /\ Types' /\ Acts(t) /\ pc'[t] = there /\ loc'[t] = l /\ gate'[t[1]] = g /\ execution'[t[1]] = e
      /\ used'.faults >= used.faults
  BY WritesTyped
<1>2. Locks(t)
  BY <1>1 DEF Locks, Mutex
<1>3. used'.faults = 0 => used.faults = 0
  BY <1>1 DEF IInv, Types
<1> QED BY <1>1, <1>2, <1>3, TaskKeeps DEF Sound

(* A step after which the pass compares the receipts, or work is pending.  *)
LEMMA CoveringKeeps ==
    ASSUME IInv, NEW t \in Task, NEW there \in Pc, NEW l \in Locals, NEW g \in Gate,
           NEW e \in Kind \cup {"free"}, Writes(t, there, l, g, e), Kept, Mutex(t, there, e), Sound(t, l, g),
           pc[t] # "none", StuckIsPending', there \in Comparing \/ g.pendingWork
    PROVE  IInv'
<1>1. /\ pc'[t] = there /\ gate'[t[1]] = g /\ t[1] \in Node
  BY WritesTyped, TaskFacts
<1>2. Covered(t[1])'
  BY <1>1 DEF Covered, WillCompare
<1>3. Promoted(t[1])'
  BY <1>1, <1>2, PromotedIf
<1> QED BY <1>3, PassKeeps

(* What a task and its gate have is bounded already.                       *)
LEMMA SameSound == ASSUME IInv, NEW t \in Task PROVE Sound(t, loc[t], gate[t[1]])
BY TaskState DEF Sound

(* A pass takes the mutex.                                                 *)
LEMMA PassBeginsKeeps == ASSUME IInv, NEW t \in Task, PassBegins(t) PROVE IInv'
<1>0. t[1] \in Node /\ loc[t] \in Locals /\ gate[t[1]] \in Gate /\ t[2] \in Kind \cup {"free"}
  BY TaskState, TaskFacts
<1>1. /\ pc[t] = "lock" /\ pc' = [pc EXCEPT ![t] = "prefs"] /\ execution[t[1]] = "free"
      /\ execution' = [execution EXCEPT ![t[1]] = t[2]]
      /\ UNCHANGED <<held, stuck, prefs, prefRev, gate, loc, connected, used>>
  BY DEF PassBegins, Move, data
<1>2. Writes(t, "prefs", loc[t], gate[t[1]], t[2])
  BY <1>0, <1>1 DEF Writes, IInv, Types
<1>3. "prefs" \in Pc /\ "prefs" \in Comparing /\ Mutex(t, "prefs", t[2]) /\ pc[t] # "none"
  BY <1>1 DEF Pc, InPass, Owing, Comparing, Mutex
<1>4. StuckIsPending'
  BY <1>1 DEF IInv, StuckIsPending
<1>5. Kept
  BY <1>1, DataKept
<1> QED BY <1>0, <1>2, <1>3, <1>4, <1>5, SameSound, CoveringKeeps

(* The preferences are exchanged.                                          *)
LEMMA PassPreferencesKeeps == ASSUME IInv, NEW t \in Task, PassPreferences(t) PROVE IInv'
<1>0. t[1] \in Node /\ loc[t] \in Locals /\ gate[t[1]] \in Gate /\ execution[t[1]] \in Kind \cup {"free"}
  BY TaskState, TaskFacts DEF IInv, Types
<1>1. /\ pc[t] = "prefs" /\ pc' = [pc EXCEPT ![t] = "page"]
      /\ MergePreferences([m \in Node |-> Node])
      /\ UNCHANGED <<held, stuck, gate, execution, loc, connected, used>>
  BY DEF PassPreferences, Move
<1>2. /\ prefs' \in [Node -> [Node -> Entry]] /\ prefRev' \in [Node -> Nat]
      /\ \A n, d \in Node : prefs'[n][d][1] <= used.prefs
  <2>1. [m \in Node |-> Node] \in [Node -> SUBSET Node]
    OBVIOUS
  <2> QED BY <1>1, <2>1, MergeKeeps
<1>3. Writes(t, "page", loc[t], gate[t[1]], execution[t[1]])
  BY <1>0, <1>1, <1>2 DEF Writes, IInv, Types
<1>4. "page" \in Pc /\ "page" \in Comparing /\ Mutex(t, "page", execution[t[1]]) /\ pc[t] # "none"
  BY <1>1 DEF Pc, InPass, Owing, Comparing, Mutex
<1>5. StuckIsPending'
  BY <1>1 DEF IInv, StuckIsPending
<1>6. Kept
  BY <1>1, <1>2 DEF IInv, Types, Bounded, Kept
<1> QED BY <1>0, <1>3, <1>4, <1>5, <1>6, SameSound, CoveringKeeps

(* What a gate is with another mark of pending work.                       *)
LEMMA MarkedGate ==
    ASSUME NEW x \in Gate, NEW w \in BOOLEAN
    PROVE  LET g == [x EXCEPT !.pendingWork = w]
           IN  /\ g \in Gate /\ g.pendingWork = w /\ g.lastRemote = x.lastRemote /\ g.probed = x.probed
               /\ g.failures = x.failures
BY DEF Gate

(* Both sides receive the page.                                            *)
LEMMA PassApplyKeeps == ASSUME IInv, NEW t \in Task, PassApply(t) PROVE IInv'
<1> DEFINE l == [loc[t] EXCEPT !.page = NoPage]
<1>0. /\ t[1] \in Node /\ loc[t] \in Locals /\ gate[t[1]] \in Gate /\ execution[t[1]] \in Kind \cup {"free"}
      /\ gate \in [Node -> Gate] /\ loc \in [Task -> Locals] /\ stuck \in [Node -> BOOLEAN]
  BY TaskState, TaskFacts DEF IInv, Types
<1>1. /\ pc[t] = "apply" /\ pc' = [pc EXCEPT ![t] = "page"] /\ Receive(Node, loc[t].page)
      /\ loc' = [loc EXCEPT ![t].page = NoPage]
      /\ UNCHANGED <<prefs, prefRev, execution, connected>>
  BY DEF PassApply, Move
<1>2. l \in Locals /\ l.baseline = loc[t].baseline /\ l.page = NoPage /\ loc' = [loc EXCEPT ![t] = l]
  BY <1>0, <1>1, ConstantTypes DEF Locals
<1>3. PICK g \in Gate :
         /\ gate' = [gate EXCEPT ![t[1]] = g] /\ g.lastRemote = gate[t[1]].lastRemote
         /\ g.probed = gate[t[1]].probed /\ g.failures = gate[t[1]].failures
         /\ (used' = used /\ stuck' = stuck /\ g = gate[t[1]]) \/ (Fault /\ stuck' \in [Node -> BOOLEAN] /\ g.pendingWork)
  <2>1. CASE UNCHANGED <<stuck, gate, used>>
    BY <1>0, <2>1
  <2>2. CASE /\ Fault
             /\ \E m \in Node : stuck' = [stuck EXCEPT ![m] = TRUE]
             /\ gate' = [gate EXCEPT ![t[1]].pendingWork = TRUE]
    <3> DEFINE g == [gate[t[1]] EXCEPT !.pendingWork = TRUE]
    <3>1. /\ g \in Gate /\ g.pendingWork = TRUE /\ g.lastRemote = gate[t[1]].lastRemote
          /\ g.probed = gate[t[1]].probed /\ g.failures = gate[t[1]].failures
      BY <1>0, MarkedGate
    <3>2. gate' = [gate EXCEPT ![t[1]] = g]
      BY <1>0, <2>2
    <3>3. stuck' \in [Node -> BOOLEAN]
      BY <1>0, <2>2
    <3> HIDE DEF g
    <3> QED BY <2>2, <3>1, <3>2, <3>3
  <2> QED BY <2>1, <2>2 DEF PassApply
<1>4. used' = used \/ used' = [used EXCEPT !.faults = @ + 1]
  BY <1>3 DEF Fault
<1>5. Writes(t, "page", l, g, execution[t[1]])
  BY <1>0, <1>1, <1>2, <1>3, <1>4 DEF Writes, IInv, Types
<1>6. "page" \in Pc /\ "page" \in Comparing /\ Mutex(t, "page", execution[t[1]]) /\ pc[t] # "none"
  BY <1>1 DEF Pc, InPass, Owing, Comparing, Mutex
<1>7. StuckIsPending'
  <2>1. CASE used' = used /\ stuck' = stuck /\ g = gate[t[1]]
    BY <1>0, <1>3, <2>1 DEF IInv, StuckIsPending
  <2>2. CASE g.pendingWork
    BY <1>0, <1>3, <2>2 DEF StuckIsPending
  <2> QED BY <1>3, <2>1, <2>2
<1>8. Kept
  <2>1. loc[t].page \in [Node -> Nat] /\ \A o \in Node : loc[t].page[o] <= held[o][o]
    BY TaskState DEF Locals
  <2> QED BY <1>1, <2>1, ReceiveKeeps
<1>9. Sound(t, l, g)
  <2>1. \A o \in Node : held[o][o] \in Nat /\ l.page[o] = 0
    BY <1>2 DEF IInv, Types, NoPage
  <2> HIDE DEF l
  <2> QED BY <1>2, <1>3, <2>1, TaskState DEF Sound
<1> HIDE DEF l
<1> QED BY <1>0, <1>2, <1>5, <1>6, <1>7, <1>8, <1>9, CoveringKeeps

(* The page of a pass holds nothing that its author does not have.         *)
LEMMA PageBounded ==
    ASSUME IInv, NEW n \in Node, NEW p \in Node
    PROVE  LET page == [o \in Node |-> Greatest(OperationsSince(n, held[p])[o], OperationsSince(p, held[n])[o])]
           IN  page \in [Node -> Nat] /\ \A o \in Node : page[o] <= held[o][o]
<1>1. held \in [Node -> [Node -> Nat]] /\ \A m, o \in Node : held[m][o] <= held[o][o]
  BY DEF IInv, Types, Bounded
<1>2. \A m, k, o \in Node : OperationsSince(m, held[k])[o] \in Nat /\ OperationsSince(m, held[k])[o] <= held[m][o]
  <2> TAKE m, k, o \in Node
  <2>1. held[m][o] \in Nat /\ held[k][o] + PageLimit \in Nat
    BY <1>1, BoundAssumption
  <2>2. OperationsSince(m, held[k])[o] = Least(held[m][o], held[k][o] + PageLimit)
    BY DEF OperationsSince
  <2> QED BY <2>1, <2>2 DEF Least
<1>3. \A o \in Node : LET v == Greatest(OperationsSince(n, held[p])[o], OperationsSince(p, held[n])[o])
                     IN  v \in Nat /\ v <= held[o][o]
  <2> TAKE o \in Node
  <2>1. /\ OperationsSince(n, held[p])[o] \in Nat /\ OperationsSince(n, held[p])[o] <= held[n][o]
        /\ OperationsSince(p, held[n])[o] \in Nat /\ OperationsSince(p, held[n])[o] <= held[p][o]
        /\ held[n][o] <= held[o][o] /\ held[p][o] <= held[o][o]
        /\ held[n][o] \in Nat /\ held[p][o] \in Nat /\ held[o][o] \in Nat
    BY <1>1, <1>2
  <2> QED BY <2>1 DEF Greatest
<1> QED BY <1>3

(* A page, or none: both members hold the same, the pass is cut off and    *)
(* work is pending, or there is a page to apply.                           *)
LEMMA PassPageKeeps == ASSUME IInv, NEW t \in Task, PassPage(t) PROVE IInv'
<1> DEFINE n == t[1]
           p == Peer(n)
           waiting == stuck[n] \/ stuck[p]
           mine == OperationsSince(n, held[p])
           theirs == OperationsSince(p, held[n])
           page == [o \in Node |-> Greatest(mine[o], theirs[o])]
<1>0. /\ n \in Node /\ p \in Node /\ loc[t] \in Locals /\ gate[n] \in Gate /\ execution[n] \in Kind \cup {"free"}
      /\ gate \in [Node -> Gate] /\ loc \in [Task -> Locals] /\ waiting \in BOOLEAN
  BY TaskState, TaskFacts DEF IInv, Types
<1>1. /\ pc[t] = "page" /\ UNCHANGED <<held, stuck, prefs, prefRev, execution, connected, used>>
  BY DEF PassPage, data
<1>2. page \in [Node -> Nat] /\ \A o \in Node : page[o] <= held[o][o]
  BY <1>0, PageBounded
<1> HIDE DEF page
<1> DEFINE Paged(there, w, l) ==
              /\ pc' = [pc EXCEPT ![t] = there] /\ gate' = [gate EXCEPT ![n].pendingWork = w]
              /\ loc' = [loc EXCEPT ![t] = l]
              /\ l.baseline = loc[t].baseline /\ (l.page = page \/ l.page = loc[t].page)
              /\ there = "settle" => held[n] = held[p]
              /\ there = "record" => w
              /\ w = waiting \/ w
<1>3. PICK there \in {"settle", "record", "apply"}, w \in BOOLEAN, l \in Locals : Paged(there, w, l)
  <2>1. ASSUME held[n] = held[p], pc' = [pc EXCEPT ![t] = "settle"],
               gate' = [gate EXCEPT ![n].pendingWork = waiting], UNCHANGED loc
        PROVE  \E there \in {"settle", "record", "apply"}, w \in BOOLEAN, l \in Locals : Paged(there, w, l)
    BY <1>0, <2>1
  <2>2. ASSUME pc' = [pc EXCEPT ![t] = "record"],
               gate' = [gate EXCEPT ![n].pendingWork = TRUE], UNCHANGED loc
        PROVE  \E there \in {"settle", "record", "apply"}, w \in BOOLEAN, l \in Locals : Paged(there, w, l)
    BY <1>0, <2>2
  <2>3. ASSUME pc' = [pc EXCEPT ![t] = "apply"], gate' = [gate EXCEPT ![n].pendingWork = waiting],
               loc' = [loc EXCEPT ![t].page = page, ![t].pages = @ + 1]
        PROVE  \E there \in {"settle", "record", "apply"}, w \in BOOLEAN, l \in Locals : Paged(there, w, l)
    <3> DEFINE l == [loc[t] EXCEPT !.page = page, !.pages = loc[t].pages + 1]
    <3>1. l \in Locals /\ l.baseline = loc[t].baseline /\ l.page = page
      <4>1. loc[t].pages + 1 \in Nat
        BY <1>0 DEF Locals
      <4> QED BY <1>0, <1>2, <4>1 DEF Locals
    <3>2. loc' = [loc EXCEPT ![t] = l]
      BY <1>0, <2>3
    <3> HIDE DEF l
    <3> QED BY <1>0, <2>3, <3>1, <3>2
  <2> QED BY <2>1, <2>2, <2>3 DEF PassPage, page
<1> DEFINE g == [gate[n] EXCEPT !.pendingWork = w]
<1>4. /\ g \in Gate /\ g.pendingWork = w /\ g.lastRemote = gate[n].lastRemote
      /\ g.probed = gate[n].probed /\ g.failures = gate[n].failures
  BY <1>0, MarkedGate
<1>5. gate' = [gate EXCEPT ![n] = g]
  BY <1>0, <1>3
<1> HIDE DEF g
<1>6. Writes(t, there, l, g, execution[n])
  BY <1>0, <1>1, <1>3, <1>5 DEF Writes, IInv, Types
<1>7. there \in Pc /\ Mutex(t, there, execution[n]) /\ pc[t] # "none" /\ there \in InPass
  BY <1>1 DEF Pc, InPass, Owing, Mutex
<1>8. StuckIsPending'
  <2> SUFFICES ASSUME NEW m \in Node, stuck[m] PROVE w
    BY <1>0, <1>1, <1>4, <1>5 DEF StuckIsPending
  <2>1. m = n \/ m = p
    BY <1>0, PeerFacts
  <2> QED BY <1>3, <2>1
<1>9. Kept
  BY <1>1, DataKept
<1>10. Sound(t, l, g)
  BY <1>2, <1>3, <1>4, TaskState DEF Sound
<1>11. CASE there # "settle"
  <2>1. there \in Comparing \/ g.pendingWork
    BY <1>3, <1>4, <1>11 DEF Comparing
  <2> HIDE DEF n
  <2>2. execution[t[1]] = execution[n]
    BY DEF n
  <2> QED BY <1>0, <1>4, <1>6, <1>7, <1>8, <1>9, <1>10, <2>1, <2>2, CoveringKeeps
<1>12. CASE there = "settle"
  <2>1. held[n] = held[p] /\ held' = held
    BY <1>1, <1>3, <1>12
  <2>2. gate'[n] = g
    BY <1>0, <1>5
  <2>3. gate'[n].lastRemote.ops <= held'[n][p] /\ gate'[n].probed.ops <= held'[n][p]
    BY <1>4, <2>1, <2>2, TaskState
  <2>4. loc'[<<n, "cycle">>].baseline.ops <= held'[n][p]
    <3> DEFINE c == <<n, "cycle">>
    <3>1. c \in Task /\ c[1] = n /\ c[2] = "cycle"
      BY <1>0, TaskFacts
    <3>2. loc'[c].baseline = loc[c].baseline
      BY <1>0, <1>3, <3>1
    <3>3. loc[c].baseline.ops <= held[p][p]
      BY <3>1, TaskState
    <3> QED BY <2>1, <3>2, <3>3
  <2>5. Promoted(n)'
    BY <1>0, <2>3, <2>4, PromotedIf
  <2> QED BY <1>0, <1>4, <1>6, <1>7, <1>8, <1>9, <1>10, <2>5, PassKeeps
<1> QED BY <1>11, <1>12

(* The members settle what waits, or work stays pending.                   *)
LEMMA PassSettleKeeps == ASSUME IInv, NEW t \in Task, PassSettle(t) PROVE IInv'
<1> DEFINE n == t[1]
<1>0. /\ n \in Node /\ loc[t] \in Locals /\ gate[n] \in Gate /\ execution[n] \in Kind \cup {"free"}
      /\ gate \in [Node -> Gate] /\ stuck \in [Node -> BOOLEAN]
  BY TaskState, TaskFacts DEF IInv, Types
<1>1. /\ pc[t] = "settle" /\ pc' = [pc EXCEPT ![t] = "record"]
      /\ UNCHANGED <<held, prefs, prefRev, execution, loc, connected>>
  BY DEF PassSettle, Move
<1>2. PICK g \in Gate :
         /\ gate' = [gate EXCEPT ![n] = g] /\ g.lastRemote = gate[n].lastRemote
         /\ g.probed = gate[n].probed /\ g.failures = gate[n].failures
         /\ gate[n].pendingWork => g.pendingWork
         /\ stuck' \in [Node -> BOOLEAN]
         /\ (used' = used /\ \A m \in Node : ~stuck'[m]) \/ (Fault /\ g.pendingWork)
  <2>1. CASE stuck' = [m \in Node |-> FALSE] /\ UNCHANGED <<gate, used>>
    BY <1>0, <2>1
  <2>2. CASE Fault /\ gate' = [gate EXCEPT ![n].pendingWork = TRUE] /\ UNCHANGED stuck
    <3> DEFINE g == [gate[n] EXCEPT !.pendingWork = TRUE]
    <3>1. /\ g \in Gate /\ g.pendingWork = TRUE /\ g.lastRemote = gate[n].lastRemote
          /\ g.probed = gate[n].probed /\ g.failures = gate[n].failures
      BY <1>0, MarkedGate
    <3>2. gate' = [gate EXCEPT ![n] = g]
      BY <1>0, <2>2
    <3> HIDE DEF g
    <3> QED BY <1>0, <2>2, <3>1, <3>2
  <2> QED BY <2>1, <2>2 DEF PassSettle
<1>3. used' = used \/ used' = [used EXCEPT !.faults = @ + 1]
  BY <1>2 DEF Fault
<1>4. Writes(t, "record", loc[t], g, execution[n])
  BY <1>0, <1>1, <1>2, <1>3 DEF Writes, IInv, Types
<1>5. "record" \in Pc /\ Mutex(t, "record", execution[n]) /\ pc[t] # "none" /\ "record" \notin Comparing
      /\ pc[t] \notin Comparing /\ pc[t] \notin Owing
  BY <1>1 DEF Pc, InPass, Owing, Mutex, Comparing
<1>6. StuckIsPending'
  BY <1>0, <1>2 DEF StuckIsPending
<1>7. Kept
  BY <1>1, DataKept
<1>8. Sound(t, loc[t], g)
  BY <1>2, TaskState DEF Sound
<1>9. /\ Types' /\ Acts(t) /\ pc'[t] = "record" /\ loc'[t] = loc[t] /\ gate'[n] = g
      /\ used'.routes = used.routes /\ used'.faults >= used.faults
  BY <1>0, <1>4, <1>5, <1>7, WritesTyped
<1>10. ASSUME Quiet' PROVE Promoted(n)'
  <2>1. Promoted(n) /\ held' = held
    BY <1>0, <1>1, <1>9, <1>10 DEF IInv, Promotion, Quiet, Types
  <2>2. Covered(n) => Covered(n)'
    BY <1>2, <1>5, <1>9, CoverKept
  <2>3. gate'[n].lastRemote.ops <= held'[n][Peer(n)] \/ Covered(n)' \/ gate'[n].failures > 0
    <3>1. Fetched(n, gate[n].lastRemote) \/ Covered(n) \/ gate[n].failures > 0
      BY <2>1 DEF Promoted
    <3> QED BY <1>2, <1>9, <2>1, <2>2, <3>1 DEF Fetched
  <2>4. ASSUME pc'[<<n, "cycle">>] = "probe"
        PROVE  loc'[<<n, "cycle">>].baseline.ops <= held'[n][Peer(n)] \/ Covered(n)' \/ gate'[n].failures > 0
    <3>1. pc[<<n, "cycle">>] = "probe"
      BY <1>0, <1>9, <2>4, TaskFacts DEF Acts
    <3>2. Fetched(n, loc[<<n, "cycle">>].baseline) \/ Covered(n) \/ gate[n].failures > 0
      BY <2>1, <3>1 DEF Promoted
    <3> QED BY <1>1, <1>2, <1>9, <2>1, <2>2, <3>2 DEF Fetched
  <2>5. \/ gate'[n].probed.ops <= held'[n][Peer(n)] /\ gate'[n].lastRemote.ops <= held'[n][Peer(n)]
        \/ Covered(n)'
    <3>1. (Fetched(n, gate[n].probed) /\ Fetched(n, gate[n].lastRemote)) \/ Covered(n)
      BY <1>1, <2>1 DEF Promoted
    <3> QED BY <1>2, <1>9, <2>1, <2>2, <3>1 DEF Fetched
  <2> QED BY <1>0, <2>3, <2>4, <2>5, PromotedIf
<1> QED BY <1>0, <1>4, <1>5, <1>6, <1>7, <1>8, <1>10, PassKeeps

(* What a gate is after a pass.                                            *)
LEMMA CompletedGate ==
    ASSUME NEW x \in Gate, NEW s \in Summary
    PROVE  LET g == RecordPeerPassCompleted(x, s)
           IN  /\ g \in Gate /\ g.failures = 0 /\ g.pendingWork = x.pendingWork /\ g.probed = None
               /\ g.lastRemote = x.probed \/ g.lastRemote = x.lastRemote
<1>1. None \in Summary
  BY ConstantTypes
<1> QED BY <1>1 DEF RecordPeerPassCompleted, Gate

(* A pass that is over promotes what it has fetched.                       *)
LEMMA PassRecordKeeps == ASSUME IInv, NEW t \in Task, PassRecord(t) PROVE IInv'
<1> DEFINE n == t[1]
           g == RecordPeerPassCompleted(gate[n], LocalStateSummary(n))
<1>0. /\ n \in Node /\ loc[t] \in Locals /\ gate[n] \in Gate /\ execution[n] \in Kind \cup {"free"}
      /\ gate \in [Node -> Gate] /\ stuck \in [Node -> BOOLEAN]
  BY TaskState, TaskFacts DEF IInv, Types
<1>1. /\ pc[t] = "record" /\ pc' = [pc EXCEPT ![t] = "none"] /\ loc' = [loc EXCEPT ![t] = NoLocals]
      /\ execution' = [execution EXCEPT ![n] = "free"] /\ gate' = [gate EXCEPT ![n] = g]
      /\ UNCHANGED <<held, stuck, prefs, prefRev, connected, used>>
  BY DEF PassRecord, PassEnds, data
<1>2. LocalStateSummary(n) \in Summary
  <2>1. held[n][n] \in Nat /\ prefRev[n] \in Nat
    BY <1>0 DEF IInv, Types
  <2> QED BY <2>1, ConstantTypes DEF LocalStateSummary
<1>3. /\ g \in Gate /\ g.failures = 0 /\ g.pendingWork = gate[n].pendingWork /\ g.probed = None
      /\ g.lastRemote = gate[n].probed \/ g.lastRemote = gate[n].lastRemote
  BY <1>0, <1>2, CompletedGate
<1> HIDE DEF g
<1>4. Writes(t, "none", NoLocals, g, "free")
  BY <1>0, <1>1 DEF Writes, IInv, Types
<1>5. "none" \in Pc /\ Mutex(t, "none", "free") /\ pc[t] # "none" /\ pc[t] \in InPass
      /\ pc[t] \notin Comparing /\ pc[t] \notin Owing /\ NoLocals \in Locals
  BY <1>1, ConstantTypes DEF Pc, InPass, Owing, Mutex, Comparing
<1>6. StuckIsPending'
  BY <1>0, <1>1, <1>3 DEF IInv, StuckIsPending
<1>7. Kept
  BY <1>1, DataKept
<1>8. Sound(t, NoLocals, g)
  <2>1. \A o \in Node : held[o][o] \in Nat
    BY DEF IInv, Types
  <2>2. None.ops = 0 /\ Peer(n) \in Node
    BY <1>0, PeerFacts DEF None
  <2> QED BY <1>3, <2>1, <2>2, TaskState, ConstantTypes DEF Sound
<1>9. /\ Types' /\ Acts(t) /\ pc'[t] = "none" /\ loc'[t] = NoLocals /\ gate'[n] = g
      /\ used'.routes = used.routes
  BY <1>3, <1>4, <1>5, <1>7, WritesTyped
<1>10. ASSUME Quiet' PROVE Promoted(n)'
  <2>1. Promoted(n) /\ held' = held /\ Quiet
    BY <1>0, <1>1, <1>10 DEF IInv, Promotion, Quiet
  <2>2. Covered(n) => Covered(n)'
    BY <1>3, <1>5, <1>9, CoverKept
  <2>3. (Fetched(n, gate[n].probed) /\ Fetched(n, gate[n].lastRemote)) \/ Covered(n)
    BY <1>1, <2>1 DEF Promoted
  <2>4. gate'[n].lastRemote.ops <= held'[n][Peer(n)] \/ Covered(n)'
    BY <1>3, <1>9, <2>1, <2>2, <2>3 DEF Fetched
  <2>5. ASSUME pc'[<<n, "cycle">>] = "probe"
        PROVE  loc'[<<n, "cycle">>].baseline.ops <= held'[n][Peer(n)] \/ Covered(n)'
    <3> DEFINE c == <<n, "cycle">>
    <3>0. c \in Task /\ c[1] = n /\ c[2] = "cycle"
      BY <1>0, TaskFacts
    <3>1. c # t /\ pc[c] = "probe" /\ loc'[c] = loc[c]
      BY <1>9, <2>5, <3>0 DEF Acts
    <3>2. gate[n].failures = 0
      <4>1. t[2] = "route"
        BY <3>0, <3>1, TaskFacts DEF Kind
      <4>2. used.routes # 0
        BY <1>5, <4>1, TaskState
      <4> QED BY <2>1, <4>2, TaskState DEF Quiet
    <3>3. Fetched(n, loc[c].baseline) \/ Covered(n) \/ gate[n].failures > 0
      BY <2>1, <3>1 DEF Promoted
    <3> QED BY <2>1, <2>2, <3>1, <3>2, <3>3 DEF Fetched
  <2>6. ASSUME NEW u \in Task, u[1] = n, pc'[u] \in {"settle", "record"} PROVE FALSE
    <3>1. u # t /\ pc[u] \in InPass
      BY <1>9, <2>6 DEF Acts, InPass
    <3> QED BY <1>5, <2>6, <3>1, Alone
  <2> QED BY <1>0, <2>4, <2>5, <2>6, PromotedIf
<1> QED BY <1>3, <1>4, <1>5, <1>6, <1>7, <1>8, <1>10, PassKeeps

-----------------------------------------------------------------------------
(* The users of the members, and the connection                            *)

(* The end of a backoff changes no baseline.                               *)
LEMMA BackoffElapsesKeeps == ASSUME IInv, NEW n \in Node, BackoffElapses(n) PROVE IInv'
<1> DEFINE t == <<n, "cycle">>
           g == [gate[n] EXCEPT !.waiting = FALSE]
<1>0. t \in Task /\ t[1] = n /\ t[2] = "cycle"
  BY TaskFacts
<1>1. /\ gate' = [gate EXCEPT ![n].waiting = FALSE]
      /\ UNCHANGED <<held, stuck, prefs, prefRev, execution, pc, loc, connected, used>>
  BY DEF BackoffElapses, data
<1>2. gate[n] \in Gate /\ gate \in [Node -> Gate] /\ pc[t] \in Pc /\ loc[t] \in Locals
  BY <1>0 DEF IInv, Types
<1>3. /\ g \in Gate /\ g.lastRemote = gate[n].lastRemote /\ g.probed = gate[n].probed
      /\ g.failures = gate[n].failures /\ g.pendingWork = gate[n].pendingWork
  BY <1>2 DEF Gate
<1>4. gate' = [gate EXCEPT ![t[1]] = g]
  BY <1>0, <1>1, <1>2
<1> HIDE DEF t, g
<1>5. PICK there \in Pc, l \in Locals : there = pc[t] /\ l = loc[t]
  BY <1>2, Zenon
<1>6. Does(t, there, l, g)
  BY <1>0, <1>1, <1>4, <1>5 DEF Does, IInv, Types
<1>7. Quiet' => Promoted(n)'
  <2> SUFFICES ASSUME Quiet' PROVE Promoted(n)'
    OBVIOUS
  <2>0. Promoted(n)
    BY <1>1 DEF IInv, Promotion, Quiet
  <2>1. gate'[n] = g /\ held' = held
    BY <1>0, <1>1, <1>2, <1>4
  <2>2. Covered(n) <=> Covered(n)'
    BY <1>1, <1>3, <2>1 DEF Covered, WillCompare, WillPass
  <2>3. gate'[n].lastRemote.ops <= held'[n][Peer(n)] \/ Covered(n)' \/ gate'[n].failures > 0
    BY <1>3, <2>0, <2>1, <2>2 DEF Promoted, Fetched
  <2>4. pc'[<<n, "cycle">>] = "probe" =>
           \/ loc'[<<n, "cycle">>].baseline.ops <= held'[n][Peer(n)]
           \/ Covered(n)' \/ gate'[n].failures > 0
    BY <1>1, <1>3, <2>0, <2>1, <2>2 DEF Promoted, Fetched
  <2>5. \A u \in Task : u[1] = n /\ pc'[u] \in {"settle", "record"} =>
           \/ gate'[n].probed.ops <= held'[n][Peer(n)] /\ gate'[n].lastRemote.ops <= held'[n][Peer(n)]
           \/ Covered(n)'
    BY <1>1, <1>3, <2>0, <2>1, <2>2 DEF Promoted, Fetched
  <2> QED BY <2>3, <2>4, <2>5, PromotedIf
<1>8. /\ \A o \in Node : l.page[o] <= held[o][o]
      /\ l.baseline.ops <= held[Peer(t[1])][Peer(t[1])]
      /\ g.lastRemote = gate[t[1]].lastRemote /\ g.failures = gate[t[1]].failures
      /\ g.pendingWork = gate[t[1]].pendingWork
      /\ g.probed.ops <= held[Peer(t[1])][Peer(t[1])]
      /\ (Quiet' => Promoted(t[1])')
      /\ (pc[t] \in InPass <=> there \in InPass)
  BY <1>0, <1>3, <1>5, <1>7, TaskState
<1> QED BY <1>0, <1>3, <1>6, <1>8, StepKeeps

(* A step outside the tasks and the gates.                                 *)
LEMMA OutsideKeeps ==
    ASSUME IInv, Types', Bounded', UNCHANGED <<stuck, gate, execution, pc, loc>>,
           \A n, o \in Node : held[n][o] <= held'[n][o],
           used'.routes = used.routes, used'.faults >= used.faults,
           used'.faults = 0 => connected'
    PROVE  IInv'
<1>1. Exclusive' /\ StuckIsPending'
  BY DEF IInv, Exclusive, StuckIsPending
<1>2. Digests'
  <2> SUFFICES ASSUME NEW n \in Node
               PROVE  /\ gate[n].lastRemote.ops <= held'[Peer(n)][Peer(n)]
                      /\ gate[n].probed.ops <= held'[Peer(n)][Peer(n)]
                      /\ loc[<<n, "cycle">>].baseline.ops <= held'[Peer(n)][Peer(n)]
    BY DEF Digests
  <2>1. /\ gate[n].lastRemote.ops <= held[Peer(n)][Peer(n)]
        /\ gate[n].probed.ops <= held[Peer(n)][Peer(n)]
        /\ loc[<<n, "cycle">>].baseline.ops <= held[Peer(n)][Peer(n)]
    BY DEF IInv, Digests
  <2>2. /\ held[Peer(n)][Peer(n)] <= held'[Peer(n)][Peer(n)]
        /\ held[Peer(n)][Peer(n)] \in Nat /\ held'[Peer(n)][Peer(n)] \in Nat
    BY PeerFacts DEF IInv, Types
  <2>3. /\ gate[n].lastRemote.ops \in Nat /\ gate[n].probed.ops \in Nat
        /\ loc[<<n, "cycle">>].baseline.ops \in Nat
    BY TaskFacts DEF IInv, Types, Gate, Locals, Summary
  <2> QED BY <2>1, <2>2, <2>3
<1>3. Calm'
  <2>1. used'.faults = 0 => used.faults = 0
    BY DEF IInv, Types
  <2> QED BY <2>1 DEF IInv, Calm
<1>4. Promotion'
  <2> SUFFICES ASSUME Quiet', NEW m \in Node PROVE Promoted(m)'
    BY DEF Promotion
  <2>1. Promoted(m)
    BY DEF IInv, Types, Promotion, Quiet
  <2> QED BY <2>1, OtherPromoted DEF IInv
<1> QED BY <1>1, <1>2, <1>3, <1>4 DEF IInv

(* A new operation only moves the digests its peer has yet to read.        *)
LEMMA AppendKeeps == ASSUME IInv, NEW n \in Node, Append(n) PROVE IInv'
<1>1. /\ used.ops + used.prefs < MaxEdits /\ used' = [used EXCEPT !.ops = @ + 1]
      /\ held' = [held EXCEPT ![n][n] = @ + 1]
      /\ UNCHANGED <<stuck, prefs, prefRev, gate, execution, pc, loc, connected>>
  BY DEF Append
<1>2. /\ held \in [Node -> [Node -> Nat]] /\ used \in [ops : Nat, prefs : Nat, faults : Nat, routes : Nat]
  BY DEF IInv, Types
<1>3. held' \in [Node -> [Node -> Nat]]
  BY <1>1, <1>2
<1>4. /\ used' \in [ops : Nat, prefs : Nat, faults : Nat, routes : Nat] /\ used'.ops = used.ops + 1
      /\ used'.prefs = used.prefs /\ used'.faults = used.faults /\ used'.routes = used.routes
  BY <1>1, <1>2
<1>5. Types'
  BY <1>1, <1>3, <1>4 DEF IInv, Types
<1>6. /\ held'[n][n] = held[n][n] + 1
      /\ \A m, o \in Node : m # n \/ o # n => held'[m][o] = held[m][o]
  BY <1>1, <1>2
<1>7. Bounded'
  <2>1. used'.ops + used'.prefs <= MaxEdits /\ used'.prefs <= MaxPrefs
    BY <1>1, <1>2, <1>4, BoundAssumption DEF IInv, Bounded
  <2>2. \A o \in Node : held[o][o] \in Nat /\ held'[o][o] \in Nat /\ held[o][o] <= held'[o][o] /\ held'[o][o] <= used'.ops
    <3> TAKE o \in Node
    <3>1. held[o][o] \in Nat /\ used.ops \in Nat /\ held[o][o] <= used.ops
      BY <1>2 DEF IInv, Bounded
    <3>2. held'[o][o] = held[o][o] \/ held'[o][o] = held[o][o] + 1
      BY <1>6
    <3> QED BY <1>4, <3>1, <3>2
  <2>3. \A m, o \in Node : held'[m][o] <= held'[o][o]
    <3> TAKE m, o \in Node
    <3>1. held[m][o] \in Nat /\ held[m][o] <= held[o][o]
      BY <1>2 DEF IInv, Bounded
    <3>2. m # o => held'[m][o] = held[m][o]
      BY <1>6
    <3> QED BY <2>2, <3>1, <3>2
  <2>4. \A t \in Task, o \in Node : loc'[t].page[o] <= held'[o][o]
    <3> TAKE t \in Task, o \in Node
    <3>1. loc[t].page[o] <= held[o][o] /\ loc[t].page[o] \in Nat
      BY DEF IInv, Bounded, Types, Locals
    <3> QED BY <1>1, <2>2, <3>1
  <2>5. \A m, d \in Node : prefs'[m][d][1] <= used'.prefs
    BY <1>1, <1>4 DEF IInv, Bounded
  <2> QED BY <2>1, <2>2, <2>3, <2>4, <2>5 DEF Bounded
<1>8. \A m, o \in Node : held[m][o] <= held'[m][o]
  BY <1>2, <1>6
<1>9. used'.faults >= used.faults /\ (used'.faults = 0 => connected')
  BY <1>1, <1>2, <1>4 DEF IInv, Calm
<1> QED BY <1>1, <1>4, <1>5, <1>7, <1>8, <1>9, OutsideKeeps

(* A preference is in no digest.                                           *)
LEMMA SetPreferenceKeeps == ASSUME IInv, NEW n \in Node, NEW d \in Node, SetPreference(n, d) PROVE IInv'
<1>1. /\ used.ops + used.prefs < MaxEdits /\ used.prefs < MaxPrefs /\ used' = [used EXCEPT !.prefs = @ + 1]
      /\ prefs' = [prefs EXCEPT ![n][d] = <<@[1] + 1, n>>]
      /\ prefRev' = [prefRev EXCEPT ![n] = @ + 1]
      /\ UNCHANGED <<held, stuck, gate, execution, pc, loc, connected>>
  BY DEF SetPreference
<1>2. /\ held \in [Node -> [Node -> Nat]] /\ used \in [ops : Nat, prefs : Nat, faults : Nat, routes : Nat]
      /\ prefs \in [Node -> [Node -> Entry]] /\ prefRev \in [Node -> Nat]
  BY DEF IInv, Types
<1>3. /\ used' \in [ops : Nat, prefs : Nat, faults : Nat, routes : Nat] /\ used'.ops = used.ops
      /\ used'.prefs = used.prefs + 1 /\ used'.faults = used.faults /\ used'.routes = used.routes
  <2>1. used' = [used EXCEPT !.prefs = @ + 1] /\ used \in [ops : Nat, prefs : Nat, faults : Nat, routes : Nat]
    BY <1>1, <1>2
  <2> QED BY ONLY <2>1
<1> DEFINE e == <<prefs[n][d][1] + 1, n>>
<1>4. e \in Entry /\ e[1] = prefs[n][d][1] + 1 /\ \A m, k \in Node : prefs[m][k][1] \in Nat
  <2>1. \A m, k \in Node : prefs[m][k] \in Entry /\ prefs[m][k][1] \in Nat
    BY <1>2 DEF Entry
  <2> QED BY <2>1 DEF Entry
<1>5. prefs' = [prefs EXCEPT ![n][d] = e]
  BY <1>1, <1>2
<1> HIDE DEF e
<1>6. prefs' \in [Node -> [Node -> Entry]] /\ prefRev' \in [Node -> Nat]
  <2>1. prefs' \in [Node -> [Node -> Entry]]
    BY ONLY <1>2, <1>4, <1>5, n \in Node, d \in Node
  <2>2. prefRev' = [prefRev EXCEPT ![n] = @ + 1]
    BY <1>1
  <2>3. prefRev' \in [Node -> Nat]
    BY ONLY <1>2, <2>2
  <2> QED BY <2>1, <2>3
<1>7. Types'
  BY <1>1, <1>3, <1>6 DEF IInv, Types
<1>8. \A m, k \in Node : prefs'[m][k][1] <= used'.prefs
  <2> TAKE m, k \in Node
  <2>1. prefs'[m][k] = prefs[m][k] \/ (prefs'[m][k] = e /\ m = n /\ k = d)
    BY <1>2, <1>5
  <2>2. prefs[m][k][1] <= used.prefs /\ prefs[m][k][1] \in Nat /\ used.prefs \in Nat
    BY <1>2, <1>4 DEF IInv, Bounded
  <2>3. prefs'[m][k][1] = prefs[m][k][1] \/ prefs'[m][k][1] = prefs[m][k][1] + 1
    BY <1>4, <2>1
  <2> QED BY <1>3, <2>2, <2>3
<1>9. Bounded'
  <2>1. used'.ops + used'.prefs <= MaxEdits /\ used'.prefs <= MaxPrefs
    BY <1>1, <1>2, <1>3, BoundAssumption
  <2>2. \A o \in Node : held[o][o] <= used'.ops
    BY <1>3 DEF IInv, Bounded
  <2> QED BY <1>1, <1>8, <2>1, <2>2 DEF IInv, Bounded
<1>10. \A m, o \in Node : held[m][o] <= held'[m][o]
  BY <1>1, <1>2
<1>11. used'.faults >= used.faults /\ (used'.faults = 0 => connected')
  BY <1>1, <1>2, <1>3 DEF IInv, Calm
<1> QED BY <1>1, <1>3, <1>7, <1>9, <1>10, <1>11, OutsideKeeps

(* The connection drops and comes back.                                    *)
LEMMA ConnectionKeeps == ASSUME IInv, Disconnect \/ Reconnect PROVE IInv'
<1>1. UNCHANGED <<held, stuck, prefs, prefRev, gate, execution, pc, loc>> /\ connected' \in BOOLEAN
  BY DEF Disconnect, Reconnect, data
<1>2. used \in [ops : Nat, prefs : Nat, faults : Nat, routes : Nat]
  BY DEF IInv, Types
<1>3. /\ used' \in [ops : Nat, prefs : Nat, faults : Nat, routes : Nat] /\ used'.ops = used.ops
      /\ used'.prefs = used.prefs /\ used'.faults >= used.faults /\ used'.routes = used.routes
      /\ used'.faults = 0 => connected'
  BY <1>2 DEF Disconnect, Reconnect, Fault
<1>4. Types'
  BY <1>1, <1>3 DEF IInv, Types
<1>5. Bounded'
  BY <1>1, <1>3 DEF IInv, Bounded
<1>6. \A m, o \in Node : held[m][o] <= held'[m][o]
  BY <1>1 DEF IInv, Types
<1> QED BY <1>1, <1>3, <1>4, <1>5, <1>6, OutsideKeeps

(* A change of route only adds a task that waits for the mutex.            *)
LEMMA RouteChangeKeeps == ASSUME IInv, NEW n \in RouteNode, RouteChange(n) PROVE IInv'
<1> DEFINE t == <<n, "route">>
<1>0. t \in Task /\ n \in Node
  BY TaskFacts
<1>1. /\ used' = [used EXCEPT !.routes = @ + 1] /\ pc[t] = "none" /\ pc' = [pc EXCEPT ![t] = "lock"]
      /\ UNCHANGED <<held, stuck, prefs, prefRev, gate, execution, loc, connected>>
  BY DEF RouteChange, Move, data
<1>2. used \in [ops : Nat, prefs : Nat, faults : Nat, routes : Nat] /\ pc \in [Task -> Pc]
  BY DEF IInv, Types
<1>3. /\ used' \in [ops : Nat, prefs : Nat, faults : Nat, routes : Nat] /\ used'.ops = used.ops
      /\ used'.prefs = used.prefs /\ used'.faults = used.faults /\ used'.routes = used.routes + 1
      /\ used'.routes > 0
  BY <1>1, <1>2
<1>4. "lock" \in Pc /\ "lock" \notin InPass
  BY DEF Pc, Owing, InPass
<1>5. Types'
  BY <1>0, <1>1, <1>2, <1>3, <1>4 DEF IInv, Types
<1>6. Bounded' /\ Digests' /\ StuckIsPending'
  BY <1>1, <1>3 DEF IInv, Bounded, Digests, StuckIsPending
<1>7. \A u \in Task : u # t => pc'[u] = pc[u]
  BY <1>1, <1>2
<1>8. pc'[t] = "lock"
  BY <1>0, <1>1, <1>2
<1>9. Exclusive'
  <2>1. \A u \in Task : pc[u] \in InPass <=> pc'[u] \in InPass
    BY <1>1, <1>4, <1>7, <1>8 DEF InPass
  <2> QED BY <1>1, <2>1 DEF IInv, Exclusive
<1>10. Calm'
  BY <1>1, <1>3 DEF IInv, Calm, Types
<1>11. Promotion'
  <2> SUFFICES ASSUME Quiet', NEW m \in Node PROVE Promoted(m)'
    BY DEF Promotion
  <2>1. Quiet
    BY <1>3 DEF Quiet
  <2>2. Promoted(m)
    BY <2>1 DEF IInv, Promotion
  <2>3. <<m, "cycle">> # t /\ <<m, "cycle">> \in Task
    BY TaskFacts
  <2>4. pc'[<<m, "cycle">>] = pc[<<m, "cycle">>]
    BY <1>7, <2>3
  <2>5. Covered(m) => Covered(m)'
    <3>1. WillCompare(m) => WillCompare(m)'
      BY <1>1, <1>7 DEF WillCompare, Comparing
    <3>2. WillPass(m) => WillPass(m)'
      BY <1>3, <2>4 DEF WillPass
    <3> QED BY <1>1, <3>1, <3>2 DEF Covered
  <2>6. \A u \in Task : pc'[u] \in {"settle", "record"} => pc[u] = pc'[u]
    BY <1>7, <1>8
  <2>7. \A u \in Task : u[1] = m /\ pc'[u] \in {"settle", "record"} =>
           (Fetched(m, gate[m].probed) /\ Fetched(m, gate[m].lastRemote)) \/ Covered(m)
    BY <2>2, <2>6 DEF Promoted
  <2>8. Fetched(m, gate[m].lastRemote) \/ Covered(m) \/ gate[m].failures > 0
    BY <2>2 DEF Promoted
  <2>9. pc'[<<m, "cycle">>] = "probe" =>
           Fetched(m, loc[<<m, "cycle">>].baseline) \/ Covered(m) \/ gate[m].failures > 0
    BY <2>2, <2>4 DEF Promoted
  <2> QED BY <1>1, <2>5, <2>7, <2>8, <2>9, PromotedIf DEF Fetched
<1> QED BY <1>5, <1>6, <1>9, <1>10, <1>11 DEF IInv

-----------------------------------------------------------------------------
(* The invariant                                                           *)

(* Every step keeps the invariant.                                         *)
LEMMA NextIInv == IInv /\ [Next]_vars => IInv'
<1> SUFFICES ASSUME IInv, [Next]_vars PROVE IInv'
  OBVIOUS
<1>1. ASSUME NEW t \in Task, PassStep(t) PROVE IInv'
  BY <1>1, PassBeginsKeeps, PassPreferencesKeeps, PassPreferencesFailsKeeps, PassPageKeeps, PassPageFailsKeeps,
     PassApplyKeeps, PassApplyFailsKeeps, PassSettleKeeps, PassSettleFailsKeeps, PassRecordKeeps DEF PassStep
<1>2. ASSUME NEW n \in Node, CycleStep(n) PROVE IInv'
  BY <1>2, CycleStartKeeps, CycleProbeKeeps, CycleProjectionKeeps, CycleCallLostKeeps, CycleMemberKeeps
     DEF CycleStep
<1>3. ASSUME NEW t \in Task, TaskStep(t) PROVE IInv'
  BY <1>1, <1>2, <1>3, TaskFacts DEF TaskStep
<1>4. ASSUME NEW n \in Author, Append(n) \/ \E d \in Node : SetPreference(n, d) PROVE IInv'
  BY <1>4, AppendKeeps, SetPreferenceKeeps, RoleAssumption
<1>5. CASE UNCHANGED vars
  BY <1>5 DEF vars, IInv, Types, Bounded, Exclusive, Digests, Calm, StuckIsPending, Promotion, Promoted, Quiet,
              Covered, WillCompare, WillPass, Fetched
<1> QED BY <1>3, <1>4, <1>5, BackoffElapsesKeeps, RouteChangeKeeps, ConnectionKeeps DEF Next

(* The inductive invariant of the gates.                                   *)
LEMMA Invariance == Spec => []IInv
BY InitIInv, NextIInv, PTL DEF Spec

(* The gates, tasks and counts keep their types within the bounds, and a   *)
(* task is in a pass exactly when it holds the execution mutex of its gate *)
(* (synchronizeReachablePeerForReason), for any roles of the two members.  *)
THEOREM TypeCorrect == Spec => []TypeOK
<1>1. IInv => TypeOK
  <2> SUFFICES ASSUME IInv PROVE TypeOK
    OBVIOUS
  <2>1. held \in [Node -> [Node -> 0 .. MaxEdits]]
    <3>1. held \in [Node -> [Node -> Nat]]
      BY DEF IInv, Types
    <3>2. \A n, o \in Node : held[n][o] \in 0 .. MaxEdits
      <4> TAKE n, o \in Node
      <4>1. held[n][o] \in Nat /\ held[o][o] \in Nat /\ used.ops \in Nat /\ used.prefs \in Nat
        BY <3>1 DEF IInv, Types
      <4>2. held[n][o] <= held[o][o] /\ held[o][o] <= used.ops /\ used.ops + used.prefs <= MaxEdits
        BY DEF IInv, Bounded
      <4> QED BY <4>1, <4>2, BoundAssumption
    <3> QED BY <3>1, <3>2
  <2>2. prefs \in [Node -> [Node -> (0 .. MaxPrefs) \X (Node \cup {0})]]
    <3>1. prefs \in [Node -> [Node -> Entry]]
      BY DEF IInv, Types
    <3>2. \A n, d \in Node : prefs[n][d] \in (0 .. MaxPrefs) \X (Node \cup {0})
      <4> TAKE n, d \in Node
      <4>1. prefs[n][d] \in Nat \X (Node \cup {0})
        BY <3>1 DEF Entry
      <4>2. prefs[n][d][1] <= used.prefs /\ used.prefs <= MaxPrefs /\ used.prefs \in Nat
        BY DEF IInv, Bounded, Types
      <4>3. prefs[n][d][1] \in 0 .. MaxPrefs
        BY <4>1, <4>2, BoundAssumption
      <4> QED BY <4>1, <4>3
    <3> QED BY <3>1, <3>2
  <2>3. \A n \in Node : \A kind \in {"cycle", "route"} :
           (execution[n] = kind) <=> (<<n, kind>> \in Task /\ pc[<<n, kind>>] \in InPass)
    BY DEF IInv, Exclusive, Kind
  <2> QED BY <2>1, <2>2, <2>3 DEF IInv, Types, TypeOK, Gate, Pc
<1> QED BY <1>1, Invariance, PTL

(* The digest that recordPeerPassCompleted promoted counts no operation    *)
(* the node has not received, unless the gate still owes a pass.           *)
THEOREM BaselineIsFetched == Spec => []BaselineIsHeld
<1>1. IInv => BaselineIsHeld
  <2> SUFFICES ASSUME IInv, Quiet, NEW n \in Node
               PROVE  \/ gate[n].lastRemote.ops <= held[n][Peer(n)]
                      \/ gate[n].pendingWork \/ gate[n].failures > 0
                      \/ pc[<<n, "cycle">>] \in Owing \/ execution[n] # "free"
    BY DEF BaselineIsHeld
  <2>1. Fetched(n, gate[n].lastRemote) \/ Covered(n) \/ gate[n].failures > 0
    BY DEF IInv, Promotion, Promoted
  <2>2. WillCompare(n) => execution[n] # "free"
    <3> SUFFICES ASSUME NEW t \in Task, t[1] = n, pc[t] \in Comparing PROVE execution[n] # "free"
      BY DEF WillCompare
    <3>1. t = <<n, t[2]>> /\ t[2] \in Kind /\ pc[t] \in InPass
      BY TaskFacts DEF Comparing, InPass
    <3>2. execution[n] = t[2]
      BY <3>1 DEF IInv, Exclusive
    <3> QED BY <3>1, <3>2 DEF Kind
  <2> QED BY <2>1, <2>2 DEF Covered, WillPass, Fetched
<1> QED BY <1>1, Invariance, PTL

(* When peerPassRequired finds no reason for a pass on either member, both *)
(* hold the same operations and none waits for its materialization.        *)
THEOREM SettledMeansConverged == Spec => []SettledIsConverged
<1>1. IInv => SettledIsConverged
  <2> SUFFICES ASSUME IInv, Quiet, \A n \in Node : Settled(n) PROVE Converged
    BY DEF SettledIsConverged
  <2>1. ASSUME NEW n \in Node PROVE ~Covered(n) /\ gate[n].failures = 0 /\ gate[n].lastRemote = ClockDigest(Peer(n))
    <3>1. ~gate[n].pendingWork /\ gate[n].failures = 0 /\ \A t \in Task : t[1] = n => pc[t] = "none"
      BY DEF Settled
    <3>2. ~WillCompare(n)
      BY <3>1 DEF WillCompare, Comparing
    <3>3. ~WillPass(n)
      BY <3>1, TaskFacts DEF WillPass, Owing
    <3> QED BY <3>1, <3>2, <3>3 DEF Covered, Settled
  <2>2. ASSUME NEW n \in Node PROVE held[n][Peer(n)] = held[Peer(n)][Peer(n)]
    <3>0. Peer(n) \in Node /\ held[n][Peer(n)] \in Nat /\ held[Peer(n)][Peer(n)] \in Nat
      BY PeerFacts DEF IInv, Types
    <3>1. Fetched(n, gate[n].lastRemote)
      <4>1. Fetched(n, gate[n].lastRemote) \/ Covered(n) \/ gate[n].failures > 0
        BY DEF IInv, Promotion, Promoted
      <4>2. ~Covered(n) /\ ~(gate[n].failures > 0)
        BY <2>1
      <4> QED BY <4>1, <4>2
    <3>2. held[Peer(n)][Peer(n)] <= held[n][Peer(n)]
      BY <2>1, <3>0, <3>1, ConstantTypes DEF Fetched, ClockDigest
    <3>3. held[n][Peer(n)] <= held[Peer(n)][Peer(n)]
      BY <3>0 DEF IInv, Bounded
    <3> QED BY <3>0, <3>2, <3>3
  <2>3. \A n, m, o \in Node : held[n][o] = held[m][o]
    <3>1. \A n, o \in Node : held[n][o] = held[o][o]
      BY <2>2, PeerFacts
    <3> QED BY <3>1
  <2>4. \A n, m \in Node : held[n] = held[m]
    BY <2>3 DEF IInv, Types
  <2>5. \A n \in Node : ~stuck[n]
    BY DEF Settled, IInv, StuckIsPending
  <2> QED BY <2>4, <2>5 DEF Converged
<1> QED BY <1>1, Invariance, PTL
=============================================================================
