---------------------------- MODULE PeerSyncGate ----------------------------
(***************************************************************************)
(* The change-gated synchronization between two members of one Device      *)
(* Space (SpacePersistenceSyncService.rs).                                 *)
(*                                                                         *)
(* Every node runs cycles.  A cycle asks the gate of the peer whether a    *)
(* full pass is worth its cost, and the gate answers from baselines: the   *)
(* peer's clock digest and the node's own state summary as they were at    *)
(* the last completed pass.  A change of route runs the same pass without  *)
(* asking the gate.  A change that both baselines already contain is a     *)
(* change nobody exchanges, so the order in which probes, pages, summaries *)
(* and promotions happen is what this module is about.                     *)
(*                                                                         *)
(* Data: a node's own operations are numbered 1, 2, ...; a page delivers   *)
(* them in order, so what node n holds of origin o is a count.  A device   *)
(* preference document has one key, whose entry is <<revision, writer>>.   *)
(* The time a backoff lasts is abstracted to whether it is still running,  *)
(* and a cycle may start whenever none runs, as the worker of the service  *)
(* may be woken at any moment.                                             *)
(***************************************************************************)
EXTENDS Naturals, FiniteSets

CONSTANTS
    Node,        \* the two members of the Space; their order breaks ties of writers
    Outbound,    \* the members that dialled the connection to their peer
    Author,      \* the members whose user or application changes data
    RouteNode,   \* the members on which a user moves chats to the peer
    PageLimit,   \* operations of one origin that one page carries
    MaxPages,    \* MAX_SYNC_PAGES_PER_PASS
    MaxEdits,    \* bound on the operations and preference edits, over all members
    MaxPrefs,    \* bound on the preference edits among them
    MaxEvents    \* bound on faults and changes of route together

ASSUME NodeAssumption == Node \subseteq Nat /\ IsFiniteSet(Node) /\ Cardinality(Node) = 2
ASSUME RoleAssumption == Outbound \subseteq Node /\ Author \subseteq Node /\ RouteNode \subseteq Node
ASSUME BoundAssumption ==
    /\ PageLimit \in Nat \ {0} /\ MaxPages \in Nat
    /\ {MaxEdits, MaxPrefs, MaxEvents} \subseteq Nat

VARIABLES
    held,       \* held[n][o]: how many operations of origin o node n has received
    stuck,      \* stuck[n]: an operation n received waits for its materialization
    prefs,      \* prefs[n][d]: the entry of device d's preferences on node n
    prefRev,    \* devicePreferencesMutationRevision of each process
    gate,       \* gate[n]: the PeerSyncGate n keeps for its peer
    execution,  \* the holder of the execution mutex of each gate, or "free"
    pc,         \* where the cycle and the route change of each node stand
    loc,        \* the local variables of those tasks
    connected,  \* whether the peers can call each other
    used        \* how many edits, faults and changes of route there were

vars == <<held, stuck, prefs, prefRev, gate, execution, pc, loc, connected, used>>
data == <<held, stuck, prefs, prefRev>>

Peer(n) == CHOOSE m \in Node : m # n
Task == (Node \X {"cycle"}) \cup (RouteNode \X {"route"})

None == [ops |-> 0, rev |-> 0, set |-> FALSE]
Some(ops, rev) == [ops |-> ops, rev |-> rev, set |-> TRUE]
Summary == [ops : Nat, rev : Nat, set : BOOLEAN]
NoPage == [o \in Node |-> 0]
NoLocals == [baseline |-> None, changed |-> FALSE, page |-> NoPage, pages |-> 0]

\* Mutant: the digest answers with what the node has of its peer.
DigestOfPeer(n) == Some(held[n][Peer(n)], 0)

\* What localStateSummary and syncClockDigest read: only what the node itself
\* authored and, for the summary, the revision of its preferences.
LocalStateSummary(n) == Some(held[n][n], prefRev[n])
ClockDigest(n) == Some(held[n][n], 0)

Init ==
    /\ held = [n \in Node |-> NoPage]
    /\ stuck = [n \in Node |-> FALSE]
    /\ prefs = [n \in Node |-> [d \in Node |-> <<0, 0>>]]
    /\ prefRev = [n \in Node |-> 0]
    /\ gate = [n \in Node |-> [lastRemote |-> None, lastLocal |-> None, probed |-> None,
                               failures |-> 0, waiting |-> FALSE, pendingWork |-> FALSE]]
    /\ execution = [n \in Node |-> "free"]
    /\ pc = [t \in Task |-> "none"]
    /\ loc = [t \in Task |-> NoLocals]
    /\ connected = TRUE
    /\ used = [ops |-> 0, prefs |-> 0, faults |-> 0, routes |-> 0]

Move(t, here, there) == pc[t] = here /\ pc' = [pc EXCEPT ![t] = there]

\* A fault that has a bound: a call lost while the connection is up, an
\* operation that cannot be materialized, a connection that drops.
Fault == used.faults + used.routes < MaxEvents /\ used' = [used EXCEPT !.faults = @ + 1]

-----------------------------------------------------------------------------
(* The gate                                                                *)

RecordPeerPassFailed(g) == [g EXCEPT !.failures = @ + 1, !.waiting = TRUE]

\* Mutant: a success leaves the failures as they are.
CompletedKeepsFailures(g, summary) ==
    [g EXCEPT !.lastRemote = IF g.probed.set THEN g.probed ELSE @, !.probed = None,
              !.lastLocal = summary, !.waiting = FALSE]

RecordPeerPassCompleted(g, summary) ==
    [g EXCEPT !.lastRemote = IF g.probed.set THEN g.probed ELSE @, !.probed = None,
              !.lastLocal = summary, !.failures = 0, !.waiting = FALSE]

\* The delay of peerFullSyncBackoffMs runs out.
BackoffElapses(n) ==
    /\ gate[n].waiting
    /\ gate' = [gate EXCEPT ![n].waiting = FALSE]
    /\ UNCHANGED <<data, execution, pc, loc, connected, used>>

\* What the decision of peerPassRequired leads to: nothing, or for a peer this
\* node dialled the Space projection of loop 1, or the pass of loop 2.
Decided(n, required) ==
    /\ pc' = [pc EXCEPT ![<<n, "cycle">>] =
                 IF ~required THEN "none" ELSE IF n \in Outbound THEN "projection" ELSE "lock"]
    /\ loc' = [loc EXCEPT ![<<n, "cycle">>] = NoLocals]

\* synchronizeOnce with a reachable peer, up to the probe of peerPassRequired:
\* the cycle keeps its own summary and a copy of the gate, and only a gate that
\* knows of no work and no failure has to ask the peer.
CycleStart(n) ==
    LET g == gate[n]
    IN /\ pc[<<n, "cycle">>] = "none"
       /\ connected
       /\ IF g.waiting \/ g.pendingWork \/ g.failures > 0
          THEN Decided(n, ~g.waiting)
          ELSE /\ pc' = [pc EXCEPT ![<<n, "cycle">>] = "probe"]
               /\ loc' = [loc EXCEPT ![<<n, "cycle">>].baseline = g.lastRemote,
                                     ![<<n, "cycle">>].changed = g.lastLocal # LocalStateSummary(n)]
       /\ UNCHANGED <<data, gate, execution, connected, used>>

\* The probe answers: the digest is kept for promotion and compared, together
\* with the summary of the cycle, to the baselines of the copy.
CycleProbe(n) ==
    LET digest == ClockDigest(Peer(n))
    IN /\ pc[<<n, "cycle">>] = "probe"
       /\ connected
       /\ gate' = [gate EXCEPT ![n].probed = digest]
       /\ Decided(n, loc[<<n, "cycle">>].changed \/ loc[<<n, "cycle">>].baseline # digest)
       /\ UNCHANGED <<data, execution, connected, used>>

\* exchangePairedDeviceSpaceProjection, the first half of a required pass.
CycleProjection(n) ==
    /\ Move(<<n, "cycle">>, "projection", "member")
    /\ connected
    /\ UNCHANGED <<data, gate, execution, loc, connected, used>>

\* A call of the cycle is lost outside the execution mutex: the probe, which
\* arms the backoff instead of forcing a pass, or the projection.
CycleCallLost(n) ==
    /\ pc[<<n, "cycle">>] \in {"probe", "projection"}
    /\ IF connected THEN Fault ELSE UNCHANGED used
    /\ gate' = [gate EXCEPT ![n] = RecordPeerPassFailed(@)]
    /\ Decided(n, FALSE)
    /\ UNCHANGED <<data, execution, connected>>

\* Loop 2 passes over a member it cannot reach, whatever loop 1 decided.
CycleMember(n) ==
    /\ Move(<<n, "cycle">>, "member", IF connected THEN "lock" ELSE "none")
    /\ UNCHANGED <<data, gate, execution, loc, connected, used>>

\* A change of route synchronizes with its target without asking the gate.
RouteChange(n) ==
    /\ used.faults + used.routes < MaxEvents
    /\ used' = [used EXCEPT !.routes = @ + 1]
    /\ Move(<<n, "route">>, "none", "lock")
    /\ UNCHANGED <<data, gate, execution, loc, connected>>

-----------------------------------------------------------------------------
(* The pass                                                                *)

PassEnds(t) ==
    /\ pc' = [pc EXCEPT ![t] = "none"]
    /\ loc' = [loc EXCEPT ![t] = NoLocals]
    /\ execution' = [execution EXCEPT ![t[1]] = "free"]

\* A remote call of the pass is lost, and the pass fails where it stands.
PassFails(t, here) ==
    /\ pc[t] = here
    /\ IF connected THEN Fault ELSE UNCHANGED used
    /\ gate' = [gate EXCEPT ![t[1]] = RecordPeerPassFailed(@)]
    /\ PassEnds(t)
    /\ UNCHANGED connected

\* Mutant: a pass does not wait for the one under way.
PassBeginsAtOnce(t) ==
    /\ Move(t, "lock", "prefs")
    /\ execution' = [execution EXCEPT ![t[1]] = t[2]]
    /\ UNCHANGED <<data, gate, loc, connected, used>>

\* All entry points queue on the mutex of the gate.
PassBegins(t) ==
    /\ Move(t, "lock", "prefs")
    /\ execution[t[1]] = "free"
    /\ execution' = [execution EXCEPT ![t[1]] = t[2]]
    /\ UNCHANGED <<data, gate, loc, connected, used>>

Newer(e, f) == e[1] > f[1] \/ (e[1] = f[1] /\ e[2] > f[2])

\* DevicePreferencesStore::merge of the documents in D[m] on each member m,
\* from the copy of its peer; a merge that changes nothing leaves the revision.
MergePreferences(D) ==
    LET changed(m) == {d \in D[m] : Newer(prefs[Peer(m)][d], prefs[m][d])}
    IN /\ prefs' = [m \in Node |-> [d \in Node |-> prefs[IF d \in changed(m) THEN Peer(m) ELSE m][d]]]
       /\ prefRev' = [m \in Node |-> prefRev[m] + Cardinality(changed(m))]

\* Authority, and then the preferences of the peer and of this device: the peer
\* merges what it receives and answers with the result, which is merged here.
PassPreferences(t) ==
    /\ Move(t, "prefs", "page")
    /\ connected
    /\ MergePreferences([m \in Node |-> Node])
    /\ UNCHANGED <<held, stuck, gate, execution, loc, connected, used>>

\* The calls before the lost one are done, and the lost one may have arrived.
PassPreferencesFails(t) ==
    LET n == t[1]
        p == Peer(n)
    IN /\ PassFails(t, "prefs")
       /\ \E done \in IF connected THEN {<<{}, {}>>, <<{}, {p}>>, <<{p}, {p}>>, <<{p}, Node>>} ELSE {<<{}, {}>>} :
             MergePreferences([m \in Node |-> IF m = n THEN done[1] ELSE done[2]])
       /\ UNCHANGED <<held, stuck>>

Least(a, b) == IF a < b THEN a ELSE b
Greatest(a, b) == IF a > b THEN a ELSE b

\* syncOperationsSince: what the receipt of the other side does not cover, as
\* far as one page reaches.
OperationsSince(m, receipt) == [o \in Node |-> Least(held[m][o], receipt[o] + PageLimit)]

\* Mutant: the pass that reaches its limit of pages counts as complete.
PassPageUnmarked(t) ==
    LET n == t[1]
        p == Peer(n)
        mine == OperationsSince(n, held[p])
        theirs == OperationsSince(p, held[n])
        page == [o \in Node |-> Greatest(mine[o], theirs[o])]
    IN /\ pc[t] = "page"
       /\ connected
       /\ \/ /\ held[n] = held[p]
             /\ pc' = [pc EXCEPT ![t] = "settle"]
             /\ UNCHANGED loc
          \/ /\ held[n] # held[p] /\ loc[t].pages >= MaxPages
             /\ pc' = [pc EXCEPT ![t] = "record"]
             /\ UNCHANGED loc
          \/ /\ held[n] # held[p] /\ loc[t].pages < MaxPages
             /\ pc' = [pc EXCEPT ![t] = "apply"]
             /\ loc' = [loc EXCEPT ![t].page = page, ![t].pages = @ + 1]
       /\ gate' = [gate EXCEPT ![n].pendingWork = stuck[n] \/ stuck[p]]
       /\ UNCHANGED <<data, execution, connected, used>>

\* One turn of the loop of synchronizeDomains: both receipts are read, the
\* pending mark is cleared and set again when a side reports operations that
\* wait, and the two exports are merged.
PassPage(t) ==
    LET n == t[1]
        p == Peer(n)
        mine == OperationsSince(n, held[p])
        theirs == OperationsSince(p, held[n])
        page == [o \in Node |-> Greatest(mine[o], theirs[o])]
        waiting == stuck[n] \/ stuck[p]
    IN /\ pc[t] = "page"
       /\ connected
       /\ \/ /\ held[n] = held[p]
             /\ pc' = [pc EXCEPT ![t] = "settle"]
             /\ gate' = [gate EXCEPT ![n].pendingWork = waiting]
             /\ UNCHANGED loc
          \/ /\ held[n] # held[p] /\ loc[t].pages >= MaxPages
             /\ pc' = [pc EXCEPT ![t] = "record"]
             /\ gate' = [gate EXCEPT ![n].pendingWork = TRUE]
             /\ UNCHANGED loc
          \/ /\ held[n] # held[p] /\ loc[t].pages < MaxPages
             /\ pc' = [pc EXCEPT ![t] = "apply"]
             /\ gate' = [gate EXCEPT ![n].pendingWork = waiting]
             /\ loc' = [loc EXCEPT ![t].page = page, ![t].pages = @ + 1]
       /\ UNCHANGED <<data, execution, connected, used>>

PassPageFails(t) == PassFails(t, "page") /\ UNCHANGED data

\* syncApplyOperations on the members in S: the page is received durably.
Receive(S, page) ==
    held' = [m \in Node |-> IF m \in S THEN [o \in Node |-> Greatest(held[m][o], page[o])] ELSE held[m]]

\* Both sides apply the page; a side may report an operation it received but
\* could not materialize yet.
PassApply(t) ==
    /\ Move(t, "apply", "page")
    /\ connected
    /\ Receive(Node, loc[t].page)
    /\ \/ UNCHANGED <<stuck, gate, used>>
       \/ /\ Fault
          /\ \E m \in Node : stuck' = [stuck EXCEPT ![m] = TRUE]
          /\ gate' = [gate EXCEPT ![t[1]].pendingWork = TRUE]
    /\ loc' = [loc EXCEPT ![t].page = NoPage]
    /\ UNCHANGED <<prefs, prefRev, execution, connected>>

\* One side fails, or its answer is lost: either may have applied the page.
PassApplyFails(t) ==
    /\ PassFails(t, "apply")
    /\ \E S \in SUBSET (IF connected THEN Node ELSE {t[1]}) : Receive(S, loc[t].page)
    /\ UNCHANGED <<stuck, prefs, prefRev>>

\* An empty page retries what waits on both sides, and the consistency check
\* may find a file that is being edited; either can leave work pending.
PassSettle(t) ==
    /\ Move(t, "settle", "record")
    /\ connected
    /\ \/ stuck' = [m \in Node |-> FALSE] /\ UNCHANGED <<gate, used>>
       \/ Fault /\ gate' = [gate EXCEPT ![t[1]].pendingWork = TRUE] /\ UNCHANGED stuck
    /\ UNCHANGED <<held, prefs, prefRev, execution, loc, connected>>

PassSettleFails(t) == PassFails(t, "settle") /\ UNCHANGED data

\* Mutant: the clock of the peer is read when the pass is over.
PassRecordLate(t) ==
    LET probed == [gate[t[1]] EXCEPT !.probed = ClockDigest(Peer(t[1]))]
    IN /\ pc[t] = "record"
       /\ gate' = [gate EXCEPT ![t[1]] = RecordPeerPassCompleted(probed, LocalStateSummary(t[1]))]
       /\ PassEnds(t)
       /\ UNCHANGED <<data, connected, used>>

\* The pass is over: the summary as it is now, and the last probe, become the
\* baselines of the gate.
PassRecord(t) ==
    /\ pc[t] = "record"
    /\ gate' = [gate EXCEPT ![t[1]] = RecordPeerPassCompleted(@, LocalStateSummary(t[1]))]
    /\ PassEnds(t)
    /\ UNCHANGED <<data, connected, used>>

-----------------------------------------------------------------------------
(* The users of the members, and the connection                            *)

Append(n) ==
    /\ used.ops + used.prefs < MaxEdits
    /\ used' = [used EXCEPT !.ops = @ + 1]
    /\ held' = [held EXCEPT ![n][n] = @ + 1]
    /\ UNCHANGED <<stuck, prefs, prefRev, gate, execution, pc, loc, connected>>

\* DevicePreferencesStore::set, by which a member edits its own preferences or
\* those of its peer.
SetPreference(n, d) ==
    /\ used.ops + used.prefs < MaxEdits /\ used.prefs < MaxPrefs
    /\ used' = [used EXCEPT !.prefs = @ + 1]
    /\ prefs' = [prefs EXCEPT ![n][d] = <<@[1] + 1, n>>]
    /\ prefRev' = [prefRev EXCEPT ![n] = @ + 1]
    /\ UNCHANGED <<held, stuck, gate, execution, pc, loc, connected>>

Disconnect ==
    /\ connected
    /\ Fault
    /\ connected' = FALSE
    /\ UNCHANGED <<data, gate, execution, pc, loc>>

Reconnect ==
    /\ ~connected
    /\ connected' = TRUE
    /\ UNCHANGED <<data, gate, execution, pc, loc, used>>

-----------------------------------------------------------------------------
CycleStep(n) ==
    CycleStart(n) \/ CycleProbe(n) \/ CycleProjection(n) \/ CycleCallLost(n) \/ CycleMember(n)

PassStep(t) ==
    \/ PassBegins(t)
    \/ PassPreferences(t) \/ PassPreferencesFails(t)
    \/ PassPage(t) \/ PassPageFails(t)
    \/ PassApply(t) \/ PassApplyFails(t)
    \/ PassSettle(t) \/ PassSettleFails(t)
    \/ PassRecord(t)

TaskStep(t) == PassStep(t) \/ (t[2] = "cycle" /\ CycleStep(t[1]))

Next ==
    \/ \E t \in Task : TaskStep(t)
    \/ \E n \in Node : BackoffElapses(n)
    \/ \E n \in RouteNode : RouteChange(n)
    \/ \E n \in Author : Append(n) \/ \E d \in Node : SetPreference(n, d)
    \/ Disconnect \/ Reconnect

Spec == Init /\ [][Next]_vars

\* The worker runs cycles and its tasks move on, the delays run out and the
\* connection comes back.  Users and faults are free to stop.
Fairness ==
    /\ \A t \in Task : WF_vars(TaskStep(t))
    /\ \A n \in Node : WF_vars(BackoffElapses(n))
    /\ WF_vars(Reconnect)

LiveSpec == Spec /\ Fairness

-----------------------------------------------------------------------------
(* Properties                                                              *)

InPass == {"prefs", "page", "apply", "settle", "record"}
Owing == {"projection", "member", "lock"}

\* The types of the state, and that a task is inside a pass exactly when it
\* holds the execution mutex of the gate (line 74: "Every caller uses the same
\* peer pass, including route changes").
TypeOK ==
    /\ held \in [Node -> [Node -> 0 .. MaxEdits]]
    /\ stuck \in [Node -> BOOLEAN]
    /\ prefs \in [Node -> [Node -> (0 .. MaxPrefs) \X (Node \cup {0})]]
    /\ prefRev \in [Node -> Nat]
    /\ gate \in [Node -> [lastRemote : Summary, lastLocal : Summary, probed : Summary,
                          failures : Nat, waiting : BOOLEAN, pendingWork : BOOLEAN]]
    /\ pc \in [Task -> {"none", "probe"} \cup Owing \cup InPass]
    /\ connected \in BOOLEAN
    /\ \A n \in Node : \A kind \in {"cycle", "route"} :
          (execution[n] = kind) <=> (<<n, kind>> \in Task /\ pc[<<n, kind>>] \in InPass)

\* A route change whose pass is under way while a cycle probes, and a fault
\* that then keeps the cycle from its own pass, promote a probe that no pass
\* followed; the properties below are about the other executions.
Quiet == used.routes = 0 \/ used.faults = 0

\* The digest that recordPeerPassCompleted promotes counts no operation this
\* node does not hold, unless the gate still owes a pass: the remote change the
\* baseline hides has really been fetched.
BaselineIsHeld ==
    Quiet => \A n \in Node :
        \/ gate[n].lastRemote.ops <= held[n][Peer(n)]
        \/ gate[n].pendingWork \/ gate[n].failures > 0
        \/ pc[<<n, "cycle">>] \in Owing \/ execution[n] # "free"

\* No cycle of n would find a reason for a pass, and none is under way.
Settled(n) ==
    /\ \A t \in Task : t[1] = n => pc[t] = "none"
    /\ gate[n].failures = 0 /\ ~gate[n].pendingWork
    /\ gate[n].lastRemote = ClockDigest(Peer(n))
    /\ gate[n].lastLocal = LocalStateSummary(n)

Converged == (\A n, m \in Node : held[n] = held[m]) /\ (\A n \in Node : ~stuck[n])

\* When neither gate sees a reason for another pass, both members hold the same
\* operations and nothing waits for materialization: the summary read after the
\* pass may hide an operation from its author's gate, and the digest then shows
\* it to the other.
SettledIsConverged == Quiet /\ (\A n \in Node : Settled(n)) => Converged

\* Once the users stop, the members come to hold the same operations and keep
\* them, whatever calls, connections and materializations failed on the way.
OperationsConverge == <>[](Converged \/ ~Quiet)

\* Once the users stop, cycles only probe (the idle floor the tests of
\* sync_idle_gate.rs expect): passes do not wake each other for ever, and a
\* success resets the failures that would keep the gate open.
SettlesToProbing == <>[](\A t \in Task : pc[t] \notin InPass)

\* The preferences of settled members agree: OperitApplication.rs:903 says the
\* device that made a preference edit "detects them in its own local-state
\* summary and starts the pass that pushes them to its peers".
SettledPreferencesAgree == (\A n \in Node : Settled(n)) => \A n, m \in Node : prefs[n] = prefs[m]
=============================================================================
