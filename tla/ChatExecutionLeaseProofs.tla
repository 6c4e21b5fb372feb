---------------------- MODULE ChatExecutionLeaseProofs ----------------------
(***************************************************************************)
(* Proofs, for any number of chats, revisions, lease ids and clones, that  *)
(* leases are typed, exclusive and never orphaned.                         *)
(***************************************************************************)
EXTENDS ChatExecutionLease, TLAPS

(* Ids above nextId were never handed out.                                 *)
UnusedIds ==
    \A i \in Ids : i > nextId =>
        /\ clones[i] = 0
        /\ protected[i] = {}
        /\ i \notin released

(* Every armed guard holds a clone.                                        *)
GuardsAreClones == \A i \in Ids : guards[i] <= clones[i]

(* The inductive invariant.                                                *)
IInv ==
    /\ TypeOK
    /\ UnusedIds
    /\ GuardsAreClones
    /\ HeldLeaseIsActive
    /\ LeasedChatHasOwner
    /\ DirtyIsOwnProtection

(* Init establishes the inductive invariant.                               *)
LEMMA InitIInv == Init => IInv
BY LeaseAssumption DEF Init, IInv, TypeOK, UnusedIds, GuardsAreClones, HeldLeaseIsActive,
      LeasedChatHasOwner, DirtyIsOwnProtection, Held, Ids, Targets

(* Releasing lease i keeps the chats of all the other leases.              *)
LEMMA ReleaseOwnFacts ==
    ASSUME IInv, NEW i \in Ids, ReleaseOwn(i)
    PROVE  /\ active' \in [Chats -> 0 .. MaxId]
           /\ dirty' \in [Chats -> SUBSET Revisions]
           /\ \A c \in Chats : active'[c] = IF active[c] = i THEN 0 ELSE active[c]
           /\ \A c \in Chats : dirty'[c] = IF active[c] = i THEN {} ELSE dirty[c]
<1>1. \A c \in Chats : active[c] = i => c = leaseChat[i]
  BY LeaseAssumption DEF IInv, LeasedChatHasOwner, Ids
<1>2. leaseChat[i] \in Chats /\ i \in Nat
  BY LeaseAssumption DEF IInv, TypeOK, Ids
<1>3. active \in [Chats -> 0 .. MaxId] /\ dirty \in [Chats -> SUBSET Revisions]
  BY DEF IInv, TypeOK
<1> QED BY <1>1, <1>2, <1>3, LeaseAssumption DEF ReleaseOwn

(* Every operation preserves the inductive invariant.                      *)
LEMMA NextIInv == IInv /\ [Next]_vars => IInv'
<1> SUFFICES ASSUME IInv, [Next]_vars PROVE IInv'
  OBVIOUS
<1> USE LeaseAssumption
<1> USE DEF IInv, Ids
<1>0. /\ nextId \in 0 .. MaxId
      /\ active \in [Chats -> 0 .. MaxId]
      /\ dirty \in [Chats -> SUBSET Revisions]
      /\ leaseChat \in [Ids -> Chats]
      /\ clones \in [Ids -> 0 .. MaxClones]
      /\ guards \in [Ids -> 0 .. MaxClones]
      /\ released \subseteq Ids
      /\ protected \in [Ids -> SUBSET Revisions]
  BY DEF TypeOK
<1>1. ASSUME NEW c \in Chats, BeginChatExecution(c) PROVE IInv'
  <2> DEFINE id == nextId + 1
  <2>1. /\ id \in Ids /\ id > nextId /\ clones[id] = 0
        /\ protected[id] = {} /\ id \notin released /\ guards[id] = 0
        /\ active[c] = 0
    BY <1>0, <1>1 DEF BeginChatExecution, UnusedIds, GuardsAreClones
  <2>2. /\ leaseChat' = [leaseChat EXCEPT ![id] = c]
        /\ clones' = [clones EXCEPT ![id] = 1]
        /\ active' = [active EXCEPT ![c] = id]
        /\ dirty' = [dirty EXCEPT ![c] = {}]
        /\ nextId' = id /\ MaxClones > 0
        /\ UNCHANGED <<chats, ext, guards, released, protected>>
    BY <1>1 DEF BeginChatExecution, tableVars, historyVars
  <2> HIDE DEF id
  <2>3. TypeOK'
    BY <1>0, <2>1, <2>2 DEF TypeOK
  <2>4. UnusedIds' /\ GuardsAreClones'
    BY <1>0, <2>1, <2>2 DEF UnusedIds, GuardsAreClones, id
  <2>5. \A d \in Chats : active[d] # id
    BY <2>1 DEF LeasedChatHasOwner, Held
  <2>6. HeldLeaseIsActive'
    BY <1>0, <2>1, <2>2, <2>5 DEF HeldLeaseIsActive, Held
  <2>7. LeasedChatHasOwner'
    BY <1>0, <2>1, <2>2, <2>5 DEF LeasedChatHasOwner, Held
  <2>8. DirtyIsOwnProtection'
    BY <1>0, <2>1, <2>2 DEF DirtyIsOwnProtection
  <2> QED BY <2>3, <2>4, <2>6, <2>7, <2>8
<1>2. ASSUME NEW i \in Ids, CloneLease(i) PROVE IInv'
  <2>1. /\ clones' = [clones EXCEPT ![i] = @ + 1]
        /\ clones[i] > 0 /\ clones[i] < MaxClones
        /\ UNCHANGED <<chats, ext, nextId, active, dirty, leaseChat, guards, released, protected>>
    BY <1>0, <1>2 DEF CloneLease, Handles, tableVars, stateVars, historyVars
  <2>2. TypeOK'
    BY <1>0, <2>1 DEF TypeOK
  <2>b. i \in Ids /\ i <= nextId /\ nextId' = nextId
    BY <1>0, <2>1 DEF UnusedIds
  <2>c. \A j \in Ids : j # i => clones'[j] = clones[j] /\ protected'[j] = protected[j]
    BY <1>0, <2>1
  <2>d. released' \subseteq released \cup {i}
    BY <1>0, <2>1
  <2>3. UnusedIds'
    <3> SUFFICES ASSUME NEW j \in Ids, j > nextId
                 PROVE clones'[j] = 0 /\ protected'[j] = {} /\ j \notin released'
      BY <2>b DEF UnusedIds
    <3>1. j # i
      BY <1>0, <2>b
    <3> QED BY <2>c, <2>d, <3>1 DEF UnusedIds
  <2>4. GuardsAreClones'
    BY <1>0, <2>1 DEF GuardsAreClones
  <2>5. HeldLeaseIsActive'
    BY <1>0, <2>1 DEF HeldLeaseIsActive, LeasedChatHasOwner, Held
  <2>6. LeasedChatHasOwner'
    BY <1>0, <2>1 DEF LeasedChatHasOwner, HeldLeaseIsActive, Held
  <2>7. DirtyIsOwnProtection'
    BY <1>0, <2>1 DEF DirtyIsOwnProtection, LeasedChatHasOwner, Held
  <2> QED BY <2>2, <2>3, <2>4, <2>5, <2>6, <2>7
<1>3. ASSUME NEW i \in Ids, RequestGuard(i) PROVE IInv'
  <2>1. /\ clones' = [clones EXCEPT ![i] = @ + 1]
        /\ guards' = [guards EXCEPT ![i] = @ + 1]
        /\ clones[i] > guards[i] /\ clones[i] < MaxClones
        /\ UNCHANGED <<chats, ext, nextId, active, dirty, leaseChat, released, protected>>
    BY <1>0, <1>3 DEF RequestGuard, Handles, tableVars, stateVars, historyVars
  <2>a. guards' \in [Ids -> 0 .. MaxClones] /\ clones' \in [Ids -> 0 .. MaxClones]
    <3>1. clones[i] \in 0 .. MaxClones /\ guards[i] \in 0 .. MaxClones
      BY <1>0
    <3>2. clones[i] + 1 \in 0 .. MaxClones /\ guards[i] + 1 \in 0 .. MaxClones
      BY <2>1, <3>1
    <3> QED BY <1>0, <2>1, <3>2, Zenon
  <2>2. TypeOK'
    BY <2>1, <2>a DEF TypeOK
  <2>b. i \in Ids /\ i <= nextId /\ nextId' = nextId
    BY <1>0, <2>1 DEF UnusedIds
  <2>c. \A j \in Ids : j # i => clones'[j] = clones[j] /\ protected'[j] = protected[j]
    BY <1>0, <2>1
  <2>d. released' \subseteq released \cup {i}
    BY <1>0, <2>1
  <2>3. UnusedIds'
    <3> SUFFICES ASSUME NEW j \in Ids, j > nextId
                 PROVE clones'[j] = 0 /\ protected'[j] = {} /\ j \notin released'
      BY <2>b DEF UnusedIds
    <3>1. j # i
      BY <1>0, <2>b
    <3> QED BY <2>c, <2>d, <3>1 DEF UnusedIds
  <2>4. GuardsAreClones'
    BY <1>0, <2>1 DEF GuardsAreClones
  <2>5. HeldLeaseIsActive'
    BY <1>0, <2>1 DEF HeldLeaseIsActive, LeasedChatHasOwner, Held
  <2>6. LeasedChatHasOwner'
    BY <1>0, <2>1 DEF LeasedChatHasOwner, HeldLeaseIsActive, Held
  <2>7. DirtyIsOwnProtection'
    BY <1>0, <2>1 DEF DirtyIsOwnProtection, LeasedChatHasOwner, Held
  <2> QED BY <2>2, <2>3, <2>4, <2>5, <2>6, <2>7
<1>4. ASSUME NEW i \in Ids, NEW r \in Revisions, ProtectRevision(i, r) PROVE IInv'
  <2>1. /\ active[leaseChat[i]] = i /\ clones[i] > 0
        /\ dirty' = [dirty EXCEPT ![leaseChat[i]] = @ \cup {r}]
        /\ protected' = [protected EXCEPT ![i] = @ \cup {r}]
        /\ UNCHANGED <<chats, ext, nextId, active, leaseChat, clones, guards, released>>
    BY <1>0, <1>4 DEF ProtectRevision, Handles, tableVars, ownerVars
  <2>2. TypeOK'
    BY <1>0, <2>1 DEF TypeOK
  <2>b. i \in Ids /\ i <= nextId /\ nextId' = nextId
    BY <1>0, <2>1 DEF UnusedIds
  <2>c. \A j \in Ids : j # i => clones'[j] = clones[j] /\ protected'[j] = protected[j]
    BY <1>0, <2>1
  <2>d. released' \subseteq released \cup {i}
    BY <1>0, <2>1
  <2>3. UnusedIds'
    <3> SUFFICES ASSUME NEW j \in Ids, j > nextId
                 PROVE clones'[j] = 0 /\ protected'[j] = {} /\ j \notin released'
      BY <2>b DEF UnusedIds
    <3>1. j # i
      BY <1>0, <2>b
    <3> QED BY <2>c, <2>d, <3>1 DEF UnusedIds
  <2>4. GuardsAreClones'
    BY <1>0, <2>1 DEF GuardsAreClones
  <2>5. HeldLeaseIsActive'
    BY <1>0, <2>1 DEF HeldLeaseIsActive, LeasedChatHasOwner, Held
  <2>6. LeasedChatHasOwner'
    BY <1>0, <2>1 DEF LeasedChatHasOwner, HeldLeaseIsActive, Held
  <2>7. DirtyIsOwnProtection'
    <3>1. i # 0 /\ i \in Nat
      OBVIOUS
    <3>2. dirty[leaseChat[i]] = protected[i]
      BY <1>0, <2>1, <3>1 DEF DirtyIsOwnProtection
    <3>3. \A d \in Chats : d # leaseChat[i] => active[d] # i
      BY <3>1 DEF LeasedChatHasOwner
    <3>4. ASSUME NEW d \in Chats
          PROVE dirty'[d] = IF active'[d] = 0 THEN {} ELSE protected'[active'[d]]
      <4>1. CASE d = leaseChat[i]
        BY <4>1, <1>0, <2>1, <3>1, <3>2
      <4>2. CASE d # leaseChat[i]
        <5>1. dirty'[d] = dirty[d] /\ active'[d] = active[d] /\ active[d] \in 0 .. MaxId
          BY <4>2, <1>0, <2>1
        <5>2. active[d] # 0 => protected'[active[d]] = protected[active[d]]
          BY <4>2, <5>1, <1>0, <2>1, <3>3
        <5> QED BY <5>1, <5>2 DEF DirtyIsOwnProtection
      <4> QED BY <4>1, <4>2
    <3> QED BY <3>4 DEF DirtyIsOwnProtection
  <2> QED BY <2>2, <2>3, <2>4, <2>5, <2>6, <2>7
<1>5. ASSUME NEW i \in Ids, Release(i) PROVE IInv'
  <2>1. ReleaseOwn(i) /\ clones[i] > 0 /\ released' = released \cup {i}
        /\ UNCHANGED <<chats, ext, nextId, leaseChat, clones, guards, protected>>
    BY <1>0, <1>5 DEF Release, Handles, tableVars, ownerVars
  <2>a. /\ active' \in [Chats -> 0 .. MaxId]
        /\ dirty' \in [Chats -> SUBSET Revisions]
        /\ \A c \in Chats : active'[c] = IF active[c] = i THEN 0 ELSE active[c]
        /\ \A c \in Chats : dirty'[c] = IF active[c] = i THEN {} ELSE dirty[c]
    BY <2>1, ReleaseOwnFacts
  <2>2. TypeOK'
    BY <1>0, <2>1, <2>a DEF TypeOK
  <2>b. i \in Ids /\ i <= nextId /\ nextId' = nextId
    BY <1>0, <2>1, <2>a DEF UnusedIds
  <2>c. \A j \in Ids : j # i => clones'[j] = clones[j] /\ protected'[j] = protected[j]
    BY <1>0, <2>1, <2>a
  <2>d. released' \subseteq released \cup {i}
    BY <1>0, <2>1, <2>a
  <2>3. UnusedIds'
    <3> SUFFICES ASSUME NEW j \in Ids, j > nextId
                 PROVE clones'[j] = 0 /\ protected'[j] = {} /\ j \notin released'
      BY <2>b DEF UnusedIds
    <3>1. j # i
      BY <1>0, <2>b
    <3> QED BY <2>c, <2>d, <3>1 DEF UnusedIds
  <2>4. GuardsAreClones'
    BY <1>0, <2>1, <2>a DEF GuardsAreClones
  <2>5. HeldLeaseIsActive'
    BY <1>0, <2>1, <2>a DEF HeldLeaseIsActive, LeasedChatHasOwner, Held
  <2>6. LeasedChatHasOwner'
    BY <1>0, <2>1, <2>a DEF LeasedChatHasOwner, HeldLeaseIsActive, Held
  <2>7. DirtyIsOwnProtection'
    BY <1>0, <2>1, <2>a DEF DirtyIsOwnProtection, LeasedChatHasOwner, Held
  <2> QED BY <2>2, <2>3, <2>4, <2>5, <2>6, <2>7
<1>6. ASSUME NEW i \in Ids, clones[i] > 0, DropOwner(i),
             UNCHANGED <<chats, ext, nextId, leaseChat, released, protected>>,
             guards' \in [Ids -> 0 .. MaxClones],
             \A j \in Ids : guards'[j] <= clones'[j]
      PROVE IInv'
  <2>1. clones' = [clones EXCEPT ![i] = @ - 1]
    BY <1>6 DEF DropOwner
  <2>a. /\ active' \in [Chats -> 0 .. MaxId]
        /\ dirty' \in [Chats -> SUBSET Revisions]
        /\ \A c \in Chats : active'[c] = IF clones[i] = 1 /\ active[c] = i THEN 0 ELSE active[c]
        /\ \A c \in Chats : dirty'[c] = IF clones[i] = 1 /\ active[c] = i THEN {} ELSE dirty[c]
    BY <1>0, <1>6, ReleaseOwnFacts DEF DropOwner
  <2>e. clones' \in [Ids -> 0 .. MaxClones]
    <3>1. clones[i] \in 0 .. MaxClones
      BY <1>0
    <3>2. clones[i] - 1 \in 0 .. MaxClones
      BY <1>6, <3>1
    <3> QED BY <1>0, <2>1, <3>2, Zenon
  <2>2. TypeOK'
    BY <1>6, <2>a, <2>e DEF TypeOK
  <2>b. i \in Ids /\ i <= nextId /\ nextId' = nextId
    BY <1>0, <1>6, <2>1, <2>a DEF UnusedIds
  <2>c. \A j \in Ids : j # i => clones'[j] = clones[j] /\ protected'[j] = protected[j]
    BY <1>0, <1>6, <2>1, <2>a
  <2>d. released' \subseteq released \cup {i}
    BY <1>0, <1>6, <2>1, <2>a
  <2>3. UnusedIds'
    <3> SUFFICES ASSUME NEW j \in Ids, j > nextId
                 PROVE clones'[j] = 0 /\ protected'[j] = {} /\ j \notin released'
      BY <2>b DEF UnusedIds
    <3>1. j # i
      BY <1>0, <2>b
    <3> QED BY <2>c, <2>d, <3>1 DEF UnusedIds
  <2>4. GuardsAreClones'
    BY <1>0, <1>6, <2>1, <2>a DEF GuardsAreClones
  <2>5. HeldLeaseIsActive'
    BY <1>0, <1>6, <2>1, <2>a, SMTT(30) DEF HeldLeaseIsActive, LeasedChatHasOwner, Held
  <2>6. LeasedChatHasOwner'
    BY <1>0, <1>6, <2>1, <2>a DEF LeasedChatHasOwner, HeldLeaseIsActive, Held
  <2>7. DirtyIsOwnProtection'
    BY <1>0, <1>6, <2>1, <2>a DEF DirtyIsOwnProtection, LeasedChatHasOwner, Held
  <2> QED BY <2>2, <2>3, <2>4, <2>5, <2>6, <2>7
<1>7. ASSUME NEW i \in Ids, DropLease(i) PROVE IInv'
  <2>1. clones' = [clones EXCEPT ![i] = @ - 1] /\ guards' = guards /\ clones[i] > guards[i]
    BY <1>0, <1>7 DEF DropLease, DropOwner, Handles
  <2>2. \A j \in Ids : guards'[j] <= clones'[j]
    BY <1>0, <2>1 DEF GuardsAreClones
  <2>3. UNCHANGED <<chats, ext, nextId, leaseChat, released, protected>>
    BY <1>7 DEF DropLease, tableVars, historyVars
  <2>4. clones[i] > 0 /\ guards' \in [Ids -> 0 .. MaxClones]
    BY <1>0, <2>1
  <2> QED BY <1>6, <1>7, <2>2, <2>3, <2>4 DEF DropLease
<1>8. ASSUME NEW i \in Ids, Handoff(i) PROVE IInv'
  <2>1. /\ clones' = [clones EXCEPT ![i] = @ - 1]
        /\ guards' = [guards EXCEPT ![i] = @ - 1] /\ guards[i] > 0
    BY <1>8 DEF Handoff, DropOwner
  <2>2. \A j \in Ids : guards'[j] <= clones'[j]
    BY <1>0, <2>1 DEF GuardsAreClones
  <2>3. UNCHANGED <<chats, ext, nextId, leaseChat, released, protected>>
    BY <1>8 DEF Handoff, tableVars, historyVars
  <2>4. clones[i] > 0 /\ guards' \in [Ids -> 0 .. MaxClones]
    BY <1>0, <2>1, SMTT(30) DEF GuardsAreClones
  <2> QED BY <1>6, <1>8, <2>2, <2>3, <2>4 DEF Handoff
<1>9. ASSUME NEW i \in Ids, DropGuard(i) PROVE IInv'
  <2>1. /\ ReleaseOwn(i) /\ guards[i] > 0 /\ released' = released \cup {i}
        /\ guards' = [guards EXCEPT ![i] = @ - 1]
        /\ clones' = [clones EXCEPT ![i] = @ - 1]
        /\ clones[i] >= guards[i]
        /\ UNCHANGED <<chats, ext, nextId, leaseChat, protected>>
    BY <1>0, <1>9 DEF DropGuard, tableVars, GuardsAreClones
  <2>a. /\ active' \in [Chats -> 0 .. MaxId]
        /\ dirty' \in [Chats -> SUBSET Revisions]
        /\ \A c \in Chats : active'[c] = IF active[c] = i THEN 0 ELSE active[c]
        /\ \A c \in Chats : dirty'[c] = IF active[c] = i THEN {} ELSE dirty[c]
    BY <2>1, ReleaseOwnFacts
  <2>2. TypeOK'
    BY <1>0, <2>1, <2>a, SMTT(30) DEF TypeOK
  <2>b. i \in Ids /\ i <= nextId /\ nextId' = nextId
    BY <1>0, <2>1, <2>a DEF UnusedIds
  <2>c. \A j \in Ids : j # i => clones'[j] = clones[j] /\ protected'[j] = protected[j]
    BY <1>0, <2>1, <2>a
  <2>d. released' \subseteq released \cup {i}
    BY <1>0, <2>1, <2>a
  <2>3. UnusedIds'
    <3> SUFFICES ASSUME NEW j \in Ids, j > nextId
                 PROVE clones'[j] = 0 /\ protected'[j] = {} /\ j \notin released'
      BY <2>b DEF UnusedIds
    <3>1. j # i
      BY <1>0, <2>b
    <3> QED BY <2>c, <2>d, <3>1 DEF UnusedIds
  <2>4. GuardsAreClones'
    BY <1>0, <2>1, <2>a, SMTT(30) DEF GuardsAreClones
  <2>5. HeldLeaseIsActive'
    BY <1>0, <2>1, <2>a DEF HeldLeaseIsActive, LeasedChatHasOwner, Held
  <2>6. LeasedChatHasOwner'
    <3> SUFFICES ASSUME NEW c \in Chats, active'[c] # 0
                 PROVE Held(active[c])' /\ leaseChat'[active'[c]] = c
      BY DEF LeasedChatHasOwner, Held
    <3>1. active'[c] = active[c] /\ active[c] # i /\ active[c] \in Ids
      BY <1>0, <2>a
    <3>2. Held(active[c]) /\ leaseChat[active[c]] = c
      BY <3>1 DEF LeasedChatHasOwner, Ids
    <3>3. clones'[active[c]] = clones[active[c]] /\ active[c] \notin released'
      BY <2>c, <2>d, <3>1, <3>2 DEF Held
    <3> QED BY <2>1, <3>1, <3>2, <3>3 DEF Held
  <2>7. DirtyIsOwnProtection'
    BY <1>0, <2>1, <2>a DEF DirtyIsOwnProtection, LeasedChatHasOwner, Held
  <2> QED BY <2>2, <2>3, <2>4, <2>5, <2>6, <2>7
<1>10. ASSUME NEW c \in Chats, NEW t \in Targets,
              MutatePluginExtension(c, t) \/ ApplyRemotePayload(c, t)
       PROVE IInv'
  <2>1. /\ ext' = [ext EXCEPT ![c][t] = ~@]
        /\ UNCHANGED <<chats, nextId, active, dirty, leaseChat, clones, guards, released, protected>>
    BY <1>10 DEF MutatePluginExtension, ApplyRemotePayload, stateVars, ownerVars, historyVars
  <2>2. ext' \in [Chats -> [Targets -> BOOLEAN]]
    <3>1. ext \in [Chats -> [Targets -> BOOLEAN]]
      BY DEF TypeOK
    <3>2. [ext[c] EXCEPT ![t] = ~@] \in [Targets -> BOOLEAN]
      BY <3>1, Zenon
    <3>3. ext' = [ext EXCEPT ![c] = [ext[c] EXCEPT ![t] = ~@]]
      BY <2>1, Zenon
    <3> QED BY <3>1, <3>2, <3>3, Zenon
  <2> QED BY <2>1, <2>2 DEF TypeOK, UnusedIds, GuardsAreClones, HeldLeaseIsActive,
       LeasedChatHasOwner, DirtyIsOwnProtection, Held
<1>11. ASSUME NEW c \in Chats, DeleteChat(c) PROVE IInv'
  BY <1>11 DEF DeleteChat, TypeOK, UnusedIds, GuardsAreClones,
     HeldLeaseIsActive, LeasedChatHasOwner, DirtyIsOwnProtection, Held,
     stateVars, ownerVars, historyVars
<1>12. ASSUME UNCHANGED vars PROVE IInv'
  BY <1>12 DEF vars, tableVars, stateVars, ownerVars, historyVars, TypeOK, UnusedIds,
     GuardsAreClones, HeldLeaseIsActive, LeasedChatHasOwner, DirtyIsOwnProtection, Held
<1> QED BY <1>1, <1>2, <1>3, <1>4, <1>5, <1>7, <1>8, <1>9, <1>10, <1>11, <1>12 DEF Next

(* The inductive invariant holds in every reachable state.                 *)
LEMMA SpecIInv == Spec => []IInv
BY InitIInv, NextIInv, PTL DEF Spec

(* Type correctness of the lease table and of its owners.                  *)
THEOREM TypeCorrect == Spec => []TypeOK
<1>1. IInv => TypeOK
  BY DEF IInv
<1> QED BY <1>1, SpecIInv, PTL

(* A generation that nobody released keeps its chat, whatever other clones *)
(* and guards are released or dropped, and in whatever order.              *)
THEOREM HeldLeaseSafe == Spec => []HeldLeaseIsActive
<1>1. IInv => HeldLeaseIsActive
  BY DEF IInv
<1> QED BY <1>1, SpecIInv, PTL

(* No leased chat is orphaned: somebody alive can still give it back.      *)
THEOREM NoOrphanLease == Spec => []LeasedChatHasOwner
<1>1. IInv => LeasedChatHasOwner
  BY DEF IInv
<1> QED BY <1>1, SpecIInv, PTL

(* Two held generations never share a chat.                                *)
THEOREM ExecutionExclusive == Spec => []OneGenerationPerChat
<1>1. IInv => OneGenerationPerChat
  BY LeaseAssumption DEF IInv, HeldLeaseIsActive, OneGenerationPerChat, Ids
<1> QED BY <1>1, SpecIInv, PTL

(* What is protected in a leased chat is what its generation has protected *)
(* itself: nothing is left over, and no stale generation adds to it.       *)
THEOREM ProtectionIsOwn == Spec => []DirtyIsOwnProtection
<1>1. IInv => DirtyIsOwnProtection
  BY DEF IInv
<1> QED BY <1>1, SpecIInv, PTL

(* A plugin write never changes what a held generation froze.              *)
THEOREM WritesExcluded == Spec => NoWriteUnderGeneration
<1>1. ASSUME IInv, NEW c \in Chats, NEW t \in Targets, MutatePluginExtension(c, t),
             NEW i \in Ids, Held(i), leaseChat[i] = c
      PROVE ~(t = ChatTarget \/ t \in protected[i])
  <2>1. active[c] = i
    BY <1>1 DEF IInv, HeldLeaseIsActive
  <2>2. i # 0
    BY LeaseAssumption DEF Ids
  <2>3. dirty[c] = protected[i]
    BY <2>1, <2>2, <1>1 DEF IInv, DirtyIsOwnProtection
  <2> QED BY <1>1, <2>1, <2>2, <2>3 DEF MutatePluginExtension, IsProtected
<1>2. IInv => [\A c \in Chats, t \in Targets :
         MutatePluginExtension(c, t) =>
           ~ \E i \in Ids : /\ Held(i) /\ leaseChat[i] = c
                            /\ t = ChatTarget \/ t \in protected[i]]_vars
  BY <1>1
<1> QED BY <1>2, SpecIInv, PTL DEF NoWriteUnderGeneration
=============================================================================
