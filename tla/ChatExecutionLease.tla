------------------------- MODULE ChatExecutionLease -------------------------
(***************************************************************************)
(* The execution leases of the chat store (persistence/store,              *)
(* ChatExecutionLease.rs).  A generation acquires the lease of its chat,   *)
(* hands clones of it to the awaited request and to the streaming runtime, *)
(* protects the revisions it is writing, and gives the chat back when it   *)
(* is released or when the last clone disappears.  While a chat is leased, *)
(* local plugin writes to its metadata are refused.                        *)
(*                                                                         *)
(* Every action is one critical section of the lease mutex.  A call that   *)
(* returns an error changes nothing and is a stuttering step.              *)
(***************************************************************************)
EXTENDS Integers

CONSTANTS
    Chats,       \* chat ids
    Revisions,   \* (message timestamp, variant index) pairs of one chat
    ChatTarget,  \* the extension target that is the chat row itself
    MaxId,       \* the largest lease id (u64::MAX in the code)
    MaxClones    \* bound: clones of one lease alive at once

ASSUME LeaseAssumption ==
    /\ MaxId \in Nat
    /\ MaxClones \in Nat
    /\ ChatTarget \notin Revisions

VARIABLES
    chats,      \* rows of the chats table
    ext,        \* plugin extensions stored for each target of each chat
    nextId,     \* ChatExecutionLeaseState.nextId
    active,     \* ChatExecutionLeaseState.active: the lease id, 0 if absent
    dirty,      \* ActiveExecution.dirtyRevisions
    leaseChat,  \* ExecutionLeaseOwner.chatId, arbitrary until the id is handed out
    clones,     \* strong count of Arc<ExecutionLeaseOwner>, guards included
    guards,     \* armed ChatExecutionRequestGuards of the lease
    released,   \* history: leases ended by an explicit release
    protected   \* history: revisions every lease has protected

tableVars == <<chats, ext>>
stateVars == <<nextId, active, dirty>>
ownerVars == <<leaseChat, clones, guards>>
historyVars == <<released, protected>>
vars == <<tableVars, stateVars, ownerVars, historyVars>>

Ids == 1 .. MaxId
Targets == Revisions \cup {ChatTarget}

TypeOK ==
    /\ chats \subseteq Chats
    /\ ext \in [Chats -> [Targets -> BOOLEAN]]
    /\ nextId \in 0 .. MaxId
    /\ active \in [Chats -> 0 .. MaxId]
    /\ dirty \in [Chats -> SUBSET Revisions]
    /\ leaseChat \in [Ids -> Chats]
    /\ clones \in [Ids -> 0 .. MaxClones]
    /\ guards \in [Ids -> 0 .. MaxClones]
    /\ released \subseteq Ids
    /\ protected \in [Ids -> SUBSET Revisions]

Init ==
    /\ chats = Chats
    /\ ext = [c \in Chats |-> [t \in Targets |-> FALSE]]
    /\ nextId = 0
    /\ active = [c \in Chats |-> 0]
    /\ dirty = [c \in Chats |-> {}]
    /\ leaseChat \in {[i \in Ids |-> c] : c \in Chats}
    /\ clones = [i \in Ids |-> 0]
    /\ guards = [i \in Ids |-> 0]
    /\ released = {}
    /\ protected = [i \in Ids |-> {}]
-----------------------------------------------------------------------------
(* A lease is held while a clone of it is alive and nobody released it.    *)
Held(i) == clones[i] > 0 /\ i \notin released

(* Clones that are plain handles: a guard holds one clone of its own.      *)
Handles(i) == clones[i] - guards[i]

(* Mutant of ReleaseOwn: the entry is removed whatever its generation.     *)
ReleaseAnyGeneration(i) ==
    /\ active' = [active EXCEPT ![leaseChat[i]] = 0]
    /\ dirty' = [dirty EXCEPT ![leaseChat[i]] = {}]

(* ExecutionLeaseOwner::release: removes the chat's entry only when it is  *)
(* this generation's, never a newer one.                                   *)
ReleaseOwn(i) ==
    LET c == leaseChat[i] IN
    IF active[c] = i
      THEN /\ active' = [active EXCEPT ![c] = 0]
           /\ dirty' = [dirty EXCEPT ![c] = {}]
      ELSE UNCHANGED <<active, dirty>>

(* Mutant of DropOwner: no Drop implementation on the owner.               *)
DropWithoutRelease(i) ==
    /\ clones' = [clones EXCEPT ![i] = @ - 1]
    /\ UNCHANGED <<active, dirty>>

(* Dropping the Arc: the last owner to disappear releases the lease.       *)
DropOwner(i) ==
    /\ clones' = [clones EXCEPT ![i] = @ - 1]
    /\ IF clones[i] = 1 THEN ReleaseOwn(i) ELSE UNCHANGED <<active, dirty>>

(* Mutant of BeginChatExecution: the id counter is not checked for         *)
(* overflow.                                                               *)
BeginUnchecked(c) ==
    /\ active[c] = 0
    /\ c \in chats
    /\ nextId' = nextId + 1
    /\ active' = [active EXCEPT ![c] = nextId + 1]
    /\ dirty' = [dirty EXCEPT ![c] = {}]
    /\ leaseChat' = [leaseChat EXCEPT ![nextId + 1] = c]
    /\ clones' = [clones EXCEPT ![nextId + 1] = 1]
    /\ UNCHANGED <<tableVars, guards, historyVars>>

(* SqliteStore::beginChatExecution. *)
BeginChatExecution(c) ==
    /\ active[c] = 0
    /\ c \in chats
    /\ nextId < MaxId
    /\ MaxClones > 0
    /\ LET id == nextId + 1 IN
         /\ nextId' = id
         /\ active' = [active EXCEPT ![c] = id]
         /\ dirty' = [dirty EXCEPT ![c] = {}]
         /\ leaseChat' = [leaseChat EXCEPT ![id] = c]
         /\ clones' = [clones EXCEPT ![id] = 1]
    /\ UNCHANGED <<tableVars, guards, historyVars>>

(* Clone for ChatExecutionLease: request, runtime and callbacks share it.  *)
CloneLease(i) ==
    /\ Handles(i) > 0
    /\ clones[i] < MaxClones
    /\ clones' = [clones EXCEPT ![i] = @ + 1]
    /\ UNCHANGED <<tableVars, stateVars, leaseChat, guards, historyVars>>

(* ChatExecutionLease::requestGuard. *)
RequestGuard(i) ==
    /\ Handles(i) > 0
    /\ clones[i] < MaxClones
    /\ clones' = [clones EXCEPT ![i] = @ + 1]
    /\ guards' = [guards EXCEPT ![i] = @ + 1]
    /\ UNCHANGED <<tableVars, stateVars, leaseChat, historyVars>>

(* Mutant of ProtectRevision: the lease is not compared with the active    *)
(* generation of the chat.                                                 *)
ProtectStale(i, r) ==
    /\ Handles(i) > 0
    /\ active[leaseChat[i]] # 0
    /\ dirty' = [dirty EXCEPT ![leaseChat[i]] = @ \cup {r}]
    /\ protected' = [protected EXCEPT ![i] = @ \cup {r}]
    /\ UNCHANGED <<tableVars, nextId, active, ownerVars, released>>

(* ChatExecutionLease::protectRevision: refused once the lease is gone.    *)
ProtectRevision(i, r) ==
    /\ Handles(i) > 0
    /\ active[leaseChat[i]] = i
    /\ dirty' = [dirty EXCEPT ![leaseChat[i]] = @ \cup {r}]
    /\ protected' = [protected EXCEPT ![i] = @ \cup {r}]
    /\ UNCHANGED <<tableVars, nextId, active, ownerVars, released>>

(* ChatExecutionLease::release, idempotent and legal on a stale clone.     *)
Release(i) ==
    /\ Handles(i) > 0
    /\ ReleaseOwn(i)
    /\ released' = released \cup {i}
    /\ UNCHANGED <<tableVars, nextId, ownerVars, protected>>

(* Drop of one ChatExecutionLease handle (finished or cancelled future).   *)
DropLease(i) ==
    /\ Handles(i) > 0
    /\ DropOwner(i)
    /\ UNCHANGED <<tableVars, nextId, leaseChat, guards, historyVars>>

(* ChatExecutionRequestGuard::handoff: disarmed, its clone is dropped.     *)
Handoff(i) ==
    /\ guards[i] > 0
    /\ guards' = [guards EXCEPT ![i] = @ - 1]
    /\ DropOwner(i)
    /\ UNCHANGED <<tableVars, nextId, leaseChat, historyVars>>

(* Drop of an armed guard: an early error or a cancelled request releases  *)
(* the lease even when the runtime still holds a clone.                    *)
DropGuard(i) ==
    /\ guards[i] > 0
    /\ guards' = [guards EXCEPT ![i] = @ - 1]
    /\ clones' = [clones EXCEPT ![i] = @ - 1]
    /\ ReleaseOwn(i)
    /\ released' = released \cup {i}
    /\ UNCHANGED <<tableVars, nextId, leaseChat, protected>>

(* Mutant of IsProtected: only the chat row is guarded.                    *)
ChatRowProtected(c, t) == active[c] # 0 /\ t = ChatTarget

(* SqliteStore::withPluginExtensionMutation around the row update of       *)
(* SqlChatSyncStore::mutatePluginExtension, under the lease mutex.         *)
IsProtected(c, t) ==
    /\ active[c] # 0
    /\ t = ChatTarget \/ t \in dirty[c]

MutatePluginExtension(c, t) ==
    /\ ~IsProtected(c, t)
    /\ c \in chats
    /\ ext' = [ext EXCEPT ![c][t] = ~@]
    /\ UNCHANGED <<chats, stateVars, ownerVars, historyVars>>

(* applyPayload of a chat operation received from another node: the upsert *)
(* replaces the pluginExtensions column and never consults the leases.     *)
ApplyRemotePayload(c, t) ==
    /\ c \in chats
    /\ ext' = [ext EXCEPT ![c][t] = ~@]
    /\ UNCHANGED <<chats, stateVars, ownerVars, historyVars>>

(* SqlChatSyncStore::deleteChat, local or received: terminal for the id,   *)
(* and it does not consult the leases either.                              *)
DeleteChat(c) ==
    /\ c \in chats
    /\ chats' = chats \ {c}
    /\ UNCHANGED <<ext, stateVars, ownerVars, historyVars>>

Next ==
    \/ \E c \in Chats : BeginChatExecution(c) \/ DeleteChat(c)
    \/ \E i \in Ids :
         \/ CloneLease(i) \/ RequestGuard(i) \/ Release(i)
         \/ DropLease(i) \/ Handoff(i) \/ DropGuard(i)
    \/ \E i \in Ids, r \in Revisions : ProtectRevision(i, r)
    \/ \E c \in Chats, t \in Targets :
         MutatePluginExtension(c, t) \/ ApplyRemotePayload(c, t)

Spec == Init /\ [][Next]_vars
-----------------------------------------------------------------------------
(* A generation that is still held is the one its chat is leased to: a     *)
(* stale clone, a late callback or a dropped guard of another generation   *)
(* never takes the chat away from it (ExecutionLeaseOwner::release).       *)
HeldLeaseIsActive ==
    \A i \in Ids : Held(i) => active[leaseChat[i]] = i

(* A leased chat has an owner that can still give it back: no release or   *)
(* drop order leaves a chat executing for ever (Drop for                   *)
(* ExecutionLeaseOwner, Drop for ChatExecutionRequestGuard).               *)
LeasedChatHasOwner ==
    \A c \in Chats : active[c] # 0 => Held(active[c]) /\ leaseChat[active[c]] = c

(* No two generations are held on one chat (beginChatExecution).           *)
OneGenerationPerChat ==
    \A i, j \in Ids : Held(i) /\ Held(j) /\ leaseChat[i] = leaseChat[j] => i = j

(* The dirty revisions the mutex guards are exactly the revisions the held *)
(* generation protected: a stale generation adds none and a new one        *)
(* inherits none (protectRevision, beginChatExecution).                    *)
DirtyIsOwnProtection ==
    \A c \in Chats :
        dirty[c] = IF active[c] = 0 THEN {} ELSE protected[active[c]]

(* A plugin write never reaches the chat row of a held generation, nor a   *)
(* revision it protected (withPluginExtensionMutation).                    *)
NoWriteUnderGeneration ==
    [][\A c \in Chats, t \in Targets :
         MutatePluginExtension(c, t) =>
           ~ \E i \in Ids : /\ Held(i) /\ leaseChat[i] = c
                            /\ t = ChatTarget \/ t \in protected[i]]_vars
=============================================================================
