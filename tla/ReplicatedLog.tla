--------------------------- MODULE ReplicatedLog ---------------------------
(***************************************************************************)
(* What the synchronization of a Space promises, without how: every        *)
(* replica keeps a growing set of operations, an operation has one author  *)
(* and an identity nobody else ever uses, the version of an entity moves   *)
(* only forward in the order of operations, and an operation of another    *)
(* author counts as applied only when the version has reached it.  Threads,*)
(* pages, receipts, retries and crashes do not appear.                     *)
(*                                                                         *)
(* SyncJournal implements this specification.                              *)
(***************************************************************************)
EXTENDS Integers

CONSTANTS
    Replica,   \* the nodes of the Space, numbered in the order of their ids
    Entity,    \* what operations are about
    None       \* the version of an entity nothing was recorded of

VARIABLES
    history,   \* history[r]: the operations replica r has durably
    applied,   \* applied[r]: those of them it has dealt with
    version    \* version[r][e]: the operation that r takes for the newest on e

logVars == <<history, applied, version>>

Operation == [origin : Replica, sequence : Nat, entity : Entity, createdAt : Nat, content : Nat]

\* Every operation that was ever accepted is still somewhere.
Written == UNION {history[r] : r \in Replica}

\* The order in which operations win over each other.
Precedes(o, p) ==
    \/ o.createdAt < p.createdAt
    \/ o.createdAt = p.createdAt /\ o.origin < p.origin
    \/ o.createdAt = p.createdAt /\ o.origin = p.origin /\ o.sequence < p.sequence

Reached(r, o) == version[r][o.entity] # None /\ ~Precedes(version[r][o.entity], o)

LogInit ==
    /\ history = [r \in Replica |-> {}]
    /\ applied = [r \in Replica |-> {}]
    /\ version = [r \in Replica |-> [e \in Entity |-> None]]

\* A replica writes an operation o of its own, under a new identity.
Author(r, o) ==
    /\ o \in Operation
    /\ o.origin = r
    /\ \A p \in Written : p.origin = r => p.sequence # o.sequence
    /\ history' = [history EXCEPT ![r] = @ \cup {o}]
    /\ applied' = [applied EXCEPT ![r] = @ \cup {o}]
    /\ UNCHANGED version

\* A replica learns of operations that others have.
Learn(r, S) ==
    /\ history' = [history EXCEPT ![r] = @ \cup S]
    /\ UNCHANGED <<applied, version>>

\* The version of an entity moves forward to an operation of the history.
Advance(r, o) ==
    /\ ~Reached(r, o)
    /\ version' = [version EXCEPT ![r][o.entity] = o]
    /\ UNCHANGED <<history, applied>>

\* A replica is done with operations that the versions have reached.
Settle(r, S) ==
    /\ \A o \in S : Reached(r, o)
    /\ applied' = [applied EXCEPT ![r] = @ \cup S]
    /\ UNCHANGED <<history, version>>

LogNext ==
    \E r \in Replica :
        \/ \E o \in history'[r] : Author(r, o)
        \/ \E S \in SUBSET Written : Learn(r, S)
        \/ \E o \in history[r] : Advance(r, o)
        \/ \E S \in SUBSET history[r] : Settle(r, S)

LogSpec == LogInit /\ [][LogNext]_logVars
=============================================================================
