------------------------- MODULE WorkspaceFileSync -------------------------
(***************************************************************************)
(* The replication of workspace files on one device:                       *)
(* WorkspaceFileSyncStore.rs, with the journal and the file host it uses.  *)
(*                                                                         *)
(* Three parties write the live files: the application (under the lock of  *)
(* the store, between two scans), the synchronization (under the lock,     *)
(* after it has saved what it intends to write) and programs outside the   *)
(* application, which know no lock.  A scan compares the live files with   *)
(* the durable inventory and journals the differences as local edits; the  *)
(* inventory is also what keeps received contents from being journaled as  *)
(* edits.  Every durable step may be the last one before a crash.          *)
(*                                                                         *)
(* A file is its content, and a content stands for its reference (hash and *)
(* size).  A pass is short against FULL_HASH_INTERVAL_MS, so that time     *)
(* passes between passes only.                                             *)
(***************************************************************************)
EXTENDS Integers, FiniteSets

CONSTANTS
    Paths,        \* workspace file paths
    Contents,     \* file contents, positive numbers
    Size,         \* the size of every content
    Interval,     \* FULL_HASH_INTERVAL_MS in ticks
    Racing,       \* what may happen outside while a pass runs: "edit", "root"
    MaxEdits,     \* bound: edits by the user, in the application or outside
    MaxReceived,  \* bound: operations received from other devices
    Scenarios     \* bound: the combinations of faults, how many of each kind

FaultKind == {"crash", "fail", "root", "clock"}

ASSUME WorkspaceAssumption ==
    /\ "none" \notin Paths
    /\ Contents \subseteq Nat \ {0}
    /\ Size \in [Contents -> Nat]
    /\ Interval \in Nat \ {0}
    /\ Racing \subseteq {"edit", "root"}
    /\ MaxEdits \in Nat
    /\ MaxReceived \in Nat
    /\ \A s \in Scenarios : s \in [FaultKind -> Nat]

VARIABLES
    live,       \* the files of the workspace root
    inventory,  \* workspace_inventory.json: files
    intent,     \* workspace_inventory.json: pending
    age,        \* time since lastFullHashAt, up to Interval; -1: in the future
    version,    \* content of the newest operation journaled or applied
    inbox,      \* received operations that are not applied yet
    job,        \* the pass that holds the lock of the store
    mounted,    \* the workspace root is there
    running,    \* the application is running
    author,     \* history: who wrote the live file last
    edited,     \* history: the application wrote the live file, no operation
                \* carries that yet, and no file vanished under a scan since
    cut,        \* history: a scan ended between an operation and its save
    edits, received, faults

store == <<inventory, intent, age>>
history == <<author, edited, cut>>
counts == <<edits, received, faults>>
vars == <<live, store, version, inbox, job, mounted, running, history, counts>>

Absent == 0
Files == Contents \cup {Absent}
NoIntent == [path |-> "none", next |-> Absent]

IdleJob ==
    [step |-> "idle", kind |-> "scan", path |-> "none", next |-> Absent,
     forced |-> {}, due |-> FALSE, listed |-> [p \in Paths |-> Absent],
     current |-> [p \in Paths |-> Absent], unseen |-> {}, done |-> {}]

Init ==
    /\ live = [p \in Paths |-> Absent]
    /\ inventory = [p \in Paths |-> Absent]
    /\ intent = NoIntent
    /\ age = Interval
    /\ version = [p \in Paths |-> Absent]
    /\ inbox = {}
    /\ job = IdleJob
    /\ mounted = TRUE
    /\ running = TRUE
    /\ author = [p \in Paths |-> "user"]
    /\ edited = [p \in Paths |-> FALSE]
    /\ cut = FALSE
    /\ edits = 0 /\ received = 0 /\ faults = [k \in FaultKind |-> 0]

(***************************************************************************)
(* The lock and the start of a pass.                                       *)
(***************************************************************************)

Free == running /\ job.step = "idle"

Begin(kind, p, c) ==
    /\ Free
    /\ job' = [IdleJob EXCEPT !.step = "load", !.kind = kind, !.path = p,
                              !.next = c]

Scan ==
    /\ Begin("scan", "none", Absent)
    /\ UNCHANGED <<live, store, version, inbox, mounted, running, history, counts>>

\* trackPaths around a write of c, track around a deletion.
Track(p, c) ==
    /\ edits < MaxEdits
    /\ Begin("track", p, c)
    /\ edits' = edits + 1
    /\ UNCHANGED <<live, store, version, inbox, mounted, running, history,
                   received, faults>>

\* materializeOperations: the application hands over one operation.
MaterializeOperation(o) ==
    /\ o \in inbox
    /\ Begin("apply", o.path, o.next)
    /\ UNCHANGED <<live, store, version, inbox, mounted, running, history, counts>>

\* An operation of another device is stored as pending; newer says whether it
\* supersedes the version this device has of the file.
Receive(p, c, newer) ==
    /\ received < MaxReceived
    /\ \A o \in inbox : o.path # p
    /\ inbox' = inbox \cup {[path |-> p, next |-> c, newer |-> newer]}
    /\ received' = received + 1
    /\ UNCHANGED <<live, store, version, job, mounted, running, history, edits,
                   faults>>

(***************************************************************************)
(* recoverPending: the intended content is written, then the inventory is  *)
(* saved.  A scan starts with it, an application ends with it.             *)
(***************************************************************************)

\* writeBytes creates missing directories, the workspace root included: then
\* the file is alone in a new root.  Nothing is deleted in an absent root.
WriteLive(p, c, who) ==
    LET made == ~mounted /\ c # Absent
        gone == {q \in Paths \ {p} : made /\ live[q] # Absent}
        touched == {q \in {p} : mounted \/ made}
    IN  /\ live' = [q \in Paths |-> IF q \in touched THEN c
                                  ELSE IF q \in gone THEN Absent ELSE live[q]]
        /\ author' = [q \in Paths |-> IF q \in touched THEN who
                                    ELSE IF q \in gone THEN "lost" ELSE author[q]]
        /\ mounted' = (mounted \/ made)

WriteIntended ==
    /\ job.step \in {"load", "write"}
    /\ intent # NoIntent
    /\ WriteLive(intent.path, intent.next, "sync")
    /\ edited' = [edited EXCEPT ![intent.path] = FALSE]
    /\ job' = [job EXCEPT !.step = IF @ = "load" THEN "recovered" ELSE "written"]
    /\ UNCHANGED <<store, version, inbox, running, cut, counts>>

\* Mutant: the received content is not entered in the inventory.
SettledOnly == inventory

\* The inventory once the intended content is there.
Settled == [inventory EXCEPT ![intent.path] = intent.next]

\* Mutant: the intent stays on disk once it is settled.
SaveRecoveredOnly ==
    /\ job.step \in {"recovered", "written"}
    /\ inventory' = Settled
    /\ job' = [job EXCEPT !.step = IF @ = "recovered" THEN "load" ELSE "record"]
    /\ UNCHANGED <<live, intent, age, version, inbox, mounted, running, history, counts>>

SaveRecovered ==
    /\ job.step \in {"recovered", "written"}
    /\ inventory' = Settled
    /\ intent' = NoIntent
    /\ job' = [job EXCEPT !.step = IF @ = "recovered" THEN "load" ELSE "record"]
    /\ UNCHANGED <<live, age, version, inbox, mounted, running, history, counts>>

(***************************************************************************)
(* scanUnlocked.                                                           *)
(***************************************************************************)

FullHashDue == age >= Interval \/ age < 0

\* Mutant: an absent root is listed like any other directory.
RootTrusted == TRUE

\* The refusal to take an absent root for the deletion of all files.
RootPresent == mounted \/ inventory = [p \in Paths |-> Absent]

\* The clock is read and the root is looked for.
CheckRoot ==
    /\ job.step = "load"
    /\ intent = NoIntent
    /\ job' = IF RootPresent
              THEN [job EXCEPT !.step = "list", !.due = FullHashDue]
              ELSE IdleJob
    /\ UNCHANGED <<live, store, version, inbox, mounted, running, history, counts>>

\* host.list: the files that are there and their sizes; an absent directory
\* is listed as an empty one.
List ==
    /\ job.step = "list"
    /\ LET listed == [p \in Paths |-> IF mounted THEN live[p] ELSE Absent] IN
       job' = [job EXCEPT !.step = "collect", !.listed = listed,
                          !.unseen = {p \in Paths : listed[p] # Absent}]
    /\ UNCHANGED <<live, store, version, inbox, mounted, running, history, counts>>

\* Mutant: a file the application has just written is trusted by its size.
ShortcutUnforced(p) ==
    /\ ~job.due
    /\ inventory[p] # Absent
    /\ Size[inventory[p]] = Size[job.listed[p]]

\* Mutant: every file is trusted by its size, the full round included.
ShortcutAlways(p) ==
    /\ p \notin job.forced
    /\ inventory[p] # Absent
    /\ Size[inventory[p]] = Size[job.listed[p]]

\* The size is the one the inventory knows: the reference is reused.
Shortcut(p) ==
    /\ ~job.due
    /\ p \notin job.forced
    /\ inventory[p] # Absent
    /\ Size[inventory[p]] = Size[job.listed[p]]

\* The listed file is gone by now.
Vanished(p) == ~Shortcut(p) /\ ~(mounted /\ live[p] # Absent)

\* collect, one file: its reference, or an error.
Collect(p) ==
    /\ job.step = "collect"
    /\ p \in job.unseen
    /\ job' = IF Vanished(p) THEN IdleJob
              ELSE [job EXCEPT !.unseen = @ \ {p},
                               !.current[p] = IF Shortcut(p) THEN inventory[p] ELSE live[p]]
    /\ edited' = IF Vanished(p) THEN [q \in Paths |-> FALSE] ELSE edited
    /\ UNCHANGED <<live, store, version, inbox, mounted, running, author, cut, counts>>

Changed(p) == job.current[p] # inventory[p]

Deletions == {p \in Paths : Changed(p) /\ job.current[p] = Absent}

\* recordDeletion and recordSnapshot: one operation of this device, later than
\* the received ones on the same file.  Deletions go first.
Publish(p) ==
    /\ job.step = "collect"
    /\ job.unseen = {}
    /\ Changed(p)
    /\ p \notin job.done
    /\ p \in Deletions \/ Deletions \subseteq job.done
    /\ version' = [version EXCEPT ![p] = job.current[p]]
    /\ inbox' = {IF o.path = p THEN [o EXCEPT !.newer = FALSE] ELSE o : o \in inbox}
    /\ edited' = [edited EXCEPT ![p] = @ /\ live[p] # job.current[p]]
    /\ job' = [job EXCEPT !.done = @ \cup {p}]
    /\ UNCHANGED <<live, store, mounted, running, author, cut, counts>>

\* What a pass does after its scan.
AfterScan ==
    CASE job.kind = "apply" -> [job EXCEPT !.step = "decide", !.done = {}]
      [] job.kind = "track" /\ job.path # "none" -> [job EXCEPT !.step = "change", !.done = {}]
      [] OTHER -> IdleJob

\* Mutant: only a full round saves the inventory.
SaveDue == job.due

SaveNeeded == job.done # {} \/ job.due

SaveScan ==
    /\ job.step = "collect"
    /\ job.unseen = {}
    /\ \A p \in Paths : Changed(p) => p \in job.done
    /\ inventory' = IF SaveNeeded THEN job.current ELSE inventory
    /\ age' = IF SaveNeeded THEN 0 ELSE age
    /\ job' = AfterScan
    /\ UNCHANGED <<live, intent, version, inbox, mounted, running, history, counts>>

\* The second scan of trackPaths has the path forced, the one of track none.
SecondScan ==
    [IdleJob EXCEPT !.step = "load", !.kind = "track",
                    !.forced = IF job.next = Absent THEN {} ELSE {job.path}]

\* The change of trackPaths.
Change ==
    /\ job.step = "change"
    /\ WriteLive(job.path, job.next, "user")
    /\ edited' = [edited EXCEPT ![job.path] =
                    /\ live'[job.path] # version[job.path]
                    /\ @ \/ live'[job.path] # live[job.path]]
    /\ job' = SecondScan
    /\ UNCHANGED <<store, version, inbox, running, cut, counts>>

(***************************************************************************)
(* The application of a received operation.                                *)
(***************************************************************************)

\* shouldApplyOperation holds: applyUnlocked saves what it is going to write.
SaveIntent ==
    /\ job.step = "decide"
    /\ \E o \in inbox : o.path = job.path /\ o.newer
    /\ intent' = [path |-> job.path, next |-> job.next]
    /\ job' = [job EXCEPT !.step = "write"]
    /\ UNCHANGED <<live, inventory, age, version, inbox, mounted, running, history,
                   counts>>

Finished == {o \in inbox : o.path # job.path}

\* The operation is older than the version of the file.
Skip ==
    /\ job.step = "decide"
    /\ \A o \in inbox : o.path = job.path => ~o.newer
    /\ inbox' = Finished
    /\ job' = IdleJob
    /\ UNCHANGED <<live, store, version, mounted, running, history, counts>>

\* recordAppliedOperation; the caller then completes the operation.
Record ==
    /\ job.step = "record"
    /\ version' = [version EXCEPT ![job.path] = job.next]
    /\ inbox' = Finished
    /\ job' = IdleJob
    /\ UNCHANGED <<live, store, mounted, running, history, counts>>

(***************************************************************************)
(* Outside the store.                                                      *)
(***************************************************************************)

Outside(act) == job.step = "idle" \/ act \in Racing

\* A terminal or an editor writes or deletes a file, while the application
\* runs or not.
Edit(p, c) ==
    /\ edits < MaxEdits
    /\ Outside("edit")
    /\ mounted
    /\ live[p] # c
    /\ live' = [live EXCEPT ![p] = c]
    /\ author' = [author EXCEPT ![p] = "user"]
    /\ edited' = [edited EXCEPT ![p] = FALSE]
    /\ edits' = edits + 1
    /\ UNCHANGED <<store, version, inbox, job, mounted, running, cut, received,
                   faults>>

\* What is older than the interval is due, however old it is.
Older(t) == IF t < Interval THEN t + 1 ELSE t

Tick ==
    /\ job.step = "idle"
    /\ age' = Older(age)
    /\ UNCHANGED <<live, inventory, intent, version, inbox, job, mounted, running,
                   history, counts>>

Fault(kind) ==
    /\ faults' = [faults EXCEPT ![kind] = @ + 1]
    /\ \E s \in Scenarios : \A k \in FaultKind : faults'[k] <= s[k]

\* What a pass that ends too early leaves behind.
CutOff == cut' = (cut \/ job.done # {})

\* The system clock is set back.
ClockBack ==
    /\ Fault("clock")
    /\ job.step = "idle"
    /\ age' \in -1..(age - 1)
    /\ UNCHANGED <<live, inventory, intent, version, inbox, job, mounted, running,
                   history, edits, received>>

\* The change fails: trackPaths scans all the same.
ChangeFails ==
    /\ Fault("fail")
    /\ job.step = "change"
    /\ job' = SecondScan
    /\ UNCHANGED <<live, store, version, inbox, mounted, running, history, edits,
                   received>>

\* A host, journal or blob error: the pass returns, what it did stays.
Fail ==
    /\ Fault("fail")
    /\ job.step \notin {"idle", "change"}
    /\ job' = IdleJob
    /\ CutOff
    /\ UNCHANGED <<live, store, version, inbox, mounted, running, author, edited,
                   edits, received>>

Crash ==
    /\ Fault("crash")
    /\ running
    /\ running' = FALSE
    /\ job' = IdleJob
    /\ CutOff
    /\ UNCHANGED <<live, store, version, inbox, mounted, author, edited, edits,
                   received>>

Restart ==
    /\ ~running
    /\ running' = TRUE
    /\ UNCHANGED <<live, store, version, inbox, job, mounted, history, counts>>

\* The volume of the workspace root goes away.
LoseRoot ==
    /\ Fault("root")
    /\ Outside("root")
    /\ mounted
    /\ mounted' = FALSE
    /\ UNCHANGED <<live, store, version, inbox, job, running, history, edits,
                   received>>

RootBack ==
    /\ ~mounted
    /\ mounted' = TRUE
    /\ UNCHANGED <<live, store, version, inbox, job, running, history, counts>>

JobStep ==
    \/ WriteIntended
    \/ SaveRecovered
    \/ CheckRoot
    \/ List
    \/ \E p \in Paths : Collect(p) \/ Publish(p)
    \/ SaveScan
    \/ Change
    \/ SaveIntent
    \/ Skip
    \/ Record

Next ==
    \/ Scan
    \/ \E p \in Paths, c \in Files : Track(p, c) \/ Edit(p, c)
    \/ \E o \in inbox : MaterializeOperation(o)
    \/ \E p \in Paths, c \in Files, newer \in BOOLEAN : Receive(p, c, newer)
    \/ JobStep
    \/ Tick
    \/ ClockBack
    \/ ChangeFails
    \/ Fail
    \/ Crash
    \/ Restart
    \/ LoseRoot
    \/ RootBack

Spec == Init /\ [][Next]_vars

\* The scanner thread polls for ever, passes run to their end, received
\* operations are retried, and time passes between passes.
Fairness ==
    /\ WF_vars(JobStep)
    /\ SF_vars(Scan)
    /\ SF_vars(\E o \in inbox : MaterializeOperation(o))
    /\ SF_vars(Tick)
    /\ WF_vars(Restart)
    /\ WF_vars(RootBack)

LiveSpec == Spec /\ Fairness

-----------------------------------------------------------------------------
(***************************************************************************)
(* Properties.                                                             *)
(***************************************************************************)

\* applyUnlocked, recoverPending: a write that is intended on disk is one of a
\* received operation that still waits to be completed and that no edit of this
\* device has superseded, so that a recovery, at whichever pass and after however
\* many crashes, replaces neither an edit that was journaled meanwhile nor the
\* content of an operation that came later.
IntentIsPending ==
    intent # NoIntent =>
        \E o \in inbox : o.path = intent.path /\ o.next = intent.next /\ o.newer

\* The files a step journals as local edits.
Published == job'.done \ job.done

\* applyUnlocked, recoverPending: received contents are never journaled as
\* local edits, whatever step of an application or of a recovery was the last
\* one before a crash.
NoEcho == [][\A p \in Published : author[p] # "sync"]_vars

\* scanUnlocked: "one unreadable directory must never be mistaken for mass
\* deletion".  A tombstone is journaled only while the root is there and for a
\* file that the user took away.
TombstonesGenuine ==
    [][\A p \in Published : job.current[p] = Absent =>
          mounted /\ author[p] = "user"]_vars

\* scanUnlocked, recoverPending: whenever the lock is free the inventory is
\* what the journal has of every file, but for a file whose received operation
\* is still to be retried, and unless a scan was cut off.
InventoryIsPublished ==
    Free /\ ~cut =>
        \A p \in Paths : inventory[p] = version[p] \/ \E o \in inbox : o.path = p

\* trackPaths: "serializes conflict decisions with scans and app writes".  A
\* received operation never replaces what the application wrote before that
\* was journaled, a rewrite of equal size included, as long as no pass ended
\* early.
AppEditsKept ==
    [][faults["crash"] + faults["fail"] = 0 =>
          \A p \in Paths : edited[p] => author'[p] # "sync"]_vars

\* scan, with the full-hash rounds: once the user rests, every edit reaches
\* the journal and every received operation the files, rewrites of equal size
\* and passes refused while the root was away included, whatever step of a
\* pass was the last one before a crash or an error, except for a scan that is
\* cut off between an operation it journals and the save of its inventory.
EventuallyPublished == <>[](cut \/ (version = live /\ inbox = {}))
=============================================================================
