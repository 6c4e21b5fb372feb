---------------------- MODULE WorkspaceFileSyncProofs ----------------------
(***************************************************************************)
(* Proofs about WorkspaceFileSync, for any files, contents and faults.     *)
(*                                                                         *)
(* Four inductive invariants, all on top of the first:                     *)
(*   IInv   what a pass has done at each of its steps, and what the        *)
(*          inventory, the journal and the waiting operations agree on;    *)
(*   OInv   which operation a pass and an intent belong to;                *)
(*   RInv   what is known of a file that the user did not write last,      *)
(*          where a root that goes away is no part of another fault;       *)
(*   EInv   where an edit of the application can be that is not journaled. *)
(***************************************************************************)
EXTENDS WorkspaceFileSync, TLAPS

Steps == {"idle", "load", "recovered", "list", "collect", "change", "decide",
          "write", "written", "record"}

(* The types of the files, of the store and of the pass.                   *)
TypeOK ==
    /\ live \in [Paths -> Files]
    /\ inventory \in [Paths -> Files]
    /\ version \in [Paths -> Files]
    /\ intent \in {NoIntent} \cup [path : Paths, next : Files]
    /\ age \in -1..Interval
    /\ inbox \subseteq [path : Paths, next : Files, newer : BOOLEAN]
    /\ job \in [step : Steps, kind : {"scan", "track", "apply"},
               path : Paths \cup {"none"}, next : Files,
               forced : SUBSET Paths, due : BOOLEAN,
               listed : [Paths -> Files], current : [Paths -> Files],
               unseen : SUBSET Paths, done : SUBSET Paths]
    /\ mounted \in BOOLEAN
    /\ running \in BOOLEAN
    /\ author \in [Paths -> {"user", "sync", "lost"}]
    /\ edited \in [Paths -> BOOLEAN]
    /\ cut \in BOOLEAN
    /\ edits \in Nat /\ received \in Nat /\ faults \in [FaultKind -> Nat]

Waiting(p) == \E o \in inbox : o.path = p /\ o.newer

(* The intent is there from its save to the save of its inventory, and     *)
(* belongs to an operation that waits.                                     *)
IntentShape ==
    /\ intent # NoIntent => job.step \in {"idle", "load", "recovered", "write", "written"} /\ Waiting(intent.path)
    /\ job.step \in {"recovered", "write", "written"} => intent # NoIntent
    /\ job.step \in {"write", "written"} => intent.path = job.path /\ intent.next = job.next
    /\ job.step = "record" => job.path \in Paths /\ inventory[job.path] = job.next
    /\ job.step = "change" => job.path \in Paths

(* A scan has nothing before it lists, publishes when all is collected, and *)
(* what it has published is what the journal has.                          *)
ScanShape ==
    /\ job.step # "collect" => job.done = {}
    /\ job.step \in {"load", "recovered", "list"} => \A p \in Paths : job.current[p] = Absent
    /\ job.done # {} => job.unseen = {}
    /\ \A p \in job.done : version[p] = job.current[p]

(* A scan that was cut off apart, the inventory is what the journal has,   *)
(* but for a received operation on its way and an edit just published.     *)
Journaled ==
    ~cut => \A p \in Paths : inventory[p] = version[p] \/ Waiting(p) \/ p \in job.done

IInv == TypeOK /\ IntentShape /\ ScanShape /\ Journaled

-----------------------------------------------------------------------------
(* The root goes away between passes only, and never together with a crash *)
(* or an error.                                                            *)
RootApart ==
    /\ "root" \notin Racing
    /\ \A s \in Scenarios : s["root"] = 0 \/ (s["crash"] = 0 /\ s["fail"] = 0)

NoEarlyEnd == faults["crash"] = 0 /\ faults["fail"] = 0

(* The faults so far, and what only a fault can bring about.               *)
FaultShape ==
    /\ faults["root"] = 0 \/ NoEarlyEnd
    /\ ~mounted => faults["root"] > 0
    /\ intent # NoIntent /\ NoEarlyEnd => job.step \in {"write", "written"}
    /\ cut => ~NoEarlyEnd

(* A pass that goes on without a root has an empty inventory.              *)
RootShape ==
    /\ ~mounted /\ job.step \notin {"idle", "load", "recovered"} => \A p \in Paths : inventory[p] = Absent
    /\ ~mounted /\ job.step = "collect" => job.unseen = {} /\ \A p \in Paths : job.current[p] = Absent
    /\ ~mounted /\ job.step = "written" => intent.next = Absent

Foreign(p) == author[p] # "user"

(* A file that the user did not write last is as the inventory or the      *)
(* intent says, and the scan has found it so.                              *)
ForeignKnown ==
    /\ \A p \in Paths : Foreign(p) => live[p] = inventory[p] \/ (intent.path = p /\ live[p] = intent.next)
    /\ \A p \in Paths : job.step \in {"recovered", "written"} /\ Foreign(p) /\ intent.path = p => live[p] = intent.next
    /\ \A p \in Paths : job.step = "collect" /\ Foreign(p) => p \in job.unseen \/ job.current[p] = inventory[p]

RInv == IInv /\ FaultShape /\ RootShape /\ ForeignKnown

-----------------------------------------------------------------------------
(* As long as no pass ended early, the inventory lags behind the journal   *)
(* only inside a pass.                                                     *)
InventoryLag ==
    /\ cut => ~NoEarlyEnd
    /\ intent # NoIntent /\ NoEarlyEnd => job.step \in {"write", "written"}
    /\ NoEarlyEnd => \A p \in Paths :
          \/ inventory[p] = version[p]
          \/ p \in job.done
          \/ job.step = "record" /\ p = job.path

(* An edit of the application that is not journaled is in the hands of the *)
(* second scan of its trackPaths.                                          *)
InSecondScan(p) ==
    /\ job.step \in {"load", "list", "collect"} /\ job.kind = "track" /\ job.path = "none"
    /\ mounted /\ author[p] = "user" /\ live[p] # inventory[p]
    /\ p \notin job.done
    /\ live[p] # Absent => p \in job.forced
    /\ p \in job.unseen => live[p] # Absent
    /\ job.step = "collect" => p \in job.unseen \/ job.current[p] = live[p]

Unjournaled == NoEarlyEnd => \A p \in Paths : edited[p] => InSecondScan(p)

EInv == IInv /\ InventoryLag /\ Unjournaled

-----------------------------------------------------------------------------
(* The pass                                                                *)

Kinds == {"scan", "track", "apply"}
Operations == [path : Paths, next : Files, newer : BOOLEAN]
Intents == {NoIntent} \cup [path : Paths, next : Files]

Jobs == [step : Steps, kind : Kinds, path : Paths \cup {"none"}, next : Files,
         forced : SUBSET Paths, due : BOOLEAN,
         listed : [Paths -> Files], current : [Paths -> Files],
         unseen : SUBSET Paths, done : SUBSET Paths]

(* A pass that has not scanned yet.                                        *)
Fresh(j, step, kind, path, next, forced) ==
    /\ j \in Jobs
    /\ j.step = step /\ j.kind = kind /\ j.path = path /\ j.next = next /\ j.forced = forced
    /\ j.done = {} /\ j.unseen = {} /\ \A p \in Paths : j.current[p] = Absent

(* A pass that only goes on to another step.                               *)
Moved(j, step) ==
    /\ j \in Jobs
    /\ j.step = step /\ j.kind = job.kind /\ j.path = job.path /\ j.next = job.next /\ j.forced = job.forced
    /\ j.done = job.done /\ j.unseen = job.unseen /\ j.current = job.current

(* The types, with the names above.                                        *)
LEMMA Typed ==
    TypeOK <=> /\ live \in [Paths -> Files] /\ inventory \in [Paths -> Files] /\ version \in [Paths -> Files]
               /\ intent \in Intents /\ age \in -1..Interval /\ inbox \subseteq Operations /\ job \in Jobs
               /\ mounted \in BOOLEAN /\ running \in BOOLEAN
               /\ author \in [Paths -> {"user", "sync", "lost"}] /\ edited \in [Paths -> BOOLEAN]
               /\ cut \in BOOLEAN
               /\ edits \in Nat /\ received \in Nat /\ faults \in [FaultKind -> Nat]
BY DEF TypeOK, Intents, Operations, Jobs, Kinds

(* No path is the one of NoIntent.                                         *)
LEMMA NoIntentPath == "none" \notin Paths /\ NoIntent.path = "none" /\ Absent \in Files /\ Interval \in Nat
BY WorkspaceAssumption DEF NoIntent, Files

(* The pass that is over, the one that begins and the one that goes on.    *)

(* IdleJob is a pass that has not scanned.                                 *)
LEMMA IdleFresh == Fresh(IdleJob, "idle", "scan", "none", Absent, {})
BY NoIntentPath DEF Fresh, IdleJob, Jobs, Kinds, Steps

(* A pass that begins has not scanned.                                     *)
LEMMA BeginFresh ==
    ASSUME NEW kind \in Kinds, NEW path \in Paths \cup {"none"}, NEW next \in Files, Begin(kind, path, next)
    PROVE  Fresh(job', "load", kind, path, next, {})
BY NoIntentPath DEF Begin, Fresh, IdleJob, Jobs, Kinds, Steps

(* The second scan of trackPaths starts from nothing, with its path forced.*)
LEMMA SecondScanFresh ==
    ASSUME job \in Jobs, job.path \in Paths
    PROVE  Fresh(SecondScan, "load", "track", "none", Absent, IF job.next = Absent THEN {} ELSE {job.path})
BY NoIntentPath DEF SecondScan, Fresh, IdleJob, Jobs, Kinds, Steps

(* A change of the step alone leaves the rest of the pass.                 *)
LEMMA StepMoved ==
    ASSUME job \in Jobs, NEW step \in Steps
    PROVE  Moved([job EXCEPT !.step = step], step)
BY DEF Moved, Jobs

-----------------------------------------------------------------------------
(* The invariant of the journal                                            *)

(* Init establishes the invariant of the journal.                          *)
LEMMA InitIInv == Init => IInv
<1> SUFFICES ASSUME Init PROVE IInv
  OBVIOUS
<1>1. Fresh(job, "idle", "scan", "none", Absent, {})
  BY IdleFresh DEF Init
<1>2. job \in Jobs
  BY <1>1 DEF Fresh
<1>3. TypeOK
  <2>1. age \in -1..Interval
    BY NoIntentPath DEF Init
  <2>2. live \in [Paths -> Files] /\ inventory \in [Paths -> Files] /\ version \in [Paths -> Files]
    BY NoIntentPath DEF Init
  <2>3. author \in [Paths -> {"user", "sync", "lost"}] /\ edited \in [Paths -> BOOLEAN] /\ faults \in [FaultKind -> Nat]
    BY DEF Init
  <2> QED BY <1>2, <2>1, <2>2, <2>3 DEF Init, TypeOK, Jobs, Kinds
<1> QED BY <1>1, <1>3 DEF Init, IInv, Fresh, IntentShape, ScanShape, Journaled

(* What happens beside the store and the pass.                             *)
LEMMA BesideKeeps ==
    ASSUME IInv, TypeOK', UNCHANGED <<inventory, intent, version, inbox, job, cut>>
    PROVE  IInv'
BY DEF IInv, IntentShape, ScanShape, Journaled, Waiting

(* A pass begins, or ends before it has saved anything.                    *)
LEMMA FreshKeeps ==
    ASSUME IInv, TypeOK', NEW step \in {"idle", "load"}, NEW kind, NEW path, NEW next, NEW forced,
           Fresh(job', step, kind, path, next, forced),
           UNCHANGED <<inventory, intent, version, inbox>>,
           ~cut' => ~cut /\ job.done = {}
    PROVE  IInv'
<1>1. IntentShape' /\ ScanShape'
  BY DEF IInv, Fresh, IntentShape, ScanShape, Waiting
<1>2. Journaled'
  BY DEF IInv, Journaled, Waiting
<1> QED BY <1>1, <1>2 DEF IInv

(* A write of a live file is typed.                                        *)
LEMMA WriteLiveTyped ==
    ASSUME TypeOK, NEW p \in Paths, NEW c \in Files, NEW who \in {"user", "sync", "lost"}, WriteLive(p, c, who)
    PROVE  live' \in [Paths -> Files] /\ author' \in [Paths -> {"user", "sync", "lost"}] /\ mounted' \in BOOLEAN
BY NoIntentPath DEF TypeOK, WriteLive

(* A fault is counted.                                                     *)
LEMMA FaultTyped ==
    ASSUME TypeOK, NEW kind \in FaultKind, Fault(kind)
    PROVE  faults' \in [FaultKind -> Nat]
BY DEF TypeOK, Fault

(* The start of a pass keeps the invariant.                                *)
LEMMA BeginKeeps ==
    ASSUME IInv, NEW kind \in Kinds, NEW path \in Paths \cup {"none"}, NEW next \in Files, Begin(kind, path, next),
           UNCHANGED <<live, store, version, inbox, mounted, running, history, received, faults>>, edits' \in Nat
    PROVE  IInv'
<1>1. Fresh(job', "load", kind, path, next, {})
  BY BeginFresh
<1>2. TypeOK'
  <2>1. job' \in Jobs
    BY <1>1 DEF Fresh
  <2> QED BY <2>1 DEF IInv, TypeOK, Jobs, Kinds, store, history
<1>3. job.done = {} /\ cut' = cut
  BY DEF IInv, ScanShape, Begin, Free, history
<1> QED BY <1>1, <1>2, <1>3, FreshKeeps DEF store

(* Each of the three kinds of pass begins so.                              *)
LEMMA BeginsKeep ==
    ASSUME IInv,
           \/ Scan
           \/ \E p \in Paths, c \in Files : Track(p, c)
           \/ \E o \in inbox : MaterializeOperation(o)
    PROVE  IInv'
<1>0. TypeOK
  BY DEF IInv
<1>1. CASE Scan
  BY <1>0, <1>1, BeginKeeps, NoIntentPath DEF Scan, TypeOK, counts, Kinds
<1>2. ASSUME NEW p \in Paths, NEW c \in Files, Track(p, c) PROVE IInv'
  BY <1>0, <1>2, BeginKeeps DEF Track, TypeOK, Kinds
<1>3. ASSUME NEW o \in inbox, MaterializeOperation(o) PROVE IInv'
  BY <1>0, <1>3, BeginKeeps DEF MaterializeOperation, TypeOK, counts, Kinds
<1> QED BY <1>1, <1>2, <1>3

(* The world outside the store keeps the invariant.                        *)
LEMMA OutsideKeeps ==
    ASSUME IInv,
           \/ \E p \in Paths, c \in Files : Edit(p, c)
           \/ Tick \/ ClockBack \/ Restart \/ LoseRoot \/ RootBack
    PROVE  IInv'
<1>0. TypeOK
  BY DEF IInv
<1>1. ASSUME NEW p \in Paths, NEW c \in Files, Edit(p, c) PROVE IInv'
  <2>1. TypeOK'
    BY <1>0, <1>1 DEF Edit, TypeOK, store
  <2> QED BY <1>1, <2>1, BesideKeeps DEF Edit, store
<1>2. CASE Tick
  <2>1. age' \in -1..Interval
    BY <1>0, <1>2, NoIntentPath DEF Tick, Older, TypeOK
  <2>2. TypeOK'
    BY <1>0, <1>2, <2>1 DEF Tick, TypeOK, history, counts
  <2> QED BY <1>2, <2>2, BesideKeeps DEF Tick, history
<1>3. CASE ClockBack
  <2>1. age' \in -1..Interval
    BY <1>0, <1>3, NoIntentPath DEF ClockBack, TypeOK
  <2>2. TypeOK'
    BY <1>0, <1>3, <2>1, FaultTyped DEF ClockBack, TypeOK, history, FaultKind
  <2> QED BY <1>3, <2>2, BesideKeeps DEF ClockBack, history
<1>4. CASE Restart
  <2>1. TypeOK'
    BY <1>0, <1>4 DEF Restart, TypeOK, store, history, counts
  <2> QED BY <1>4, <2>1, BesideKeeps DEF Restart, store, history
<1>5. CASE LoseRoot
  <2>1. TypeOK'
    BY <1>0, <1>5, FaultTyped DEF LoseRoot, TypeOK, store, history, FaultKind
  <2> QED BY <1>5, <2>1, BesideKeeps DEF LoseRoot, store, history
<1>6. CASE RootBack
  <2>1. TypeOK'
    BY <1>0, <1>6 DEF RootBack, TypeOK, store, history, counts
  <2> QED BY <1>6, <2>1, BesideKeeps DEF RootBack, store, history
<1> QED BY <1>1, <1>2, <1>3, <1>4, <1>5, <1>6

(* An operation that is received waits at least as long.                   *)
LEMMA ReceiveKeeps ==
    ASSUME IInv, NEW p \in Paths, NEW c \in Files, NEW newer \in BOOLEAN, Receive(p, c, newer)
    PROVE  IInv'
<1>1. TypeOK'
  BY DEF IInv, TypeOK, Receive, store, history
<1>2. \A q : Waiting(q) => Waiting(q)'
  BY DEF Waiting, Receive
<1> QED BY <1>1, <1>2 DEF IInv, Receive, store, history, IntentShape, ScanShape, Journaled

(* The intended content is written; the store does not change.             *)
LEMMA WriteIntendedKeeps == ASSUME IInv, WriteIntended PROVE IInv'
<1>1. /\ TypeOK /\ job \in Jobs /\ intent.path \in Paths /\ intent.next \in Files
      /\ job.step \in {"load", "write"}
  BY Typed DEF IInv, TypeOK, WriteIntended
<1>2. PICK there \in {"recovered", "written"} :
         /\ Moved(job', there)
         /\ there = IF job.step = "load" THEN "recovered" ELSE "written"
  <2>1. \A s \in Steps : Moved([job EXCEPT !.step = s], s)
    BY <1>1, StepMoved
  <2>2. CASE job.step = "load"
    BY <1>1, <2>1, <2>2 DEF WriteIntended, Steps
  <2>3. CASE job.step = "write"
    BY <1>1, <2>1, <2>3 DEF WriteIntended, Steps
  <2> QED BY <1>1, <2>2, <2>3
<1>3. TypeOK'
  <2>1. job' \in Jobs
    BY <1>2 DEF Moved
  <2>2. live' \in [Paths -> Files] /\ author' \in [Paths -> {"user", "sync", "lost"}] /\ mounted' \in BOOLEAN
    BY <1>1, WriteLiveTyped DEF WriteIntended
  <2> QED BY <1>1, <2>1, <2>2 DEF WriteIntended, TypeOK, Jobs, Kinds, store, counts
<1>4. IntentShape'
  BY <1>1, <1>2 DEF IInv, IntentShape, Waiting, WriteIntended, store, Moved
<1>5. ScanShape'
  BY <1>1, <1>2 DEF IInv, ScanShape, WriteIntended, store, Moved
<1>6. Journaled'
  BY <1>1, <1>2 DEF IInv, Journaled, Waiting, WriteIntended, store, Moved
<1> QED BY <1>3, <1>4, <1>5, <1>6 DEF IInv

(* The inventory takes the intended content, whose operation still waits.  *)
LEMMA SaveRecoveredKeeps == ASSUME IInv, SaveRecovered PROVE IInv'
<1>1. /\ TypeOK /\ job \in Jobs /\ intent.path \in Paths /\ intent.next \in Files /\ Waiting(intent.path)
      /\ job.step \in {"recovered", "written"}
      /\ inventory' = [inventory EXCEPT ![intent.path] = intent.next] /\ inventory \in [Paths -> Files]
  BY Typed DEF IInv, TypeOK, SaveRecovered, Settled, IntentShape
<1>2. PICK there \in {"load", "record"} :
         /\ Moved(job', there)
         /\ there = IF job.step = "recovered" THEN "load" ELSE "record"
  <2>1. \A s \in Steps : Moved([job EXCEPT !.step = s], s)
    BY <1>1, StepMoved
  <2>2. CASE job.step = "recovered"
    BY <1>1, <2>1, <2>2 DEF SaveRecovered, Steps
  <2>3. CASE job.step = "written"
    BY <1>1, <2>1, <2>3 DEF SaveRecovered, Steps
  <2> QED BY <1>1, <2>2, <2>3
<1>3. TypeOK'
  <2>1. job' \in Jobs
    BY <1>2 DEF Moved
  <2> QED BY <1>1, <2>1 DEF SaveRecovered, TypeOK, Jobs, Kinds, history, counts
<1>4. IntentShape'
  BY <1>1, <1>2 DEF IInv, IntentShape, SaveRecovered, Moved
<1>5. ScanShape'
  BY <1>1, <1>2 DEF IInv, ScanShape, SaveRecovered, Moved
<1>6. Journaled'
  BY <1>1, <1>2 DEF IInv, Journaled, Waiting, SaveRecovered, Moved, history
<1> QED BY <1>3, <1>4, <1>5, <1>6 DEF IInv

(* The root is looked for and the files are listed.                        *)
LEMMA CheckRootKeeps == ASSUME IInv, CheckRoot PROVE IInv'
<1>0. /\ TypeOK /\ job \in Jobs /\ FullHashDue \in BOOLEAN
      /\ UNCHANGED <<live, inventory, intent, age, version, inbox, mounted, running, author, edited, cut, edits, received, faults>>
  BY Typed DEF IInv, FullHashDue, CheckRoot, store, history, counts
<1>1. CASE job' = IdleJob
  <2>1. TypeOK'
    <3>1. job' \in Jobs
      BY <1>1, IdleFresh DEF Fresh
    <3> QED BY <1>0, <3>1 DEF TypeOK, Jobs, Kinds
  <2> QED BY <1>0, <1>1, <2>1, IdleFresh, FreshKeeps DEF IInv, ScanShape, CheckRoot
<1>2. CASE job' = [job EXCEPT !.step = "list", !.due = FullHashDue]
  <2>1. Moved(job', "list")
    BY <1>0, <1>2 DEF Moved, Jobs, Steps
  <2>2. TypeOK'
    BY <1>0, <2>1 DEF TypeOK, Jobs, Kinds, Moved
  <2> QED BY <1>0, <2>1, <2>2 DEF IInv, IntentShape, ScanShape, Journaled, Waiting, Moved, CheckRoot
<1> QED BY <1>1, <1>2 DEF CheckRoot

(* List keeps the invariant.                                               *)
LEMMA ListKeeps == ASSUME IInv, List PROVE IInv'
<1>0. /\ TypeOK /\ job \in Jobs /\ live \in [Paths -> Files]
      /\ UNCHANGED <<live, inventory, intent, age, version, inbox, mounted, running, author, edited, cut, edits, received, faults>>
  BY Typed DEF IInv, List, store, history, counts
<1> DEFINE listed == [p \in Paths |-> IF mounted THEN live[p] ELSE Absent]
<1>1. listed \in [Paths -> Files]
  BY <1>0, NoIntentPath
<1>2. job' = [job EXCEPT !.step = "collect", !.listed = listed, !.unseen = {p \in Paths : listed[p] # Absent}]
  BY DEF List
<1>3. /\ job' \in Jobs /\ job'.step = "collect" /\ job'.done = job.done /\ job'.current = job.current
      /\ job'.unseen = {p \in Paths : listed[p] # Absent}
  <2> HIDE DEF listed
  <2> QED BY <1>0, <1>1, <1>2 DEF Jobs, Steps
<1>4. TypeOK'
  BY <1>0, <1>3 DEF TypeOK, Jobs, Kinds
<1> QED BY <1>0, <1>3, <1>4 DEF IInv, IntentShape, ScanShape, Journaled, Waiting, List

(* A file is collected, or is gone and ends the pass.                      *)
LEMMA CollectKeeps == ASSUME IInv, NEW p \in Paths, Collect(p) PROVE IInv'
<1>0. /\ TypeOK /\ job \in Jobs /\ live \in [Paths -> Files] /\ inventory \in [Paths -> Files]
      /\ UNCHANGED <<live, inventory, intent, age, version, inbox, mounted, running, author, cut, edits, received, faults>>
      /\ edited' \in [Paths -> BOOLEAN]
      /\ job.step = "collect" /\ job.done = {}
  BY Typed DEF IInv, Collect, store, counts, ScanShape
<1>1. CASE Vanished(p)
  <2>1. job' = IdleJob
    BY <1>1 DEF Collect
  <2>2. TypeOK'
    <3>1. job' \in Jobs
      BY <2>1, IdleFresh DEF Fresh
    <3> QED BY <1>0, <3>1 DEF TypeOK, Jobs, Kinds
  <2> QED BY <1>0, <2>1, <2>2, IdleFresh, FreshKeeps
<1>2. CASE ~Vanished(p)
  <2> DEFINE now == IF Shortcut(p) THEN inventory[p] ELSE live[p]
  <2>1. now \in Files
    BY <1>0
  <2>2. job' = [job EXCEPT !.unseen = @ \ {p}, !.current[p] = now]
    BY <1>2 DEF Collect
  <2>3. job' \in Jobs /\ job'.step = "collect" /\ job'.done = {}
    <3> HIDE DEF now
    <3> QED BY <1>0, <2>1, <2>2 DEF Jobs
  <2>4. TypeOK'
    BY <1>0, <2>3 DEF TypeOK, Jobs, Kinds
  <2> QED BY <1>0, <2>3, <2>4 DEF IInv, IntentShape, ScanShape, Journaled, Waiting
<1> QED BY <1>1, <1>2

(* An edit is journaled: it supersedes what waits for its file.            *)
LEMMA PublishKeeps == ASSUME IInv, NEW p \in Paths, Publish(p) PROVE IInv'
<1>0. /\ TypeOK /\ job \in Jobs /\ version \in [Paths -> Files] /\ inbox \subseteq Operations
      /\ UNCHANGED <<live, inventory, intent, age, mounted, running, author, cut, edits, received, faults>>
      /\ job.step = "collect" /\ job.unseen = {}
      /\ version' = [version EXCEPT ![p] = job.current[p]] /\ job.current \in [Paths -> Files]
      /\ inbox' = {IF o.path = p THEN [o EXCEPT !.newer = FALSE] ELSE o : o \in inbox}
  BY Typed DEF IInv, Publish, store, counts, Jobs
<1>1. /\ job' \in Jobs /\ job'.step = "collect" /\ job'.done = job.done \cup {p}
      /\ job'.unseen = job.unseen /\ job'.current = job.current
  BY <1>0 DEF Publish, Jobs
<1>2. inbox' \subseteq Operations
  BY <1>0 DEF Operations
<1>3. \A q : q # p /\ Waiting(q) => Waiting(q)'
  <2> SUFFICES ASSUME NEW q, q # p, NEW o \in inbox, o.path = q, o.newer PROVE Waiting(q)'
    BY DEF Waiting
  <2>1. o \in inbox'
    BY <1>0
  <2> QED BY <2>1 DEF Waiting
<1>4. TypeOK'
  <2>1. edited' \in [Paths -> BOOLEAN]
    BY <1>0 DEF Publish, TypeOK
  <2> QED BY <1>0, <1>1, <1>2, <2>1 DEF TypeOK, Jobs, Kinds, Operations
<1>5. IntentShape'
  BY <1>0, <1>1 DEF IInv, IntentShape
<1>6. ScanShape'
  BY <1>0, <1>1 DEF IInv, ScanShape
<1>7. Journaled'
  BY <1>0, <1>1, <1>3 DEF IInv, Journaled
<1> QED BY <1>4, <1>5, <1>6, <1>7 DEF IInv

(* What a pass does after its scan.                                        *)
LEMMA AfterScanJob ==
    ASSUME job \in Jobs
    PROVE  /\ AfterScan \in Jobs /\ AfterScan.done = {}
           /\ \/ AfterScan = IdleJob
              \/ /\ AfterScan.step = "decide" \/ (AfterScan.step = "change" /\ AfterScan.path \in Paths)
                 /\ AfterScan.path = job.path /\ AfterScan.next = job.next
<1>1. CASE job.kind = "apply"
  BY <1>1 DEF AfterScan, Jobs, Steps
<1>2. CASE job.kind = "track" /\ job.path # "none"
  BY <1>2 DEF AfterScan, Jobs, Steps
<1>3. CASE job.kind # "apply" /\ ~(job.kind = "track" /\ job.path # "none")
  <2>1. AfterScan = IdleJob
    BY <1>3 DEF AfterScan
  <2> QED BY <2>1, IdleFresh DEF Fresh
<1> QED BY <1>1, <1>2, <1>3

(* The inventory takes what the scan has found and journaled.              *)
LEMMA SaveScanKeeps == ASSUME IInv, SaveScan PROVE IInv'
<1>0. /\ TypeOK /\ job \in Jobs /\ job.current \in [Paths -> Files] /\ inventory \in [Paths -> Files]
      /\ UNCHANGED <<live, intent, version, inbox, mounted, running, author, edited, cut, edits, received, faults>>
      /\ job.step = "collect" /\ intent = NoIntent
      /\ \A p \in Paths : job.current[p] # inventory[p] => p \in job.done
      /\ job' = AfterScan
  BY Typed DEF IInv, SaveScan, history, counts, Jobs, Changed, IntentShape
<1>1. /\ job' \in Jobs /\ job'.done = {}
      /\ job'.step \in {"idle", "decide", "change"} /\ (job'.step = "change" => job'.path \in Paths)
  BY <1>0, AfterScanJob, IdleFresh DEF Fresh
<1>2. TypeOK'
  <2>1. inventory' \in [Paths -> Files] /\ age' \in -1..Interval
    BY <1>0, NoIntentPath DEF SaveScan, TypeOK
  <2> QED BY <1>0, <1>1, <2>1 DEF TypeOK, Jobs, Kinds
<1>3. IntentShape' /\ ScanShape'
  BY <1>0, <1>1 DEF IntentShape, ScanShape
<1>4. Journaled'
  <2> SUFFICES ASSUME ~cut, NEW p \in Paths PROVE inventory'[p] = version[p] \/ Waiting(p)
    BY <1>0 DEF Journaled, Waiting
  <2>1. CASE p \in job.done
    BY <1>0, <2>1 DEF SaveScan, SaveNeeded, IInv, ScanShape
  <2>2. CASE p \notin job.done
    <3>1. inventory'[p] = inventory[p]
      BY <1>0, <2>2 DEF SaveScan
    <3> QED BY <2>2, <3>1 DEF IInv, Journaled
  <2> QED BY <2>1, <2>2
<1> QED BY <1>2, <1>3, <1>4 DEF IInv

(* The change of trackPaths, done or failed.                               *)
LEMMA ChangeKeeps == ASSUME IInv, Change \/ ChangeFails PROVE IInv'
<1>0. /\ TypeOK /\ job \in Jobs /\ job.step = "change" /\ job.path \in Paths /\ job.next \in Files /\ job.done = {}
      /\ UNCHANGED <<inventory, intent, age, version, inbox, running, cut, edits, received>>
      /\ job' = SecondScan
  BY Typed DEF IInv, Change, ChangeFails, store, history, counts, IntentShape, ScanShape, Jobs
<1>1. Fresh(job', "load", "track", "none", Absent, IF job.next = Absent THEN {} ELSE {job.path})
  BY <1>0, SecondScanFresh
<1>2. TypeOK'
  <2>1. job' \in Jobs
    BY <1>1 DEF Fresh
  <2>2. CASE Change
    <3>1. live' \in [Paths -> Files] /\ author' \in [Paths -> {"user", "sync", "lost"}] /\ mounted' \in BOOLEAN
      BY <1>0, <2>2, WriteLiveTyped DEF Change
    <3>2. edited' \in [Paths -> BOOLEAN]
      BY <1>0, <2>2 DEF Change, TypeOK
    <3> QED BY <1>0, <2>1, <2>2, <3>1, <3>2 DEF Change, TypeOK, Jobs, Kinds, counts
  <2>3. CASE ChangeFails
    BY <1>0, <2>1, <2>3, FaultTyped DEF ChangeFails, TypeOK, Jobs, Kinds, history, FaultKind
  <2> QED BY <2>2, <2>3
<1> QED BY <1>0, <1>1, <1>2, FreshKeeps

(* The intent of an operation that waits is saved.                         *)
LEMMA SaveIntentKeeps == ASSUME IInv, SaveIntent PROVE IInv'
<1>0. /\ TypeOK /\ job \in Jobs /\ inbox \subseteq Operations
      /\ UNCHANGED <<live, inventory, age, version, inbox, mounted, running, author, edited, cut, edits, received, faults>>
      /\ job.step = "decide" /\ Waiting(job.path) /\ intent' = [path |-> job.path, next |-> job.next]
  BY Typed DEF IInv, SaveIntent, history, counts, Waiting
<1>1. Moved(job', "write")
  BY <1>0, StepMoved DEF SaveIntent, Steps
<1>2. job.path \in Paths /\ job.next \in Files
  BY <1>0 DEF Waiting, Operations, Jobs
<1>3. intent' # NoIntent /\ intent'.path = job.path /\ intent'.next = job.next
  BY <1>0, <1>2, NoIntentPath
<1>4. TypeOK'
  <2>1. intent' \in Intents
    BY <1>0, <1>2 DEF Intents
  <2> QED BY <1>0, <1>1, <2>1 DEF TypeOK, Jobs, Kinds, Intents, Moved
<1>5. IntentShape'
  BY <1>0, <1>1, <1>3 DEF IntentShape, Moved, Waiting
<1>6. ScanShape' /\ Journaled'
  BY <1>0, <1>1 DEF IInv, ScanShape, Journaled, Moved, Waiting
<1> QED BY <1>4, <1>5, <1>6 DEF IInv

(* An operation leaves the ones that wait.                                 *)
LEMMA FinishedWaiting ==
    ASSUME inbox' = Finished
    PROVE  (inbox' \subseteq inbox) /\ \A q : q # job.path /\ Waiting(q) => Waiting(q)'
BY DEF Finished, Waiting

(* An operation is skipped, or recorded once the inventory has it.         *)
LEMMA SkipKeeps == ASSUME IInv, Skip PROVE IInv'
<1>0. /\ TypeOK /\ ~Waiting(job.path) /\ inbox' = Finished /\ job' = IdleJob
      /\ UNCHANGED <<live, inventory, intent, age, version, mounted, running, author, edited, cut, edits, received, faults>>
      /\ intent = NoIntent /\ job.done = {}
  BY DEF IInv, Skip, store, history, counts, Waiting, IntentShape, ScanShape
<1>1. Fresh(job', "idle", "scan", "none", Absent, {})
  BY <1>0, IdleFresh
<1>2. TypeOK'
  BY <1>0, <1>1, FinishedWaiting DEF TypeOK, Jobs, Kinds, Fresh
<1>3. Journaled'
  BY <1>0, <1>1, FinishedWaiting DEF IInv, Journaled, Fresh
<1>4. IntentShape' /\ ScanShape'
  BY <1>0, <1>1 DEF IntentShape, ScanShape, Fresh
<1> QED BY <1>2, <1>3, <1>4 DEF IInv

(* Record keeps the invariant.                                             *)
LEMMA RecordKeeps == ASSUME IInv, Record PROVE IInv'
<1>0. /\ TypeOK /\ inbox' = Finished /\ job' = IdleJob
      /\ job.path \in Paths /\ job.next \in Files /\ inventory[job.path] = job.next
      /\ version' = [version EXCEPT ![job.path] = job.next] /\ version \in [Paths -> Files]
      /\ UNCHANGED <<live, inventory, intent, age, mounted, running, author, edited, cut, edits, received, faults>>
      /\ intent = NoIntent /\ job.done = {}
  BY DEF IInv, Record, store, history, counts, IntentShape, ScanShape, TypeOK
<1>1. Fresh(job', "idle", "scan", "none", Absent, {})
  BY <1>0, IdleFresh
<1>2. TypeOK'
  BY <1>0, <1>1, FinishedWaiting DEF TypeOK, Jobs, Kinds, Fresh
<1>3. Journaled'
  BY <1>0, <1>1, FinishedWaiting DEF IInv, Journaled, Fresh
<1>4. IntentShape' /\ ScanShape'
  BY <1>0, <1>1 DEF IntentShape, ScanShape, Fresh
<1> QED BY <1>2, <1>3, <1>4 DEF IInv

(* A pass ends early; a scan that has journaled something is cut off.      *)
LEMMA EarlyEndKeeps == ASSUME IInv, Fail \/ Crash PROVE IInv'
<1>0. /\ TypeOK /\ job' = IdleJob /\ cut' = (cut \/ job.done # {}) /\ running' \in BOOLEAN
      /\ faults' \in [FaultKind -> Nat]
      /\ UNCHANGED <<live, inventory, intent, age, version, inbox, mounted, author, edited, edits, received>>
  BY FaultTyped DEF IInv, Fail, Crash, CutOff, store, TypeOK, FaultKind
<1>1. Fresh(job', "idle", "scan", "none", Absent, {})
  BY <1>0, IdleFresh
<1>2. TypeOK'
  BY <1>0, <1>1 DEF TypeOK, Jobs, Kinds, Fresh
<1> QED BY <1>0, <1>1, <1>2, FreshKeeps

(* Every step keeps the invariant of the journal.                          *)
LEMMA NextIInv == IInv /\ [Next]_vars => IInv'
<1> SUFFICES ASSUME IInv, [Next]_vars PROVE IInv'
  OBVIOUS
<1>1. CASE UNCHANGED vars
  BY <1>1, BesideKeeps DEF vars, store, history, counts, IInv, TypeOK
<1>2. CASE JobStep
  BY <1>2, WriteIntendedKeeps, SaveRecoveredKeeps, CheckRootKeeps, ListKeeps, CollectKeeps, PublishKeeps,
     SaveScanKeeps, ChangeKeeps, SaveIntentKeeps, SkipKeeps, RecordKeeps DEF JobStep
<1> QED BY <1>1, <1>2, BeginsKeep, OutsideKeeps, ReceiveKeeps, ChangeKeeps, EarlyEndKeeps DEF Next

(* The invariant of the journal holds in every reachable state.            *)
LEMMA SpecIInv == Spec => []IInv
BY InitIInv, NextIInv, PTL DEF Spec

-----------------------------------------------------------------------------
(* The invariant of the operations                                         *)

(* The operation of the path with the content.                             *)
Held(path, next) == \E o \in inbox : o.path = path /\ o.next = next

(* A file has one operation at a time, and the pass that applies one, and  *)
(* the intent it saves, are of an operation that is there.                 *)
Belongs ==
    /\ \A o1, o2 \in inbox : o1.path = o2.path => o1 = o2
    /\ job.step \in {"decide", "write", "written", "record"} => job.kind = "apply"
    /\ job.kind = "apply" => Held(job.path, job.next)
    /\ intent # NoIntent => Held(intent.path, intent.next)

OInv == IInv /\ Belongs

(* Nothing is said of a pass that is over or has no operation.             *)
LEMMA FreshBelongs ==
    ASSUME Belongs, NEW step \in {"idle", "load"}, NEW kind, NEW path, NEW next, NEW forced,
           Fresh(job', step, kind, path, next, forced), kind = "apply" => Held(path, next),
           UNCHANGED <<intent, inbox>>
    PROVE  Belongs'
BY DEF Belongs, Fresh, Held

(* A pass that goes on keeps its operation.                                *)
LEMMA MovedBelongs ==
    ASSUME Belongs, job'.kind = job.kind, job'.path = job.path, job'.next = job.next,
           job'.step \in {"decide", "write", "written", "record"} => job.kind = "apply",
           intent' # NoIntent => intent' = intent, UNCHANGED inbox
    PROVE  Belongs'
BY DEF Belongs, Held

(* Every step keeps the invariant of the operations.                       *)
LEMMA NextOInv == OInv /\ [Next]_vars => OInv'
<1> SUFFICES ASSUME OInv, [Next]_vars PROVE Belongs'
  BY NextIInv DEF OInv
<1>0. /\ TypeOK /\ job \in Jobs /\ inbox \subseteq Operations /\ Belongs /\ IntentShape
      /\ Fresh(IdleJob, "idle", "scan", "none", Absent, {})
  BY Typed, IdleFresh DEF OInv, IInv
<1>1. CASE UNCHANGED <<intent, inbox, job>>
  BY <1>0, <1>1 DEF Belongs, Held
<1>2. CASE Scan
  <2>1. Fresh(job', "load", "scan", "none", Absent, {})
    BY <1>2, BeginFresh, NoIntentPath DEF Scan, Kinds
  <2> QED BY <1>0, <1>2, <2>1, FreshBelongs DEF Scan, store
<1>3. ASSUME NEW p \in Paths, NEW c \in Files, Track(p, c) PROVE Belongs'
  <2>1. Fresh(job', "load", "track", p, c, {})
    BY <1>3, BeginFresh DEF Track, Kinds
  <2> QED BY <1>0, <1>3, <2>1, FreshBelongs DEF Track, store
<1>4. ASSUME NEW o \in inbox, MaterializeOperation(o) PROVE Belongs'
  <2>1. Fresh(job', "load", "apply", o.path, o.next, {})
    BY <1>0, <1>4, BeginFresh DEF MaterializeOperation, Kinds, Operations
  <2>2. Held(o.path, o.next)
    BY DEF Held
  <2> QED BY <1>0, <1>4, <2>1, <2>2, FreshBelongs DEF MaterializeOperation, store
<1>5. ASSUME NEW p \in Paths, NEW c \in Files, NEW newer \in BOOLEAN, Receive(p, c, newer) PROVE Belongs'
  <2> DEFINE new == [path |-> p, next |-> c, newer |-> newer]
  <2>1. /\ inbox' = inbox \cup {new} /\ new.path = p /\ (\A o \in inbox : o.path # p)
        /\ UNCHANGED <<intent, job>>
    BY <1>5 DEF Receive, store
  <2> HIDE DEF new
  <2>2. \A q, d : Held(q, d) => Held(q, d)'
    BY <2>1 DEF Held
  <2>3. \A o1, o2 \in inbox' : o1.path = o2.path => o1 = o2
    BY <1>0, <2>1 DEF Belongs
  <2> QED BY <1>0, <2>1, <2>2, <2>3 DEF Belongs
<1>6. ASSUME NEW p \in Paths, Publish(p) PROVE Belongs'
  <2> DEFINE f(o) == IF o.path = p THEN [o EXCEPT !.newer = FALSE] ELSE o
  <2>1. inbox' = {f(o) : o \in inbox} /\ UNCHANGED intent
    BY <1>6 DEF Publish, store
  <2>2. \A o \in inbox : f(o).path = o.path /\ f(o).next = o.next
    BY <1>0 DEF Operations
  <2>3. /\ job'.kind = job.kind /\ job'.path = job.path /\ job'.next = job.next /\ job'.step = job.step
    BY <1>0, <1>6 DEF Publish, Jobs
  <2> HIDE DEF f
  <2>4. \A q, d : Held(q, d) => Held(q, d)'
    BY <2>1, <2>2 DEF Held
  <2>5. \A o1, o2 \in inbox' : o1.path = o2.path => o1 = o2
    BY <1>0, <2>1, <2>2 DEF Belongs
  <2> QED BY <1>0, <2>1, <2>3, <2>4, <2>5 DEF Belongs
<1>7. CASE WriteIntended \/ SaveRecovered
  <2>1. /\ job'.kind = job.kind /\ job'.path = job.path /\ job'.next = job.next
        /\ job'.step \in {"written", "record"} => job.step \in {"write", "written"}
        /\ job'.step \in {"written", "record", "recovered", "load"}
        /\ UNCHANGED inbox /\ (intent' # NoIntent => intent' = intent)
    BY <1>0, <1>7 DEF WriteIntended, SaveRecovered, Jobs, store
  <2> QED BY <1>0, <2>1, MovedBelongs DEF Belongs
<1>8. CASE CheckRoot \/ List \/ \E p \in Paths : Collect(p)
  <2>1. UNCHANGED <<intent, inbox>>
    BY <1>8 DEF CheckRoot, List, Collect, store
  <2>2. CASE job' = IdleJob
    BY <1>0, <2>1, <2>2, FreshBelongs
  <2>3. CASE job' # IdleJob
    <3>1. /\ job'.kind = job.kind /\ job'.path = job.path /\ job'.next = job.next
          /\ job'.step \in {"list", "collect"}
      BY <1>0, <1>8, <2>3 DEF CheckRoot, List, Collect, Jobs
    <3> QED BY <1>0, <2>1, <3>1, MovedBelongs
  <2> QED BY <2>2, <2>3
<1>9. CASE SaveScan
  <2>1. UNCHANGED <<intent, inbox>> /\ job' = AfterScan
    BY <1>9 DEF SaveScan
  <2>2. CASE AfterScan = IdleJob
    BY <1>0, <2>1, <2>2, FreshBelongs
  <2>3. CASE AfterScan # IdleJob
    <3>1. /\ job'.kind = job.kind /\ job'.path = job.path /\ job'.next = job.next
          /\ job'.step = IF job.kind = "apply" THEN "decide" ELSE "change"
      BY <1>0, <2>1, <2>3 DEF AfterScan, Jobs
    <3> QED BY <1>0, <2>1, <3>1, MovedBelongs
  <2> QED BY <2>2, <2>3
<1>10. CASE Change \/ ChangeFails
  <2>1. Fresh(job', "load", "track", "none", Absent, IF job.next = Absent THEN {} ELSE {job.path})
    BY <1>0, <1>10, SecondScanFresh DEF Change, ChangeFails, IntentShape
  <2> QED BY <1>0, <1>10, <2>1, FreshBelongs DEF Change, ChangeFails, store
<1>11. CASE SaveIntent
  <2>1. /\ job'.kind = job.kind /\ job'.path = job.path /\ job'.next = job.next /\ job'.step = "write"
        /\ job.step = "decide" /\ UNCHANGED inbox
        /\ intent' = [path |-> job.path, next |-> job.next]
    BY <1>0, <1>11 DEF SaveIntent, Jobs
  <2>2. intent'.path = job.path /\ intent'.next = job.next
    BY <2>1
  <2> QED BY <1>0, <2>1, <2>2 DEF Belongs, Held
<1>12. CASE Skip \/ Record
  <2>1. job' = IdleJob /\ inbox' = Finished /\ UNCHANGED intent /\ intent = NoIntent
    BY <1>0, <1>12 DEF Skip, Record, store, IntentShape
  <2> QED BY <1>0, <2>1 DEF Belongs, Finished, Fresh
<1>13. CASE Fail \/ Crash
  BY <1>0, <1>13, FreshBelongs DEF Fail, Crash, store
<1>14. CASE \/ \E p \in Paths, c \in Files : Edit(p, c)
            \/ Tick \/ ClockBack \/ Restart \/ LoseRoot \/ RootBack \/ UNCHANGED vars
  BY <1>1, <1>14 DEF Edit, Tick, ClockBack, Restart, LoseRoot, RootBack, store, vars
<1> QED
  BY <1>2, <1>3, <1>4, <1>5, <1>6, <1>7, <1>8, <1>9, <1>10, <1>11, <1>12, <1>13, <1>14 DEF Next, JobStep

(* The invariant of the operations holds in every reachable state.         *)
LEMMA SpecOInv == Spec => []OInv
<1>1. Init => OInv
  BY InitIInv, IdleFresh DEF OInv, Init, Belongs, Fresh
<1> QED BY <1>1, NextOInv, PTL DEF Spec

-----------------------------------------------------------------------------
(* The invariant of the root                                               *)

(* Init establishes the invariant of the root.                             *)
LEMMA InitRInv == Init => RInv
<1> SUFFICES ASSUME Init PROVE RInv
  OBVIOUS
<1>1. Fresh(job, "idle", "scan", "none", Absent, {})
  BY IdleFresh DEF Init
<1>2. FaultShape
  BY <1>1 DEF Init, FaultShape, NoEarlyEnd, FaultKind
<1> QED BY <1>1, <1>2, InitIInv DEF Init, RInv, Fresh, RootShape, ForeignKnown, Foreign

(* A scenario with a lost root has neither a crash nor an error.           *)
LEMMA FaultApart ==
    ASSUME RootApart, NEW kind \in FaultKind, faults \in [FaultKind -> Nat], Fault(kind)
    PROVE  /\ faults'["root"] = 0 \/ NoEarlyEnd'
           /\ \A k \in FaultKind : faults'[k] = IF k = kind THEN faults[k] + 1 ELSE faults[k]
           /\ faults' \in [FaultKind -> Nat]
<1>1. PICK s \in Scenarios : \A k \in FaultKind : faults'[k] <= s[k]
  BY DEF Fault
<1>2. s \in [FaultKind -> Nat] /\ (s["root"] = 0 \/ (s["crash"] = 0 /\ s["fail"] = 0))
  BY WorkspaceAssumption DEF RootApart
<1>3. faults' \in [FaultKind -> Nat]
  BY DEF Fault
<1>4. faults'["root"] = 0 \/ NoEarlyEnd'
  BY <1>1, <1>2, <1>3 DEF FaultKind, NoEarlyEnd
<1> QED BY <1>3, <1>4 DEF Fault

(* A pass begins or ends without a write.                                  *)
LEMMA FreshKeepsRoot ==
    ASSUME RInv, IInv', FaultShape', NEW step \in {"idle", "load"}, NEW kind, NEW path, NEW next, NEW forced,
           Fresh(job', step, kind, path, next, forced), UNCHANGED <<inventory, intent, live, author>>
    PROVE  RInv'
<1>1. RootShape'
  BY DEF RootShape, Fresh
<1>2. ForeignKnown'
  BY DEF RInv, ForeignKnown, Foreign, Fresh
<1> QED BY <1>1, <1>2 DEF RInv

(* The starts and the ends of a pass keep the invariant of the root.       *)
LEMMA EndsKeepRoot ==
    ASSUME RootApart, RInv, IInv',
           \/ Scan
           \/ \E p \in Paths, c \in Files : Track(p, c)
           \/ \E o \in inbox : MaterializeOperation(o)
           \/ Skip \/ Record \/ Fail \/ Crash \/ ChangeFails
    PROVE  RInv'
<1>0. faults \in [FaultKind -> Nat] /\ job \in Jobs /\ inbox \subseteq Operations /\ Absent \in Files
  BY Typed, NoIntentPath DEF RInv, IInv
<1>1. UNCHANGED <<inventory, intent, live, author, mounted>>
  BY DEF Scan, Track, MaterializeOperation, Skip, Record, Fail, Crash, ChangeFails, store, history
<1>2. PICK step \in {"idle", "load"} : \E kind, path, next, forced : Fresh(job', step, kind, path, next, forced)
  <2>1. CASE Scan
    BY <1>0, <2>1, BeginFresh DEF Scan, Kinds
  <2>2. ASSUME NEW p \in Paths, NEW c \in Files, Track(p, c)
        PROVE  \E s \in {"idle", "load"} : \E kind, path, next, forced : Fresh(job', s, kind, path, next, forced)
    BY <2>2, BeginFresh DEF Track, Kinds
  <2>3. ASSUME NEW o \in inbox, MaterializeOperation(o)
        PROVE  \E s \in {"idle", "load"} : \E kind, path, next, forced : Fresh(job', s, kind, path, next, forced)
    BY <1>0, <2>3, BeginFresh DEF MaterializeOperation, Kinds, Operations
  <2>4. CASE Skip \/ Record \/ Fail \/ Crash
    BY <2>4, IdleFresh DEF Skip, Record, Fail, Crash
  <2>5. CASE ChangeFails
    BY <1>0, <2>5, SecondScanFresh DEF ChangeFails, RInv, IInv, IntentShape
  <2> QED BY <2>1, <2>2, <2>3, <2>4, <2>5
<1>3. FaultShape'
  <2>1. CASE Fail \/ Crash
    <3>1. ~NoEarlyEnd' /\ (faults'["root"] = 0 \/ NoEarlyEnd') /\ faults'["root"] = faults["root"]
      BY <1>0, <2>1, FaultApart DEF Fail, Crash, NoEarlyEnd, FaultKind
    <3> QED BY <1>1, <3>1 DEF RInv, FaultShape
  <2>2. CASE ChangeFails
    <3>1. ~NoEarlyEnd' /\ (faults'["root"] = 0 \/ NoEarlyEnd') /\ faults'["root"] = faults["root"]
      BY <1>0, <2>2, FaultApart DEF ChangeFails, NoEarlyEnd, FaultKind
    <3> QED BY <1>1, <3>1 DEF RInv, FaultShape
  <2>3. CASE UNCHANGED <<faults, cut>> /\ (intent = NoIntent \/ job.step = "idle")
    BY <1>1, <2>3 DEF RInv, FaultShape, NoEarlyEnd
  <2>4. CASE Skip \/ Record
    BY <2>3, <2>4 DEF Skip, Record, history, counts, RInv, IInv, IntentShape
  <2>5. CASE \/ Scan
             \/ \E p \in Paths, c \in Files : Track(p, c)
             \/ \E o \in inbox : MaterializeOperation(o)
    BY <2>3, <2>5 DEF Scan, Track, MaterializeOperation, Begin, Free, history, counts
  <2> QED BY <2>1, <2>2, <2>4, <2>5
<1> QED BY <1>1, <1>2, <1>3, FreshKeepsRoot

(* The world outside the store keeps the invariant of the root.            *)
LEMMA OutsideKeepsRoot ==
    ASSUME RootApart, RInv, IInv',
           \/ \E p \in Paths, c \in Files : Edit(p, c)
           \/ \E p \in Paths, c \in Files, newer \in BOOLEAN : Receive(p, c, newer)
           \/ Tick \/ ClockBack \/ Restart \/ LoseRoot \/ RootBack
    PROVE  RInv'
<1>0. faults \in [FaultKind -> Nat] /\ live \in [Paths -> Files] /\ author \in [Paths -> {"user", "sync", "lost"}]
  BY Typed DEF RInv, IInv
<1>1. UNCHANGED <<inventory, intent, job, cut>>
  BY DEF Edit, Receive, Tick, ClockBack, Restart, LoseRoot, RootBack, store, history
<1>2. ForeignKnown'
  <2>1. ASSUME NEW p \in Paths, NEW c \in Files, Edit(p, c) PROVE ForeignKnown'
    <3>1. \A q \in Paths : Foreign(q)' => Foreign(q) /\ live'[q] = live[q]
      BY <1>0, <2>1 DEF Edit, Foreign
    <3> QED BY <1>1, <3>1 DEF RInv, ForeignKnown
  <2>2. CASE UNCHANGED <<live, author>>
    BY <1>1, <2>2 DEF RInv, ForeignKnown, Foreign
  <2> QED BY <2>1, <2>2 DEF Receive, Tick, ClockBack, Restart, LoseRoot, RootBack, history
<1>3. RootShape'
  <2>1. CASE LoseRoot
    <3>1. job.step = "idle"
      BY <2>1 DEF LoseRoot, Outside, RootApart
    <3> QED BY <1>1, <3>1 DEF RootShape
  <2>2. CASE RootBack
    BY <2>2 DEF RootBack, RootShape
  <2>3. CASE UNCHANGED mounted
    BY <1>1, <2>3 DEF RInv, RootShape
  <2> QED BY <2>1, <2>2, <2>3 DEF Edit, Receive, Tick, ClockBack, Restart
<1>4. FaultShape'
  <2>1. CASE LoseRoot
    <3>1. (faults'["root"] = 0 \/ NoEarlyEnd') /\ faults'["root"] > 0 /\ (NoEarlyEnd' <=> NoEarlyEnd)
      BY <1>0, <2>1, FaultApart DEF LoseRoot, FaultKind, NoEarlyEnd
    <3> QED BY <1>1, <3>1 DEF RInv, FaultShape
  <2>2. CASE ClockBack
    <3>1. /\ faults'["root"] = 0 \/ NoEarlyEnd'
          /\ faults'["root"] = faults["root"] /\ (NoEarlyEnd' <=> NoEarlyEnd) /\ mounted' = mounted
      BY <1>0, <2>2, FaultApart DEF ClockBack, FaultKind, NoEarlyEnd
    <3> QED BY <1>1, <3>1 DEF RInv, FaultShape
  <2>3. CASE UNCHANGED <<faults, mounted>>
    BY <1>1, <2>3 DEF RInv, FaultShape, NoEarlyEnd
  <2>4. CASE RootBack
    BY <1>1, <2>4 DEF RInv, FaultShape, NoEarlyEnd, RootBack, counts
  <2> QED BY <2>1, <2>2, <2>3, <2>4 DEF Edit, Receive, Tick, Restart, counts
<1> QED BY <1>2, <1>3, <1>4 DEF RInv

(* What a write does to the file, to the others and to the root.           *)
LEMMA WriteLiveDoes ==
    ASSUME TypeOK, NEW p \in Paths, NEW c \in Files, NEW who, WriteLive(p, c, who)
    PROVE  /\ \/ live'[p] = c /\ author'[p] = who /\ mounted'
              \/ ~mounted /\ ~mounted' /\ c = Absent /\ live'[p] = live[p] /\ author'[p] = author[p]
           /\ \A q \in Paths : q # p =>
                 \/ live'[q] = live[q] /\ author'[q] = author[q]
                 \/ ~mounted /\ c # Absent /\ live'[q] = Absent /\ author'[q] = "lost"
           /\ mounted => mounted'
<1> DEFINE made == ~mounted /\ c # Absent
           gone == {q \in Paths \ {p} : made /\ live[q] # Absent}
           touched == {q \in {p} : mounted \/ made}
<1>1. /\ live' = [q \in Paths |-> IF q \in touched THEN c ELSE IF q \in gone THEN Absent ELSE live[q]]
      /\ author' = [q \in Paths |-> IF q \in touched THEN who ELSE IF q \in gone THEN "lost" ELSE author[q]]
      /\ mounted' = (mounted \/ made)
  BY DEF WriteLive
<1> QED BY <1>1

(* The intended content is written over what the user did not write.       *)
LEMMA WriteIntendedKeepsRoot == ASSUME RootApart, RInv, IInv', WriteIntended PROVE RInv'
<1>0. /\ TypeOK /\ intent.path \in Paths /\ intent.next \in Files /\ WriteLive(intent.path, intent.next, "sync")
      /\ UNCHANGED <<inventory, intent, faults, cut>>
      /\ job.step \in {"load", "write"} /\ intent # NoIntent
  BY DEF RInv, IInv, TypeOK, WriteIntended, store, counts
<1>1. /\ job.step = "load" => job'.step = "recovered"
      /\ job.step = "write" => job'.step = "written"
  BY <1>0, Typed DEF WriteIntended, Jobs
<1>2. ~mounted => job.step = "write" /\ \A q \in Paths : inventory[q] = Absent
  BY <1>0 DEF RInv, FaultShape, RootShape, RInv, NoEarlyEnd, TypeOK, FaultKind
<1>3. FaultShape'
  BY <1>0, <1>1, WriteLiveDoes DEF RInv, FaultShape, NoEarlyEnd
<1>4. RootShape'
  BY <1>0, <1>1, <1>2, WriteLiveDoes DEF RootShape
<1>5. ForeignKnown'
  <2>1. \A q \in Paths : q # intent.path /\ Foreign(q)' => live'[q] = inventory[q]
    BY <1>0, <1>2, WriteLiveDoes DEF RInv, ForeignKnown, Foreign
  <2>2. Foreign(intent.path)' => live'[intent.path] = intent.next
    <3>1. CASE mounted'
      BY <1>0, <3>1, WriteLiveDoes
    <3>2. CASE ~mounted'
      BY <1>0, <1>2, <3>2, WriteLiveDoes DEF RInv, ForeignKnown, Foreign
    <3> QED BY <3>1, <3>2
  <2> QED BY <1>0, <1>1, <2>1, <2>2 DEF ForeignKnown, Foreign
<1> QED BY <1>3, <1>4, <1>5 DEF RInv

(* The inventory takes the content that was written.                       *)
LEMMA SaveRecoveredKeepsRoot == ASSUME RootApart, RInv, IInv', SaveRecovered PROVE RInv'
<1>0. /\ TypeOK /\ intent.path \in Paths /\ intent.next \in Files
      /\ UNCHANGED <<live, author, mounted, faults, cut>>
      /\ job.step \in {"recovered", "written"} /\ intent' = NoIntent /\ NoIntent.path \notin Paths
      /\ inventory' = [inventory EXCEPT ![intent.path] = intent.next] /\ inventory \in [Paths -> Files]
  BY NoIntentPath DEF RInv, IInv, TypeOK, SaveRecovered, Settled, IntentShape, history, counts
<1>1. /\ job.step = "recovered" => job'.step = "load"
      /\ job.step = "written" => job'.step = "record"
  BY <1>0, Typed DEF SaveRecovered, Jobs
<1>2. FaultShape'
  BY <1>0 DEF RInv, FaultShape, NoEarlyEnd
<1>3. RootShape'
  BY <1>0, <1>1 DEF RInv, RootShape
<1>4. ForeignKnown'
  BY <1>0, <1>1 DEF RInv, ForeignKnown, Foreign
<1> QED BY <1>2, <1>3, <1>4 DEF RInv

(* The root is looked for, and the files are listed.                       *)
LEMMA CheckRootKeepsRoot == ASSUME RootApart, RInv, IInv', CheckRoot PROVE RInv'
<1>0. /\ job \in Jobs /\ intent = NoIntent
      /\ UNCHANGED <<live, inventory, intent, author, mounted, faults, cut>>
  BY Typed DEF RInv, IInv, CheckRoot, store, history, counts
<1>1. FaultShape'
  BY <1>0 DEF RInv, FaultShape, NoEarlyEnd
<1>2. CASE RootPresent
  <2>1. job'.step = "list"
    BY <1>0, <1>2 DEF CheckRoot, Jobs
  <2>2. RootShape'
    BY <1>0, <1>2, <2>1 DEF RootShape, RootPresent
  <2>3. ForeignKnown'
    BY <1>0, <2>1 DEF RInv, ForeignKnown, Foreign
  <2> QED BY <1>1, <2>2, <2>3 DEF RInv
<1>3. CASE ~RootPresent
  BY <1>0, <1>1, <1>3, IdleFresh, FreshKeepsRoot DEF CheckRoot
<1> QED BY <1>2, <1>3

(* List keeps the invariant of the root.                                   *)
LEMMA ListKeepsRoot == ASSUME RootApart, RInv, IInv', List PROVE RInv'
<1>0. /\ job \in Jobs /\ job.step = "list" /\ intent = NoIntent /\ live \in [Paths -> Files]
      /\ UNCHANGED <<live, inventory, intent, author, mounted, faults, cut>>
      /\ \A p \in Paths : job.current[p] = Absent
      /\ NoIntent.path \notin Paths
  BY Typed, NoIntentPath DEF RInv, IInv, List, store, history, counts, IntentShape, ScanShape
<1> DEFINE listed == [p \in Paths |-> IF mounted THEN live[p] ELSE Absent]
<1>1. job' = [job EXCEPT !.step = "collect", !.listed = listed, !.unseen = {p \in Paths : listed[p] # Absent}]
  BY DEF List
<1>2. /\ job'.step = "collect" /\ job'.current = job.current
      /\ job'.unseen = {p \in Paths : listed[p] # Absent}
  <2> HIDE DEF listed
  <2> QED BY <1>0, <1>1 DEF Jobs
<1>3. FaultShape'
  BY <1>0 DEF RInv, FaultShape, NoEarlyEnd
<1>4. RootShape'
  BY <1>0, <1>2 DEF RInv, RootShape
<1>5. ForeignKnown'
  BY <1>0, <1>2 DEF RInv, ForeignKnown, RootShape, Foreign
<1> QED BY <1>3, <1>4, <1>5 DEF RInv

(* A file that the user did not write is collected as the inventory has it. *)
LEMMA CollectKeepsRoot == ASSUME RootApart, RInv, IInv', NEW p \in Paths, Collect(p) PROVE RInv'
<1>0. /\ job \in Jobs /\ job.step = "collect" /\ p \in job.unseen /\ intent = NoIntent
      /\ UNCHANGED <<live, inventory, intent, author, mounted, faults, cut>>
      /\ NoIntent.path \notin Paths
  BY Typed, NoIntentPath DEF RInv, IInv, Collect, store, counts, IntentShape
<1>1. FaultShape'
  BY <1>0 DEF RInv, FaultShape, NoEarlyEnd
<1>2. CASE Vanished(p)
  BY <1>0, <1>1, <1>2, IdleFresh, FreshKeepsRoot DEF Collect
<1>3. CASE ~Vanished(p)
  <2> DEFINE now == IF Shortcut(p) THEN inventory[p] ELSE live[p]
  <2>1. job' = [job EXCEPT !.unseen = @ \ {p}, !.current[p] = now]
    BY <1>3 DEF Collect
  <2>2. /\ job'.step = "collect" /\ job'.unseen = job.unseen \ {p} /\ job'.current[p] = now
        /\ \A q \in Paths : q # p => job'.current[q] = job.current[q]
    <3> HIDE DEF now
    <3> QED BY <1>0, <2>1 DEF Jobs
  <2>3. mounted
    BY <1>0 DEF RInv, RootShape
  <2>4. RootShape'
    BY <1>0, <2>2, <2>3 DEF RootShape
  <2>5. Foreign(p) => now = inventory[p]
    BY <1>0 DEF RInv, ForeignKnown
  <2>6. ForeignKnown'
    <3> HIDE DEF now
    <3> QED BY <1>0, <2>2, <2>5 DEF RInv, ForeignKnown, Foreign
  <2> QED BY <1>1, <2>4, <2>6 DEF RInv
<1> QED BY <1>2, <1>3

(* Only files of the user are journaled, and only while the root is there. *)
LEMMA PublishIsGenuine == ASSUME RInv, NEW p \in Paths, Publish(p) PROVE mounted /\ author[p] = "user"
BY DEF RInv, RootShape, ForeignKnown, Foreign, Publish, Changed

(* Publish keeps the invariant of the root.                                *)
LEMMA PublishKeepsRoot == ASSUME RootApart, RInv, IInv', NEW p \in Paths, Publish(p) PROVE RInv'
<1>0. /\ job \in Jobs /\ job.step = "collect" /\ UNCHANGED <<live, inventory, intent, author, mounted, faults, cut>>
  BY Typed DEF RInv, IInv, Publish, store, counts
<1>1. job'.step = job.step /\ job'.unseen = job.unseen /\ job'.current = job.current
  BY <1>0 DEF Publish, Jobs
<1>2. FaultShape' /\ RootShape' /\ ForeignKnown'
  BY <1>0, <1>1 DEF RInv, FaultShape, NoEarlyEnd, RootShape, ForeignKnown, Foreign
<1> QED BY <1>2 DEF RInv

(* The inventory takes what the scan has found.                            *)
LEMMA SaveScanKeepsRoot == ASSUME RootApart, RInv, IInv', SaveScan PROVE RInv'
<1>0. /\ job \in Jobs /\ job.step = "collect" /\ job.unseen = {} /\ intent = NoIntent /\ NoIntent.path \notin Paths
      /\ UNCHANGED <<live, intent, author, mounted, faults, cut>>
      /\ inventory' = job.current \/ inventory' = inventory
      /\ job' = AfterScan
  BY Typed, NoIntentPath DEF RInv, IInv, SaveScan, history, counts, IntentShape
<1>1. job'.step \in {"idle", "decide", "change"}
  BY <1>0, AfterScanJob, IdleFresh DEF Fresh
<1>2. FaultShape'
  BY <1>0 DEF RInv, FaultShape, NoEarlyEnd
<1>3. RootShape'
  BY <1>0, <1>1 DEF RInv, RootShape
<1>4. ForeignKnown'
  BY <1>0, <1>1 DEF RInv, ForeignKnown, Foreign
<1> QED BY <1>2, <1>3, <1>4 DEF RInv

(* The change of trackPaths makes its file one of the user.                *)
LEMMA ChangeKeepsRoot == ASSUME RootApart, RInv, IInv', Change PROVE RInv'
<1>0. /\ TypeOK /\ job \in Jobs /\ job.step = "change" /\ job.path \in Paths /\ job.next \in Files /\ intent = NoIntent
      /\ WriteLive(job.path, job.next, "user") /\ job' = SecondScan /\ NoIntent.path \notin Paths
      /\ UNCHANGED <<inventory, intent, faults, cut>>
  BY Typed, NoIntentPath DEF RInv, IInv, Change, store, counts, IntentShape, Jobs
<1>1. job'.step = "load"
  BY <1>0, SecondScanFresh DEF Fresh
<1>2. FaultShape'
  BY <1>0, WriteLiveDoes DEF RInv, FaultShape, NoEarlyEnd
<1>3. RootShape'
  BY <1>1 DEF RootShape
<1>4. \A q \in Paths : Foreign(q)' => live'[q] = inventory[q]
  <2>1. ~mounted => \A q \in Paths : inventory[q] = Absent
    BY <1>0 DEF RInv, RootShape
  <2>2. \A q \in Paths : Foreign(q) => live[q] = inventory[q]
    BY <1>0 DEF RInv, ForeignKnown
  <2> QED BY <1>0, <2>1, <2>2, WriteLiveDoes DEF Foreign
<1>5. ForeignKnown'
  BY <1>0, <1>1, <1>4 DEF ForeignKnown, Foreign
<1> QED BY <1>2, <1>3, <1>5 DEF RInv

(* SaveIntent keeps the invariant of the root.                             *)
LEMMA SaveIntentKeepsRoot == ASSUME RootApart, RInv, IInv', SaveIntent PROVE RInv'
<1>0. /\ job \in Jobs /\ job.step = "decide" /\ intent = NoIntent /\ NoIntent.path \notin Paths
      /\ UNCHANGED <<live, inventory, author, mounted, faults, cut>>
  BY Typed, NoIntentPath DEF RInv, IInv, SaveIntent, history, counts, IntentShape
<1>1. job'.step = "write"
  BY <1>0 DEF SaveIntent, Jobs
<1>2. FaultShape' /\ RootShape' /\ ForeignKnown'
  BY <1>0, <1>1 DEF RInv, FaultShape, NoEarlyEnd, RootShape, ForeignKnown, Foreign
<1> QED BY <1>2 DEF RInv

(* Every step keeps the invariant of the root.                             *)
LEMMA NextRInv == RootApart /\ RInv /\ [Next]_vars => RInv'
<1> SUFFICES ASSUME RootApart, RInv, [Next]_vars PROVE RInv'
  OBVIOUS
<1>0. IInv /\ IInv'
  BY NextIInv DEF RInv
<1>1. CASE UNCHANGED vars
  BY <1>0, <1>1 DEF vars, store, history, counts, RInv, FaultShape, NoEarlyEnd, RootShape, ForeignKnown, Foreign
<1>2. CASE JobStep
  BY <1>0, <1>2, WriteIntendedKeepsRoot, SaveRecoveredKeepsRoot, CheckRootKeepsRoot, ListKeepsRoot, CollectKeepsRoot,
     PublishKeepsRoot, SaveScanKeepsRoot, ChangeKeepsRoot, SaveIntentKeepsRoot, EndsKeepRoot DEF JobStep
<1> QED BY <1>0, <1>1, <1>2, EndsKeepRoot, OutsideKeepsRoot DEF Next

(* The invariant of the root holds in every reachable state.               *)
LEMMA SpecRInv == RootApart => (Spec => []RInv)
<1> SUFFICES ASSUME RootApart PROVE Spec => []RInv
  OBVIOUS
<1>1. RInv /\ [Next]_vars => RInv'
  BY NextRInv
<1> QED BY <1>1, InitRInv, PTL DEF Spec

-----------------------------------------------------------------------------
(* The invariant of the edits                                              *)

RootStays == "root" \notin Racing

(* Nothing is claimed any more once a pass ended early.                    *)
LEMMA EarlyEnded == ASSUME IInv', ~NoEarlyEnd' PROVE EInv'
BY DEF EInv, InventoryLag, Unjournaled

(* A fault that is no crash and no error leaves the claim as it is.        *)
LEMMA FaultGrows ==
    ASSUME TypeOK, NEW kind \in FaultKind, Fault(kind), NoEarlyEnd'
    PROVE  NoEarlyEnd /\ kind \notin {"crash", "fail"}
BY DEF TypeOK, Fault, NoEarlyEnd, FaultKind

(* Between the scans of a pass, and between passes, nothing is owed.       *)
LEMMA NothingOwed ==
    ASSUME EInv, NoEarlyEnd, job.step \notin {"load", "list", "collect"}, NEW p \in Paths
    PROVE  ~edited[p]
BY DEF EInv, Unjournaled, InSecondScan

(* Init establishes the invariant of the edits.                            *)
LEMMA InitEInv == Init => EInv
<1> SUFFICES ASSUME Init PROVE EInv
  OBVIOUS
<1>1. Fresh(job, "idle", "scan", "none", Absent, {})
  BY IdleFresh DEF Init
<1> QED BY <1>1, InitIInv DEF Init, EInv, Fresh, InventoryLag, Unjournaled

(* Steps outside the scans, none of which makes an edit.                   *)
LEMMA EndsKeepEdits ==
    ASSUME EInv, IInv',
           \/ Scan
           \/ \E p \in Paths, c \in Files : Track(p, c)
           \/ \E o \in inbox : MaterializeOperation(o)
           \/ WriteIntended \/ SaveRecovered \/ SaveIntent \/ Skip \/ Record
    PROVE  EInv'
<1> SUFFICES ASSUME NoEarlyEnd' PROVE EInv'
  BY EarlyEnded
<1>0. TypeOK /\ job \in Jobs /\ TypeOK' /\ job' \in Jobs
  BY Typed DEF EInv, IInv, Moved, TypeOK, Jobs, Kinds
<1>1. NoEarlyEnd /\ UNCHANGED <<faults, cut>>
  BY DEF Scan, Track, MaterializeOperation, WriteIntended, SaveRecovered, SaveIntent, Skip, Record, NoEarlyEnd,
         history, counts
<1>2. job.step \notin {"load", "list", "collect"}
  BY <1>1 DEF Scan, Track, MaterializeOperation, WriteIntended, SaveRecovered, SaveIntent, Skip, Record, Begin, Free,
              EInv, InventoryLag, IInv, IntentShape
<1>3. \A p \in Paths : ~edited'[p]
  <2>1. \A p \in Paths : ~edited[p]
    BY <1>1, <1>2, NothingOwed
  <2> QED BY <1>0, <2>1 DEF TypeOK, Scan, Track, MaterializeOperation, WriteIntended, SaveRecovered, SaveIntent, Skip,
                            Record, history
<1>4. Unjournaled'
  BY <1>3 DEF Unjournaled
<1>5. InventoryLag'
  <2>0. job.done = {} /\ (cut' => ~NoEarlyEnd')
    BY <1>1, <1>2 DEF EInv, IInv, ScanShape, InventoryLag
  <2>1. CASE SaveRecovered
    <3>1. job.step = "written" /\ intent.path = job.path /\ intent.path \in Paths /\ intent' = NoIntent
      BY <1>0, <1>1, <2>1 DEF SaveRecovered, EInv, InventoryLag, IInv, IntentShape, TypeOK
    <3>2. job'.step = "record" /\ job'.path = job.path
      BY <1>0, <2>1, <3>1 DEF SaveRecovered, Jobs
    <3>3. \A p \in Paths : p # job.path => inventory'[p] = version'[p]
      BY <1>0, <1>1, <2>0, <2>1, <3>1 DEF SaveRecovered, Settled, TypeOK, EInv, InventoryLag
    <3> QED BY <2>0, <3>1, <3>2, <3>3 DEF InventoryLag
  <2>2. CASE Record
    <3>1. job.path \in Paths /\ inventory[job.path] = job.next /\ intent = NoIntent
      BY <2>2 DEF Record, EInv, IInv, IntentShape
    <3>2. \A p \in Paths : inventory'[p] = version'[p]
      BY <1>0, <1>1, <2>0, <2>2, <3>1 DEF Record, TypeOK, EInv, InventoryLag, store
    <3> QED BY <2>0, <2>2, <3>1, <3>2 DEF InventoryLag, Record, store
  <2>3. CASE SaveIntent
    <3>1. job'.step = "write"
      BY <1>0, <2>3 DEF SaveIntent, Jobs
    <3> QED BY <1>1, <2>0, <2>3, <3>1 DEF SaveIntent, EInv, InventoryLag
  <2>4. CASE WriteIntended
    <3>1. job.step = "write"
      BY <1>1, <2>4 DEF WriteIntended, EInv, InventoryLag
    <3>2. job'.step = "written"
      BY <1>0, <2>4, <3>1 DEF WriteIntended, Jobs
    <3> QED BY <1>1, <2>0, <2>4, <3>1, <3>2 DEF WriteIntended, EInv, InventoryLag, store
  <2>5. CASE \/ Scan \/ Skip
             \/ \E p \in Paths, c \in Files : Track(p, c)
             \/ \E o \in inbox : MaterializeOperation(o)
    <3>1. UNCHANGED <<inventory, intent, version>> /\ job.step \in {"idle", "decide"}
      BY <2>5 DEF Scan, Skip, Track, MaterializeOperation, Begin, Free, store
    <3> QED BY <1>1, <2>0, <3>1 DEF EInv, InventoryLag
  <2> QED BY <2>1, <2>2, <2>3, <2>4, <2>5
<1> QED BY <1>4, <1>5 DEF EInv

(* The world outside: an edit is one of the user, not of the application.  *)
LEMMA OutsideKeepsEdits ==
    ASSUME RootStays, EInv, IInv',
           \/ \E p \in Paths, c \in Files : Edit(p, c)
           \/ \E p \in Paths, c \in Files, newer \in BOOLEAN : Receive(p, c, newer)
           \/ Tick \/ ClockBack \/ Restart \/ LoseRoot \/ RootBack
    PROVE  EInv'
<1> SUFFICES ASSUME NoEarlyEnd' PROVE EInv'
  BY EarlyEnded
<1>0. TypeOK
  BY DEF EInv, IInv
<1>1. UNCHANGED <<inventory, intent, version, job, cut>>
  BY DEF Edit, Receive, Tick, ClockBack, Restart, LoseRoot, RootBack, store, history
<1>2. NoEarlyEnd
  BY <1>0, FaultGrows DEF Edit, Receive, Tick, ClockBack, Restart, LoseRoot, RootBack, counts, NoEarlyEnd, FaultKind
<1>3. InventoryLag'
  BY <1>1, <1>2 DEF EInv, InventoryLag
<1>4. Unjournaled'
  <2>1. ASSUME NEW p \in Paths, NEW c \in Files, Edit(p, c) PROVE Unjournaled'
    <3>1. \A q \in Paths : edited'[q] => edited[q] /\ live'[q] = live[q] /\ author'[q] = author[q]
      BY <1>0, <2>1 DEF Edit, TypeOK
    <3> QED BY <1>1, <1>2, <2>1, <3>1 DEF EInv, Unjournaled, InSecondScan, Edit
  <2>2. CASE LoseRoot
    <3>1. job.step = "idle"
      BY <2>2 DEF LoseRoot, Outside, RootStays
    <3> QED BY <1>2, <2>2, <3>1, NothingOwed DEF Unjournaled, LoseRoot, history
  <2>3. CASE UNCHANGED <<live, author, edited>> /\ (mounted => mounted')
    BY <1>1, <1>2, <2>3 DEF EInv, Unjournaled, InSecondScan
  <2> QED BY <2>1, <2>2, <2>3 DEF Receive, Tick, ClockBack, Restart, RootBack, history
<1> QED BY <1>3, <1>4 DEF EInv

(* A crash or an error ends the claim.                                     *)
LEMMA FaultsKeepEdits == ASSUME EInv, IInv', Fail \/ Crash \/ ChangeFails PROVE EInv'
<1>1. ~NoEarlyEnd'
  BY FaultGrows DEF EInv, IInv, Fail, Crash, ChangeFails, FaultKind
<1> QED BY <1>1, EarlyEnded

(* The second scan finds its root.                                         *)
LEMMA CheckRootKeepsEdits == ASSUME EInv, IInv', CheckRoot PROVE EInv'
<1> SUFFICES ASSUME NoEarlyEnd' PROVE EInv'
  BY EarlyEnded
<1>0. /\ TypeOK /\ job \in Jobs /\ intent = NoIntent /\ job.done = {} /\ job.step = "load"
      /\ UNCHANGED <<live, inventory, intent, version, author, edited, mounted, faults, cut>>
  BY Typed DEF EInv, IInv, CheckRoot, store, history, counts, ScanShape
<1>1. NoEarlyEnd
  BY <1>0 DEF NoEarlyEnd
<1>2. InventoryLag'
  BY <1>0, <1>1 DEF EInv, InventoryLag
<1>3. Unjournaled'
  <2>1. CASE RootPresent
    <3>1. /\ job'.step = "list" /\ job'.kind = job.kind /\ job'.path = job.path /\ job'.forced = job.forced
          /\ job'.done = job.done /\ job'.unseen = job.unseen
      BY <1>0, <2>1 DEF CheckRoot, Jobs
    <3> QED BY <1>0, <1>1, <3>1 DEF EInv, Unjournaled, InSecondScan
  <2>2. CASE ~RootPresent
    BY <1>0, <1>1, <2>2 DEF EInv, Unjournaled, InSecondScan, RootPresent
  <2> QED BY <2>1, <2>2
<1> QED BY <1>2, <1>3 DEF EInv

(* The edit is listed as it is.                                            *)
LEMMA ListKeepsEdits == ASSUME EInv, IInv', List PROVE EInv'
<1> SUFFICES ASSUME NoEarlyEnd' PROVE EInv'
  BY EarlyEnded
<1>0. /\ job \in Jobs /\ intent = NoIntent /\ job.done = {} /\ job.step = "list" /\ live \in [Paths -> Files]
      /\ \A p \in Paths : job.current[p] = Absent
      /\ UNCHANGED <<live, inventory, intent, version, author, edited, mounted, faults, cut>>
  BY Typed DEF EInv, IInv, List, store, history, counts, ScanShape, IntentShape
<1>1. NoEarlyEnd
  BY <1>0 DEF NoEarlyEnd
<1> DEFINE listed == [p \in Paths |-> IF mounted THEN live[p] ELSE Absent]
<1>2. job' = [job EXCEPT !.step = "collect", !.listed = listed, !.unseen = {p \in Paths : listed[p] # Absent}]
  BY DEF List
<1>3. /\ job'.step = "collect" /\ job'.kind = job.kind /\ job'.path = job.path /\ job'.forced = job.forced
      /\ job'.done = job.done /\ job'.current = job.current
      /\ job'.unseen = {p \in Paths : listed[p] # Absent}
  <2> HIDE DEF listed
  <2> QED BY <1>0, <1>2 DEF Jobs
<1>4. InventoryLag'
  BY <1>0, <1>1, <1>3 DEF EInv, InventoryLag
<1>5. Unjournaled'
  BY <1>0, <1>1, <1>3 DEF EInv, Unjournaled, InSecondScan
<1> QED BY <1>4, <1>5 DEF EInv

(* The edit is hashed, because it is forced.                               *)
LEMMA CollectKeepsEdits == ASSUME EInv, IInv', NEW p \in Paths, Collect(p) PROVE EInv'
<1> SUFFICES ASSUME NoEarlyEnd' PROVE EInv'
  BY EarlyEnded
<1>0. /\ job \in Jobs /\ job.step = "collect" /\ p \in job.unseen /\ intent = NoIntent /\ job.done = {}
      /\ UNCHANGED <<live, inventory, intent, version, author, mounted, faults, cut>>
  BY Typed DEF EInv, IInv, Collect, store, counts, IntentShape, ScanShape
<1>1. NoEarlyEnd
  BY <1>0 DEF NoEarlyEnd
<1>2. CASE Vanished(p)
  <2>1. job' = IdleJob /\ \A q \in Paths : ~edited'[q]
    BY <1>2 DEF Collect
  <2> QED BY <1>0, <1>1, <2>1 DEF EInv, InventoryLag, Unjournaled
<1>3. CASE ~Vanished(p)
  <2> DEFINE now == IF Shortcut(p) THEN inventory[p] ELSE live[p]
  <2>1. job' = [job EXCEPT !.unseen = @ \ {p}, !.current[p] = now] /\ edited' = edited
    BY <1>3 DEF Collect
  <2>2. /\ job'.step = "collect" /\ job'.unseen = job.unseen \ {p} /\ job'.current[p] = now
        /\ \A q \in Paths : q # p => job'.current[q] = job.current[q]
        /\ job'.kind = job.kind /\ job'.path = job.path /\ job'.forced = job.forced /\ job'.done = job.done
    <3> HIDE DEF now
    <3> QED BY <1>0, <2>1 DEF Jobs
  <2>3. edited[p] => now = live[p]
    BY <1>0, <1>1 DEF EInv, Unjournaled, InSecondScan, Shortcut
  <2>4. Unjournaled'
    <3> HIDE DEF now
    <3> QED BY <1>0, <1>1, <2>1, <2>2, <2>3 DEF EInv, Unjournaled, InSecondScan
  <2>5. InventoryLag'
    BY <1>0, <1>1, <2>2 DEF EInv, InventoryLag
  <2> QED BY <2>4, <2>5 DEF EInv
<1> QED BY <1>2, <1>3

(* The edit is owed no longer once it is journaled.                        *)
LEMMA PublishKeepsEdits == ASSUME EInv, IInv', NEW p \in Paths, Publish(p) PROVE EInv'
<1> SUFFICES ASSUME NoEarlyEnd' PROVE EInv'
  BY EarlyEnded
<1>0. /\ TypeOK /\ job \in Jobs /\ job.step = "collect" /\ job.unseen = {} /\ intent = NoIntent
      /\ UNCHANGED <<live, inventory, intent, author, mounted, faults, cut>>
      /\ version' = [version EXCEPT ![p] = job.current[p]]
  BY Typed DEF EInv, IInv, Publish, store, counts, IntentShape
<1>1. NoEarlyEnd
  BY <1>0 DEF NoEarlyEnd
<1>2. /\ job'.step = "collect" /\ job'.unseen = job.unseen /\ job'.current = job.current
      /\ job'.kind = job.kind /\ job'.path = job.path /\ job'.forced = job.forced /\ job'.done = job.done \cup {p}
  BY <1>0 DEF Publish, Jobs
<1>3. InventoryLag'
  BY <1>0, <1>1, <1>2 DEF EInv, InventoryLag, TypeOK
<1>4. \A q \in Paths : edited'[q] => edited[q] /\ q # p
  BY <1>0, <1>1 DEF EInv, Unjournaled, InSecondScan, Publish, TypeOK
<1>5. Unjournaled'
  BY <1>0, <1>1, <1>2, <1>4 DEF EInv, Unjournaled, InSecondScan
<1> QED BY <1>3, <1>5 DEF EInv

(* A scan is saved only when it owes nothing.                              *)
LEMMA SaveScanKeepsEdits == ASSUME EInv, IInv', SaveScan PROVE EInv'
<1> SUFFICES ASSUME NoEarlyEnd' PROVE EInv'
  BY EarlyEnded
<1>0. /\ TypeOK /\ job.step = "collect" /\ job.unseen = {} /\ intent = NoIntent
      /\ UNCHANGED <<intent, version, edited, faults, cut>>
      /\ \A p \in Paths : job.current[p] # inventory[p] => p \in job.done
  BY DEF EInv, IInv, SaveScan, history, counts, IntentShape, Changed
<1>1. NoEarlyEnd
  BY <1>0 DEF NoEarlyEnd
<1>2. \A p \in Paths : ~edited[p]
  BY <1>0, <1>1 DEF EInv, Unjournaled, InSecondScan
<1>3. \A p \in Paths : inventory'[p] = version[p]
  <2> TAKE p \in Paths
  <2>1. CASE p \in job.done
    BY <1>0, <2>1 DEF SaveScan, SaveNeeded, EInv, IInv, ScanShape
  <2>2. CASE p \notin job.done
    <3>1. inventory'[p] = inventory[p]
      BY <1>0, <2>2 DEF SaveScan
    <3> QED BY <1>0, <1>1, <2>2, <3>1 DEF EInv, InventoryLag
  <2> QED BY <2>1, <2>2
<1> QED BY <1>0, <1>1, <1>2, <1>3 DEF EInv, InventoryLag, Unjournaled

(* The change of trackPaths: its file is forced into the second scan.      *)
LEMMA ChangeKeepsEdits == ASSUME EInv, IInv', Change PROVE EInv'
<1> SUFFICES ASSUME NoEarlyEnd' PROVE EInv'
  BY EarlyEnded
<1>0. /\ TypeOK /\ job \in Jobs /\ job.step = "change" /\ job.path \in Paths /\ job.next \in Files /\ intent = NoIntent
      /\ WriteLive(job.path, job.next, "user") /\ job' = SecondScan /\ job.done = {}
      /\ UNCHANGED <<inventory, intent, version, faults, cut>>
  BY Typed DEF EInv, IInv, Change, store, counts, IntentShape, ScanShape, Jobs
<1>1. NoEarlyEnd
  BY <1>0 DEF NoEarlyEnd
<1>2. Fresh(job', "load", "track", "none", Absent, IF job.next = Absent THEN {} ELSE {job.path})
  BY <1>0, SecondScanFresh
<1>3. \A q \in Paths : inventory[q] = version[q] /\ ~edited[q]
  BY <1>0, <1>1, NothingOwed DEF EInv, InventoryLag
<1>4. \A q \in Paths : edited'[q] => /\ q = job.path /\ live'[q] # version[q]
                                     /\ live'[q] # live[q]
  BY <1>0, <1>3 DEF Change, TypeOK
<1>5. edited'[job.path] => live'[job.path] = job.next /\ author'[job.path] = "user" /\ mounted'
  BY <1>0, <1>4, WriteLiveDoes
<1>6. InventoryLag'
  BY <1>0, <1>1, <1>3 DEF EInv, InventoryLag
<1>7. Unjournaled'
  BY <1>0, <1>2, <1>3, <1>4, <1>5 DEF Unjournaled, InSecondScan, Fresh
<1> QED BY <1>6, <1>7 DEF EInv

(* Every step keeps the invariant of the edits.                            *)
LEMMA NextEInv == RootStays /\ EInv /\ [Next]_vars => EInv'
<1> SUFFICES ASSUME RootStays, EInv, [Next]_vars PROVE EInv'
  OBVIOUS
<1>0. IInv /\ IInv'
  BY NextIInv DEF EInv
<1>1. CASE UNCHANGED vars
  BY <1>0, <1>1 DEF vars, store, history, counts, EInv, InventoryLag, NoEarlyEnd, Unjournaled, InSecondScan
<1>2. CASE JobStep
  BY <1>0, <1>2, EndsKeepEdits, CheckRootKeepsEdits, ListKeepsEdits, CollectKeepsEdits, PublishKeepsEdits,
     SaveScanKeepsEdits, ChangeKeepsEdits DEF JobStep
<1> QED BY <1>0, <1>1, <1>2, EndsKeepEdits, OutsideKeepsEdits, FaultsKeepEdits DEF Next

(* The invariant of the edits holds in every reachable state.              *)
LEMMA SpecEInv == RootStays => (Spec => []EInv)
<1> SUFFICES ASSUME RootStays PROVE Spec => []EInv
  OBVIOUS
<1>1. EInv /\ [Next]_vars => EInv'
  BY NextEInv
<1> QED BY <1>1, InitEInv, PTL DEF Spec

-----------------------------------------------------------------------------
(* The results                                                             *)

(* applyUnlocked, recoverPending: the write that is intended on disk is    *)
(* that of a received operation which still waits and which no edit of     *)
(* this device has superseded.                                             *)
THEOREM IntentBelongs == Spec => []IntentIsPending
<1>1. OInv => IntentIsPending
  <2> SUFFICES ASSUME OInv, intent # NoIntent
               PROVE  \E o \in inbox : o.path = intent.path /\ o.next = intent.next /\ o.newer
    BY DEF IntentIsPending
  <2>1. PICK o1 \in inbox : o1.path = intent.path /\ o1.newer
    BY DEF OInv, IInv, IntentShape, Waiting
  <2>2. PICK o2 \in inbox : o2.path = intent.path /\ o2.next = intent.next
    BY DEF OInv, Belongs, Held
  <2>3. o1 = o2
    BY <2>1, <2>2 DEF OInv, Belongs
  <2> QED BY <2>1, <2>2, <2>3
<1> QED BY <1>1, SpecOInv, PTL

(* scanUnlocked, recoverPending: whenever the lock is free and no scan was *)
(* cut off, the inventory is what the journal has of every file without an *)
(* operation to retry, for every combination of faults.                    *)
THEOREM InventoryMatchesJournal == Spec => []InventoryIsPublished
<1>1. IInv => InventoryIsPublished
  BY DEF IInv, Journaled, ScanShape, InventoryIsPublished, Free, Waiting
<1> QED BY <1>1, SpecIInv, PTL

(* A step that journals a file takes it from a scan of a root that is      *)
(* there, and finds in it what the user wrote.                             *)
LEMMA PublishedIsGenuine ==
    ASSUME RootApart, RInv, [Next]_vars
    PROVE  \A p \in Published : mounted /\ author[p] = "user"
<1> SUFFICES ASSUME NEW p \in Published PROVE mounted /\ author[p] = "user"
  OBVIOUS
<1>0. job \in Jobs
  BY Typed DEF RInv, IInv
<1>1. p \in job'.done /\ p \notin job.done
  BY DEF Published
<1>2. CASE \E q \in Paths : Publish(q)
  <2>1. PICK q \in Paths : Publish(q)
    BY <1>2
  <2>2. job'.done = job.done \cup {q}
    BY <1>0, <2>1 DEF Publish, Jobs
  <2> QED BY <1>1, <2>1, <2>2, PublishIsGenuine
<1>3. CASE ~\E q \in Paths : Publish(q)
  <2>1. job'.done = {} \/ job'.done = job.done
    <3>1. IdleJob.done = {}
      BY DEF IdleJob
    <3>2. CASE Scan \/ (\E q \in Paths, c \in Files : Track(q, c)) \/ \E o \in inbox : MaterializeOperation(o)
      BY <3>2 DEF Scan, Track, MaterializeOperation, Begin, IdleJob
    <3>3. CASE WriteIntended \/ SaveRecovered \/ SaveIntent \/ List
      BY <1>0, <3>3 DEF WriteIntended, SaveRecovered, SaveIntent, List, Jobs
    <3>4. CASE CheckRoot \/ \E q \in Paths : Collect(q)
      BY <1>0, <3>1, <3>4 DEF CheckRoot, Collect, Jobs
    <3>5. CASE SaveScan
      BY <1>0, <3>5, AfterScanJob DEF SaveScan
    <3>6. CASE Change \/ ChangeFails
      BY <3>6 DEF Change, ChangeFails, SecondScan, IdleJob
    <3>7. CASE Skip \/ Record \/ Fail \/ Crash
      BY <3>1, <3>7 DEF Skip, Record, Fail, Crash
    <3>8. CASE UNCHANGED job
      BY <3>8
    <3> QED BY <1>3, <3>2, <3>3, <3>4, <3>5, <3>6, <3>7, <3>8
            DEF Next, JobStep, vars, Edit, Receive, Tick, ClockBack, Restart, LoseRoot, RootBack
  <2> QED BY <1>1, <2>1
<1> QED BY <1>2, <1>3

(* applyUnlocked, recoverPending: a content that was received is never     *)
(* journaled as a local edit, whatever step was the last one before a      *)
(* crash, if a root that goes away is no part of another fault.            *)
THEOREM ReceivedIsNotEcho == RootApart => (Spec => NoEcho)
<1> SUFFICES ASSUME RootApart PROVE Spec => NoEcho
  OBVIOUS
<1>1. RInv /\ [Next]_vars => [\A p \in Published : author[p] # "sync"]_vars
  BY PublishedIsGenuine
<1> QED BY <1>1, SpecRInv, PTL DEF Spec, NoEcho

(* scanUnlocked: a deletion is journaled only for a file that the user     *)
(* took away, and while the root is there, if a root that goes away is no  *)
(* part of another fault.                                                  *)
THEOREM DeletionIsGenuine == RootApart => (Spec => TombstonesGenuine)
<1> SUFFICES ASSUME RootApart PROVE Spec => TombstonesGenuine
  OBVIOUS
<1>1. RInv /\ [Next]_vars => [\A p \in Published : job.current[p] = Absent => mounted /\ author[p] = "user"]_vars
  BY PublishedIsGenuine
<1> QED BY <1>1, SpecRInv, PTL DEF Spec, TombstonesGenuine

(* trackPaths: what the application wrote is not replaced by a received    *)
(* operation before it is journaled, as long as no pass ended early and    *)
(* the root does not go away inside a pass.                                *)
THEOREM EditIsKept == RootStays => (Spec => AppEditsKept)
<1> SUFFICES ASSUME RootStays PROVE Spec => AppEditsKept
  OBVIOUS
<1> DEFINE Kept == faults["crash"] + faults["fail"] = 0 => \A p \in Paths : edited[p] => author'[p] # "sync"
<1>1. EInv /\ [Next]_vars => Kept
  <2> SUFFICES ASSUME EInv, [Next]_vars, faults["crash"] + faults["fail"] = 0, NEW p \in Paths, edited[p]
               PROVE  author'[p] # "sync"
    OBVIOUS
  <2>0. TypeOK /\ NoEarlyEnd
    BY DEF EInv, IInv, TypeOK, NoEarlyEnd, FaultKind
  <2>1. author[p] = "user" /\ job.step \in {"load", "list", "collect"} /\ intent = NoIntent
    BY <2>0 DEF EInv, Unjournaled, InSecondScan, InventoryLag
  <2>2. CASE \E q \in Paths, c \in Files : Edit(q, c)
    BY <2>0, <2>1, <2>2 DEF Edit, TypeOK
  <2>3. ~WriteIntended /\ ~Change
    BY <2>1 DEF WriteIntended, Change
  <2> QED BY <2>1, <2>2, <2>3 DEF Next, JobStep, vars, history, Scan, Track, MaterializeOperation, Receive,
             SaveRecovered, CheckRoot, List, Collect, Publish, SaveScan, SaveIntent, Skip, Record, Tick, ClockBack,
             ChangeFails, Fail, Crash, Restart, LoseRoot, RootBack
<1>2. EInv /\ [Next]_vars => [Kept]_vars
  BY <1>1
<1> QED BY <1>2, SpecEInv, PTL DEF Spec, AppEditsKept
=============================================================================
