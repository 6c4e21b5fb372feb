---------------------------- MODULE SyncReceipt ----------------------------
(***************************************************************************)
(* The exact receipt a device sends with a request for operations, and the *)
(* paged scan of a plugin database that answers it: SyncReceipt in         *)
(* SyncOperationStore.rs and exportWithBudget in PluginStorage.rs.  (The   *)
(* chat store has the same loop over the rows no later state supersedes.)  *)
(*                                                                         *)
(* A receipt keeps, for every author, the sequences a device has as a      *)
(* sorted list of closed intervals, and is put together from several       *)
(* stores in any order.  The scan walks the rows of one author with a      *)
(* cursor that skips the known intervals; operations may be stored between *)
(* two of its queries.  The module follows one author and one database:    *)
(* they are independent until the results are sorted and cut to a page.    *)
(***************************************************************************)
EXTENDS Integers, Sequences, FiniteSetsExt

CONSTANTS
    MaxSequence,  \* the largest sequence (i64::MAX in the code)
    Limit,        \* rows asked for
    Batch,        \* rows of one query (256 in the code)
    MaxLate       \* bound: rows stored while a scan is running

ASSUME ReceiptAssumption ==
    /\ MaxSequence \in Nat \ {0}
    /\ Limit \in Nat \ {0}
    /\ Batch \in Nat \ {0}
    /\ MaxLate \in Nat

VARIABLES
    ranges,  \* the intervals of the receipt, in their order
    known,   \* history: the sequences observed so far
    phase,   \* "collect" the receipt, "scan" the rows, "done"
    rows,    \* sequences of the rows the exporting store has
    asked,   \* history: the rows there were when the scan began
    cursor,  \* the last row looked at
    page     \* sequences of the rows found

vars == <<ranges, known, phase, rows, asked, cursor, page>>

Sequence == 1 .. MaxSequence

-----------------------------------------------------------------------------
(***************************************************************************)
(* Intervals.                                                              *)
(***************************************************************************)

\* saturating_add(1).
Successor(s) == IF s = MaxSequence THEN MaxSequence ELSE s + 1

\* Mutant: the start of an interval is compared instead of its end.
BeforeByStart(a) == Cardinality({i \in DOMAIN ranges : Successor(ranges[i][1]) < a})

\* partition_point: the number of intervals that end before a, with a gap.
BeforeGap(a) == Cardinality({i \in DOMAIN ranges : Successor(ranges[i][2]) < a})

\* partition_point: the number of intervals that start at s or before.
StartingBy(s) == Cardinality({i \in DOMAIN ranges : ranges[i][1] <= s})

\* Mutant: the merged interval keeps its own start.
OwnStart(a, first, last) == a

\* merged[0] and merged[1], when the intervals behind the first ones, up to the
\* last, have been absorbed.
MergedStart(a, first, last) == Min({a} \cup {ranges[i][1] : i \in first + 1 .. last})
MergedEnd(b, first, last) == Max({b} \cup {ranges[i][2] : i \in first + 1 .. last})

\* Where the loop of observeRange stops: it absorbs interval after interval, as
\* long as the next one overlaps or touches what was merged before it.
LastAbsorbed(b, first) ==
    CHOOSE last \in first .. Len(ranges) :
        /\ \A i \in first + 1 .. last : ranges[i][1] <= Successor(MergedEnd(b, first, i - 1))
        /\ last < Len(ranges) => ranges[last + 1][1] > Successor(MergedEnd(b, first, last))

\* observeRange: the list with [a, b] in the place of all it absorbs.
WithRange(a, b) ==
    LET first == BeforeGap(a)
        last == LastAbsorbed(b, first)
    IN  SubSeq(ranges, 1, first)
          \o <<<<MergedStart(a, first, last), MergedEnd(b, first, last)>>>>
          \o SubSeq(ranges, last + 1, Len(ranges))

\* validate, on the device that gets the receipt.
Valid ==
    \A i \in DOMAIN ranges :
        /\ ranges[i][1] > (IF i = 1 THEN 0 ELSE ranges[i - 1][2])
        /\ ranges[i][1] <= ranges[i][2]

\* sequenceFor: the prefix that is known without a gap.
SequenceFor ==
    IF ranges # <<>> /\ ranges[1][1] = 1 THEN ranges[1][2] ELSE 0

\* containsSequence.
ContainsSequence(s) ==
    LET index == StartingBy(s)
    IN  index > 0 /\ s <= ranges[index][2]

None == 0

\* checked_add(1).
CheckedSuccessor(s) == IF s = MaxSequence THEN None ELSE s + 1

\* Mutant: the cursor leaves the last interval behind, as for a vector clock.
MissingAfterAll(after) ==
    IF ranges = <<>> THEN CheckedSuccessor(after)
    ELSE CheckedSuccessor(Max({after, ranges[Len(ranges)][2]}))

\* nextMissingSequence: the next sequence after the cursor, or the one behind
\* the interval it falls into.
NextMissingSequence(after) ==
    LET next == CheckedSuccessor(after)
        index == StartingBy(next)
    IN  IF next # None /\ index > 0 /\ next <= ranges[index][2]
        THEN CheckedSuccessor(ranges[index][2])
        ELSE next

-----------------------------------------------------------------------------
(***************************************************************************)
(* The receipt and the scan.                                               *)
(***************************************************************************)

Init ==
    /\ ranges = <<>>
    /\ known = {}
    /\ phase = "collect"
    /\ rows = {}
    /\ asked = {}
    /\ cursor = 0
    /\ page = {}

\* receipt: a committed sequence (observe), an imported interval, or an
\* interval of the receipt of another store (merge).
ObserveRange(a, b) ==
    /\ phase = "collect"
    /\ a <= b
    /\ ranges' = WithRange(a, b)
    /\ known' = known \cup a..b
    /\ UNCHANGED <<phase, rows, asked, cursor, page>>

\* exportWithBudget on a database with the given outgoing rows.
ExportWithBudget(stored) ==
    /\ phase = "collect"
    /\ Valid
    /\ rows' = stored
    /\ asked' = stored
    /\ cursor' = SequenceFor
    /\ phase' = "scan"
    /\ UNCHANGED <<ranges, known, page>>

\* The first n members of a set of sequences.
First(S, n) == {s \in S : Cardinality({t \in S : t < s}) < n}

\* SELECT ... WHERE sequence >= next ORDER BY sequence LIMIT ...
Query(next) ==
    First({s \in rows : next # None /\ s >= next}, Min({Limit, Batch}))

Found(batch) ==
    First({s \in batch : ~ContainsSequence(s)}, Limit - Cardinality(page))

\* Mutant: rows the receiver has do not move the cursor.
CursorAtFound(batch) == IF Found(batch) = {} THEN cursor ELSE Max(Found(batch))

\* The row after which the batch is left: its last one, or the one that fills
\* the page.
CursorAfter(batch) ==
    IF Cardinality(page \cup Found(batch)) = Limit THEN Max(Found(batch))
    ELSE Max(batch)

\* One turn of the scan: a query, and a pass over its rows.
ReadRows ==
    LET batch == Query(NextMissingSequence(cursor))
    IN  /\ phase = "scan"
        /\ Cardinality(page) < Limit
        /\ batch # {}
        /\ page' = page \cup Found(batch)
        /\ cursor' = CursorAfter(batch)
        /\ UNCHANGED <<ranges, known, phase, rows, asked>>

EndScan ==
    /\ phase = "scan"
    /\ \/ Cardinality(page) = Limit
       \/ Query(NextMissingSequence(cursor)) = {}
    /\ phase' = "done"
    /\ UNCHANGED <<ranges, known, rows, asked, cursor, page>>

\* An operation of the author is stored between two queries.
StoreLate(s) ==
    /\ phase = "scan"
    /\ s \notin rows
    /\ Cardinality(rows \ asked) < MaxLate
    /\ rows' = rows \cup {s}
    /\ UNCHANGED <<ranges, known, phase, asked, cursor, page>>

Next ==
    \/ \E a, b \in Sequence : ObserveRange(a, b)
    \/ \E stored \in SUBSET Sequence : ExportWithBudget(stored)
    \/ ReadRows
    \/ EndScan
    \/ \E s \in Sequence : StoreLate(s)

Spec == Init /\ [][Next]_vars

\* The scan runs in one call and goes on until it returns.
LiveSpec == Spec /\ WF_vars(ReadRows \/ EndScan)

-----------------------------------------------------------------------------
(***************************************************************************)
(* Properties.                                                             *)
(***************************************************************************)

\* observeRange, containsSequence: in whatever order sequences and intervals
\* were observed, up to the largest sequence, the receipt has exactly them.
ReceiptIsExact == \A s \in Sequence : ContainsSequence(s) <=> s \in known

\* observeRange, validate: a receipt the code builds is never refused by the
\* device it is sent to.
ReceiptIsAccepted == Valid

\* nextMissingSequence, exportWithBudget: the page has only rows the receiver
\* lacks, and leaves no such row out, except behind the end of a full page,
\* whatever is stored meanwhile.
PageIsComplete ==
    phase = "done" =>
        /\ page \subseteq rows \ known
        /\ \A s \in (asked \ known) \ page :
              Cardinality(page) = Limit /\ \A t \in page : t < s

\* exportWithBudget: a scan that has begun returns, also when all the rows of a
\* query are known to the receiver.
ScanReturns == phase = "scan" ~> phase = "done"

=============================================================================
