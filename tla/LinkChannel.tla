---------------------------- MODULE LinkChannel ----------------------------
(***************************************************************************)
(* One direction of an authenticated peer channel: MultiplexedChannel of   *)
(* peer/crypto.rs on the calling node, serveIncoming of peer/dispatch.rs   *)
(* and CoreLinkSession of foundation/link/src/session.rs on the serving    *)
(* node.                                                                   *)
(*                                                                         *)
(* Many operations share one carrier.  An exchange enters its key in the   *)
(* table of pending requests, hands its frame to the writer and waits for  *)
(* the reader to find the key again; the frames of a watch are found by    *)
(* its id in a second table.  Any of the threads may end the channel, and  *)
(* a caller may be dropped wherever it waits.                              *)
(*                                                                         *)
(* A user is one operation of the calling node: a call, a watch or a push  *)
(* with its items, under an id of its own that stands for the user.  What  *)
(* is called and what is sent is left out; an event is its number.         *)
(***************************************************************************)
EXTENDS Integers, Sequences, FiniteSets

CONSTANTS
    Caller, Watcher, Pusher,   \* the users, by what they do
    MaxStreams,    \* the limit of streams of one connection
    MaxEvents,     \* bound: events of one source
    MaxItems,      \* bound: items of one push
    Scenarios      \* bound: who takes part, and how many faults and dropped exchanges there are

User == Caller \cup Watcher \cup Pusher

ASSUME LinkAssumption ==
    /\ Caller \cap Watcher = {} /\ Watcher \cap Pusher = {} /\ Pusher \cap Caller = {}
    /\ {MaxStreams, MaxEvents, MaxItems} \subseteq Nat
    /\ Scenarios \subseteq [users : SUBSET User, faults : Nat, cancels : Nat]

VARIABLES
    user,      \* where each user stands: its exchange, its handle, its next item
    pending,   \* the pending requests of the channel: requestKey is the same for a whole stream
    watches,   \* the watches whose stream is registered with the channel
    failure,   \* how far the end of the channel has come
    up,        \* the carrier works
    requests,  \* frames of watches and pushes on their way to the session
    calls,     \* the calls on their way or at work, each in a task of its own
    replies,   \* frames on their way to the reader, by their key
    source,    \* the watches that are open in the session, with their sources
    push,      \* the next sequence of the pushes that are open in the session
    got,       \* history: the events that the stream of each watcher received
    executed,  \* history: the items the service was given, in order
    left       \* the faults and the dropped exchanges that are left

client == <<user, pending, watches, failure>>
session == <<source, push, executed>>
vars == <<user, pending, watches, failure, up, requests, calls, replies, source, push, got, executed, left>>

Closed == [open |-> FALSE, made |-> 0, sent |-> 0, state |-> "live"]

Init ==
    /\ \E s \in Scenarios :
          /\ user = [u \in User |->
                       [pc |-> IF u \in s.users THEN "new" ELSE "done", act |-> "none", handle |-> FALSE,
                        next |-> 0, accepted |-> 0, reply |-> "none", cancelled |-> FALSE]]
          /\ left = [faults |-> s.faults, cancels |-> s.cancels]
    /\ pending = {}
    /\ watches = {}
    /\ failure = "no"
    /\ up = TRUE
    /\ requests = <<>> /\ calls = {} /\ replies = [u \in User |-> <<>>]
    /\ source = [i \in Watcher |-> Closed]
    /\ push = [i \in Pusher |-> -1]
    /\ got = [u \in Watcher |-> <<>>]
    /\ executed = [i \in Pusher |-> <<>>]

Fault == left.faults > 0 /\ left' = [left EXCEPT !.faults = @ - 1]

-----------------------------------------------------------------------------
(* The exchange                                                            *)

\* What an exchange leaves behind: a handle for a stream that was opened.
After(v, reply) ==
    LET opened == v.act = "open" /\ reply = "opened"
        over == v.act \in {"call", "close"} \/ (v.act = "open" /\ ~opened)
    IN [v EXCEPT !.pc = IF over THEN "done" ELSE "rest", !.act = "none", !.reply = "none",
                 !.handle = @ \/ opened,
                 !.accepted = @ + IF reply = "accepted" THEN 1 ELSE 0]

\* A watch that cannot be opened loses its registration.
Unregister(u, reply) ==
    IF u \in Watcher /\ user[u].act = "open" /\ reply # "opened"
    THEN watches' = watches \ {u}
    ELSE UNCHANGED watches

Return(u, reply) ==
    /\ user' = [user EXCEPT ![u] = After(user[u], reply)]
    /\ Unregister(u, reply)

\* An exchange enters its key unless the key is in flight.
Enter(u, v) ==
    IF u \notin pending
    THEN /\ pending' = pending \cup {u}
         /\ user' = [user EXCEPT ![u] = [v EXCEPT !.pc = "check"]]
    ELSE /\ user' = [user EXCEPT ![u] = After(v, "error")]
         /\ UNCHANGED pending

\* Mutant: the writer is used without asking whether the channel has failed.
CheckNothing(u) ==
    /\ user[u].pc = "check"
    /\ user' = [user EXCEPT ![u].pc = "write"]
    /\ UNCHANGED <<pending, watches, failure, up, requests, calls, replies, session, got, left>>

\* send asks first whether the channel has failed.
Check(u) ==
    /\ user[u].pc = "check"
    /\ IF failure = "no"
       THEN user' = [user EXCEPT ![u].pc = "write"] /\ UNCHANGED <<pending, watches>>
       ELSE pending' = pending \ {u} /\ Return(u, "error")
    /\ UNCHANGED <<failure, up, requests, calls, replies, session, got, left>>

\* The frame goes out, and the exchange waits for its reply.
Write(u) ==
    /\ user[u].pc = "write" /\ up
    /\ IF u \in Caller
       THEN calls' = calls \cup {u} /\ UNCHANGED requests
       ELSE /\ requests' = Append(requests, [key |-> u, act |-> user[u].act, seq |-> user[u].next - 1])
            /\ UNCHANGED calls
    /\ user' = [user EXCEPT ![u].pc = "wait"]
    /\ UNCHANGED <<pending, watches, failure, up, replies, session, got, left>>

\* The write fails, and the channel with it.
WriteFails(u) ==
    /\ user[u].pc = "write"
    /\ IF up THEN Fault ELSE UNCHANGED left
    /\ user' = [user EXCEPT ![u].pc = IF failure = "no" THEN "ending" ELSE "failed"]
    /\ failure' = IF failure = "no" THEN "set" ELSE failure
    /\ UNCHANGED <<pending, watches, up, requests, calls, replies, session, got>>

\* The exchange whose write failed takes its key back, once it has ended the
\* channel or has found it ended.
TakeBack(u) ==
    /\ user[u].pc = "failed" \/ (user[u].pc = "ending" /\ failure = "cleared")
    /\ pending' = pending \ {u}
    /\ Return(u, "error")
    /\ UNCHANGED <<failure, up, requests, calls, replies, session, got, left>>

\* The waiting exchange has its reply.
Resume(u) ==
    /\ user[u].pc = "wait" /\ user[u].reply # "none"
    /\ Return(u, user[u].reply)
    /\ UNCHANGED <<pending, failure, up, requests, calls, replies, session, got, left>>

\* The future of an exchange is dropped while it waits for the writer or for
\* its reply, by its caller or by the timeout of a push that closes: nobody
\* takes the key, or the registration of a watch, back.
Cancel(u) ==
    /\ user[u].pc \in {"write", "wait"}
    /\ u \in Watcher => user[u].act # "close"
    /\ left.cancels > 0
    /\ left' = [left EXCEPT !.cancels = @ - 1]
    /\ user' = [user EXCEPT ![u].pc = IF user[u].act = "item" THEN "rest" ELSE "done",
                            ![u].act = "none", ![u].reply = "none", ![u].cancelled = TRUE]
    /\ UNCHANGED <<pending, watches, failure, up, requests, calls, replies, session, got>>

-----------------------------------------------------------------------------
(* The operations of the calling node                                      *)

Begin(u, act) ==
    /\ Enter(u, [user[u] EXCEPT !.act = act, !.next = @ + IF act = "item" THEN 1 ELSE 0,
                                !.handle = @ /\ act # "close"])
    /\ UNCHANGED <<watches, failure, up, requests, calls, replies, session, got, left>>

Call(u) == u \in Caller /\ user[u].pc = "new" /\ Begin(u, "call")

OpenPush(u) == u \in Pusher /\ user[u].pc = "new" /\ Begin(u, "open")

Pushing(u) == u \in Pusher /\ user[u].pc = "rest" /\ user[u].handle

\* Push::send counts its item before it is sent.
PushItem(u) == Pushing(u) /\ user[u].next < MaxItems /\ Begin(u, "item")

\* Push::close and the close task of a dropped Push.
ClosePush(u) == Pushing(u) /\ Begin(u, "close")

\* The Push is dropped and the host refuses its close task: the refusal is
\* ignored, nothing is sent and the channel goes on.
DropUnclosed(u) ==
    /\ Pushing(u) /\ Fault
    /\ user' = [user EXCEPT ![u].handle = FALSE, ![u].pc = "unclosed"]
    /\ UNCHANGED <<pending, watches, failure, up, requests, calls, replies, session, got>>

\* openWatch registers the stream before it asks for it.
OpenWatch(u) ==
    /\ u \in Watcher /\ user[u].pc = "new"
    /\ watches' = watches \cup {u}
    /\ user' = [user EXCEPT ![u].pc = "insert", ![u].act = "open"]
    /\ UNCHANGED <<pending, failure, up, requests, calls, replies, session, got, left>>

Dropping(u) == u \in Watcher /\ user[u].pc = "rest" /\ user[u].handle

\* Mutant: a dropped stream is forgotten without a close.
DropForgotten(u) ==
    /\ Dropping(u)
    /\ user' = [user EXCEPT ![u].handle = FALSE, ![u].pc = "done"]
    /\ UNCHANGED <<pending, watches, failure, up, requests, calls, replies, session, got, left>>

\* The stream of a watch is dropped, and its callback schedules closeWatch; a
\* host that refuses the task ends the channel.
DropStream(u) ==
    /\ Dropping(u)
    /\ \/ /\ user' = [user EXCEPT ![u].handle = FALSE, ![u].pc = "closing"]
          /\ UNCHANGED <<failure, left>>
       \/ /\ Fault
          /\ user' = [user EXCEPT ![u].handle = FALSE, ![u].pc = "done"]
          /\ failure' = IF failure = "no" THEN "set" ELSE failure
    /\ UNCHANGED <<pending, watches, up, requests, calls, replies, session, got>>

CloseWatch(u) ==
    /\ u \in Watcher /\ user[u].pc = "closing"
    /\ watches' = watches \ {u}
    /\ user' = [user EXCEPT ![u].pc = "insert", ![u].act = "close"]
    /\ UNCHANGED <<pending, failure, up, requests, calls, replies, session, got, left>>

\* The table of watches and the table of requests have a lock each.
Insert(u) ==
    /\ user[u].pc = "insert"
    /\ Enter(u, user[u])
    /\ IF u \in pending THEN Unregister(u, "error") ELSE UNCHANGED watches
    /\ UNCHANGED <<failure, up, requests, calls, replies, session, got, left>>

-----------------------------------------------------------------------------
(* The reader, and the end of the channel                                  *)

\* The pending exchange of a key gets what arrived for the key, unless it was
\* dropped.
Deliver(u, what) ==
    /\ pending' = pending \ {u}
    /\ user' = IF u \in pending /\ user[u].pc \in {"check", "write", "wait"}
               THEN [user EXCEPT ![u].reply = what] ELSE user

\* dispatchResponse: an event goes to the stream that is registered for its
\* id; whatever finds none, and the end of a watch too, answers the pending
\* exchange of the key.  A frame concerns its key alone, so only the frames of
\* one key are kept in their order.
Read(u) ==
    LET m == Head(replies[u])
    IN /\ replies[u] # <<>> /\ failure # "cleared"
       /\ replies' = [replies EXCEPT ![u] = Tail(@)]
       /\ IF m.what = "event" /\ u \in watches
          THEN /\ got' = [got EXCEPT ![u] = Append(@, m.n)]
               /\ UNCHANGED <<user, pending, watches>>
          ELSE /\ Deliver(u, m.what)
               /\ watches' = IF m.what = "closed" THEN watches \ {u} ELSE watches
               /\ UNCHANGED got
       /\ UNCHANGED <<failure, up, requests, calls, session, left>>

\* The carrier ends, or stays silent for both deadlines of the heartbeat.
Break ==
    /\ up /\ Fault
    /\ up' = FALSE
    /\ UNCHANGED <<client, requests, calls, replies, session, got>>

\* terminate: by the reader, or because the node closes the channel; then the
\* pending exchanges fail and the streams end.
ReaderStops ==
    /\ failure = "no"
    /\ IF up THEN Fault ELSE UNCHANGED left
    /\ failure' = "set"
    /\ UNCHANGED <<user, pending, watches, up, requests, calls, replies, session, got>>

DrainPending ==
    /\ failure = "set"
    /\ failure' = "drained"
    /\ pending' = {}
    /\ user' = [u \in User |-> IF u \in pending /\ user[u].pc \in {"check", "write", "wait"}
                               THEN [user[u] EXCEPT !.reply = "error"] ELSE user[u]]
    /\ UNCHANGED <<watches, up, requests, calls, replies, session, got, left>>

ClearWatches ==
    /\ failure = "drained"
    /\ failure' = "cleared"
    /\ watches' = {}
    /\ up' = FALSE
    /\ UNCHANGED <<user, pending, requests, calls, replies, session, got, left>>

-----------------------------------------------------------------------------
(* The serving node                                                        *)

Message(what, n) == [what |-> what, n |-> n]

Ready(src, i) == src[i].open /\ (src[i].sent < src[i].made \/ src[i].state # "live")

\* Mutant: the end of a source overtakes its last events.
EndFirst(src, i) ==
    LET events == [n \in 1 .. src[i].made - src[i].sent |-> Message("event", src[i].sent + n)]
    IN CASE src[i].state = "live" -> events
         [] src[i].state = "ended" -> <<Message("closed", 0)>> \o events
         [] src[i].state = "faulted" -> <<Message("error", 0)>> \o events

\* nextWatchBatch for one watch: what is queued, and then its end.
Drained(src, i) ==
    LET events == [n \in 1 .. src[i].made - src[i].sent |-> Message("event", src[i].sent + n)]
    IN CASE src[i].state = "live" -> events
         [] src[i].state = "ended" -> Append(events, Message("closed", 0))
         [] src[i].state = "faulted" -> Append(events, Message("error", 0))

\* What the sources of all watches have ready for a user.
Batch(src, u) == IF u \in Watcher /\ Ready(src, u) THEN Drained(src, u) ELSE <<>>

Flushed(src) ==
    [i \in Watcher |->
        IF Ready(src, i) THEN [src[i] EXCEPT !.sent = src[i].made, !.open = src[i].state = "live"] ELSE src[i]]

\* Events that are ready are sent while no request waits.
Flush ==
    /\ up
    /\ \E i \in Watcher : Ready(source, i)
    /\ replies' = [u \in User |-> replies[u] \o Batch(source, u)]
    /\ source' = Flushed(source)
    /\ UNCHANGED <<client, up, requests, calls, push, got, executed, left>>

\* Mutant: the events that are taken with a request are not sent with it.
RespondAlone(what, src) ==
    /\ requests' = Tail(requests)
    /\ replies' = [replies EXCEPT ![Head(requests).key] = Append(@, Message(what, 0))]
    /\ source' = Flushed(src)
    /\ UNCHANGED <<client, up, calls, got, left>>

\* One request is answered, together with the events that are ready.
Respond(what, src) ==
    /\ requests' = Tail(requests)
    /\ replies' = [u \in User |->
                     (IF u = Head(requests).key THEN Append(replies[u], Message(what, 0)) ELSE replies[u])
                       \o Batch(src, u)]
    /\ source' = Flushed(src)
    /\ UNCHANGED <<client, up, calls, got, left>>

Heads(kind, act) ==
    up /\ requests # <<>> /\ Head(requests).key \in kind /\ Head(requests).act = act

\* ensureCapacity.
Full ==
    MaxStreams <= Cardinality({i \in Watcher : source[i].open})
                    + Cardinality({i \in Pusher : push[i] >= 0})

\* A stream is opened unless its id is open or the limit is reached; the
\* service may refuse it as well.
ServeWatchOpen ==
    LET i == Head(requests).key
    IN /\ Heads(Watcher, "open")
       /\ \/ Respond("error", source)
          \/ /\ ~source[i].open /\ ~Full
             /\ Respond("opened", [source EXCEPT ![i] = [Closed EXCEPT !.open = TRUE]])
       /\ UNCHANGED <<push, executed>>

ServeWatchClose ==
    /\ Heads(Watcher, "close")
    /\ Respond("closed", [source EXCEPT ![Head(requests).key].open = FALSE])
    /\ UNCHANGED <<push, executed>>

ServePushOpen ==
    LET i == Head(requests).key
    IN /\ Heads(Pusher, "open")
       /\ \/ Respond("error", source) /\ UNCHANGED push
          \/ push[i] < 0 /\ ~Full /\ Respond("opened", source) /\ push' = [push EXCEPT ![i] = 0]
       /\ UNCHANGED executed

\* Mutant: an item is executed whatever its sequence.
ServeAnyItem ==
    LET r == Head(requests)
        i == r.key
    IN /\ Heads(Pusher, "item")
       /\ IF push[i] < 0
          THEN Respond("error", source) /\ UNCHANGED <<push, executed>>
          ELSE /\ Respond("accepted", source)
               /\ push' = [push EXCEPT ![i] = @ + 1]
               /\ executed' = [executed EXCEPT ![i] = Append(@, r.seq)]

\* An item is executed only in its turn; one that fails may have been executed
\* and ends its stream.
ServeItem ==
    LET r == Head(requests)
        i == r.key
        done == [executed EXCEPT ![i] = Append(@, r.seq)]
    IN /\ Heads(Pusher, "item")
       /\ IF push[i] < 0 \/ push[i] # r.seq
          THEN Respond("error", source) /\ UNCHANGED <<push, executed>>
          ELSE \/ /\ Respond("accepted", source)
                  /\ push' = [push EXCEPT ![i] = @ + 1]
                  /\ executed' = done
               \/ /\ Respond("error", source)
                  /\ push' = [push EXCEPT ![i] = -1]
                  /\ executed' \in {executed, done}

ServePushClose ==
    LET i == Head(requests).key
    IN /\ Heads(Pusher, "close")
       /\ \E what \in IF push[i] >= 0 THEN {"closed", "error"} ELSE {"error"} : Respond(what, source)
       /\ push' = [push EXCEPT ![i] = -1]
       /\ UNCHANGED executed

AnswerCall(u) ==
    /\ up /\ u \in calls
    /\ calls' = calls \ {u}
    /\ replies' = [replies EXCEPT ![u] = Append(@, Message("answer", 0))]
    /\ UNCHANGED <<client, up, requests, session, got, left>>

\* The session ends with its carrier, and with it the streams and the calls.
Stop ==
    /\ ~up
    /\ requests # <<>> \/ calls # {} \/ (\E i \in Watcher : source[i].open) \/ (\E i \in Pusher : push[i] >= 0)
    /\ requests' = <<>> /\ calls' = {}
    /\ source' = [i \in Watcher |-> [source[i] EXCEPT !.open = FALSE]]
    /\ push' = [i \in Pusher |-> -1]
    /\ UNCHANGED <<client, up, replies, got, executed, left>>

\* What the sources of watches do.
Emit(i) ==
    /\ source[i].open /\ source[i].state = "live" /\ source[i].made < MaxEvents
    /\ source' = [source EXCEPT ![i].made = @ + 1]
    /\ UNCHANGED <<client, up, requests, calls, replies, push, got, executed, left>>

SourceEnds(i) ==
    /\ source[i].open /\ source[i].state = "live"
    /\ \/ source' = [source EXCEPT ![i].state = "ended"] /\ UNCHANGED left
       \/ source' = [source EXCEPT ![i].state = "faulted"] /\ Fault
    /\ UNCHANGED <<client, up, requests, calls, replies, push, got, executed>>

-----------------------------------------------------------------------------
UserStarts(u) ==
    \/ Call(u) \/ OpenWatch(u) \/ OpenPush(u) \/ PushItem(u) \/ ClosePush(u) \/ DropUnclosed(u)
    \/ DropStream(u) \/ Cancel(u)

ExchangeStep(u) ==
    CloseWatch(u) \/ Insert(u) \/ Check(u) \/ Write(u) \/ WriteFails(u) \/ TakeBack(u) \/ Resume(u)

Serve ==
    ServeWatchOpen \/ ServeWatchClose \/ ServePushOpen \/ ServeItem \/ ServePushClose

Next ==
    \/ \E u \in User : UserStarts(u) \/ ExchangeStep(u) \/ AnswerCall(u) \/ Read(u)
    \/ Break \/ ReaderStops \/ DrainPending \/ ClearWatches
    \/ Serve \/ Flush \/ Stop
    \/ \E i \in Watcher : Emit(i) \/ SourceEnds(i)

Spec == Init /\ [][Next]_vars

\* Tasks that have begun go on, the session and its services answer, and a
\* reader notices a carrier that has ended.  Users, sources and faults are free.
Fairness ==
    /\ \A u \in User : WF_vars(ExchangeStep(u)) /\ WF_vars(AnswerCall(u)) /\ WF_vars(Read(u))
    /\ WF_vars(~up /\ ReaderStops) /\ WF_vars(DrainPending) /\ WF_vars(ClearWatches)
    /\ WF_vars(Serve) /\ WF_vars(Flush) /\ WF_vars(Stop)

LiveSpec == Spec /\ Fairness

-----------------------------------------------------------------------------
(* Properties                                                              *)

AtRest(u) == user[u].pc \in {"new", "rest", "done", "unclosed"}

\* nextWatchBatch, dispatchResponse: the stream of a watch has the events of its
\* source in order and without a gap, and all of them when it ends because its
\* source has.
WatchInOrder ==
    \A u \in Watcher :
        LET src == source[u]
        IN /\ got[u] = [n \in 1 .. Len(got[u]) |-> n]
           /\ Len(got[u]) <= src.made
           /\ user[u].handle /\ u \notin watches /\ failure = "no" => Len(got[u]) = src.made

\* CoreLinkSession::push: "Do not allow retry on the same stream to duplicate
\* service-side effects."  The service is given items in order, none twice and
\* none left out, and each that a pusher knows to be accepted.
PushInOrder ==
    \A u \in Pusher :
        /\ executed[u] = [n \in 1 .. Len(executed[u]) |-> n - 1]
        /\ user[u].accepted <= Len(executed[u])

\* When nothing is under way, and before or after the end of the channel but not
\* during it, all that is left of a user on either node is left for a handle that
\* will close it: no key, no registered stream, no watch and no push in the session
\* stays behind, whichever thread ended the channel and wherever the stream was
\* dropped.  A user whose exchange was dropped while it waited is left out, and a
\* push may stay open in the session if the host refused the task that closes it.
NothingLeftBehind ==
    requests = <<>> /\ (\A u \in User : AtRest(u) /\ replies[u] = <<>>) /\ (failure = "cleared" \/ (failure = "no" /\ up)) =>
        \A u \in User :
            \/ user[u].cancelled
            \/ /\ u \notin pending
               /\ u \in watches => user[u].handle /\ failure = "no"
               /\ u \in Watcher => (source[u].open /\ up => user[u].handle)
               /\ u \in Pusher => (push[u] >= 0 /\ up => user[u].handle \/ user[u].pc = "unclosed")

\* exchange: every request is answered or fails, whichever thread ends the
\* channel between the table, the writer and the reader.
ExchangesEnd == \A u \in User : ~AtRest(u) ~> AtRest(u)

\* An event reaches the stream of its watch, unless the stream is dropped or
\* the channel fails first.
EventsArrive ==
    \A u \in Watcher :
        (user[u].handle /\ Len(got[u]) < source[u].made)
            ~> (Len(got[u]) = source[u].made \/ ~user[u].handle \/ ~up \/ failure # "no")
=============================================================================
