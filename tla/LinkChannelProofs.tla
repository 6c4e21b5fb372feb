------------------------- MODULE LinkChannelProofs -------------------------
(***************************************************************************)
(* Proofs about LinkChannel, for any users, limits and scenarios.          *)
(*                                                                         *)
(* The key of a push is in the table from the moment it is entered until   *)
(* its answer is read, also when its exchange was dropped, so at most one  *)
(* frame of a push is ever under way while the channel works.  The frames  *)
(* of a watch are its opening, then the events that its stream does not    *)
(* have yet, then its end.                                                 *)
(***************************************************************************)
EXTENDS LinkChannel, SequenceTheorems, TLAPS

What == {"opened", "error", "accepted", "closed", "answer", "event"}
Pc == {"new", "insert", "check", "write", "wait", "ending", "failed", "closing", "rest", "done", "unclosed"}
Act == {"none", "call", "open", "item", "close"}
UserState == [pc : Pc, act : Act, handle : BOOLEAN, next : Nat, accepted : Nat,
              reply : What \cup {"none"}, cancelled : BOOLEAN]
Request == [key : Watcher \cup Pusher, act : Act, seq : Int]
Reply == [what : What, n : Nat]
Source == [open : BOOLEAN, made : Nat, sent : Nat, state : {"live", "ended", "faulted"}]

(* The types of the state.                                                 *)
Types ==
    /\ user \in [User -> UserState]
    /\ pending \subseteq User /\ watches \subseteq Watcher
    /\ failure \in {"no", "set", "drained", "cleared"} /\ up \in BOOLEAN
    /\ requests \in Seq(Request) /\ calls \subseteq Caller
    /\ replies \in [User -> Seq(Reply)]
    /\ source \in [Watcher -> Source] /\ push \in [Pusher -> Int]
    /\ got \in [Watcher -> Seq(Nat)] /\ executed \in [Pusher -> Seq(Int)]
    /\ failure = "cleared" => ~up

(* The requests of one user that are under way.                            *)
Asked(u) == \E i \in 1 .. Len(requests) : requests[i].key = u
Opening(u) == \E i \in 1 .. Len(requests) : requests[i].key = u /\ requests[i].act = "open"
Closing(u) == \E i \in 1 .. Len(requests) : requests[i].key = u /\ requests[i].act = "close"
Sole(u) == \A i, j \in 1 .. Len(requests) : requests[i].key = u /\ requests[j].key = u => i = j

Out(u) == Asked(u) \/ replies[u] # <<>>

(* The request that opens the stream is not written yet.                   *)
Fresh(u) ==
    \/ user[u].pc = "new"
    \/ user[u].act = "open" /\ user[u].pc \in {"insert", "check", "write", "ending", "failed"}

(* The answer that opens the stream is on its way to the user.             *)
Opened(u) ==
    /\ user[u].act = "open" /\ user[u].pc = "wait"
    /\ \/ user[u].reply = "opened"
       \/ user[u].reply = "none" /\ replies[u] # <<>> /\ replies[u][1].what = "opened"

(* The tables of the channel and where the user stands.                    *)
UserOK(u) ==
    LET x == user[u]
    IN /\ x.pc \in {"new", "rest", "done", "unclosed", "closing"} <=> x.act = "none"
       /\ u \in Watcher => x.act \in {"none", "open", "close"}
       /\ x.pc \in {"insert", "closing"} => u \in Watcher
       /\ x.pc = "unclosed" => u \in Pusher
       /\ x.handle => x.pc # "new" /\ x.pc # "closing" /\ x.act \notin {"open", "close"}
       /\ x.pc \in {"ending", "failed"} => failure # "no"
       /\ x.pc \in {"new", "rest", "done", "unclosed", "closing", "insert"} => x.reply = "none"
       /\ u \in pending /\ ~x.cancelled =>
             x.pc \in {"ending", "failed"} \/ (x.pc \in {"check", "write", "wait"} /\ x.reply = "none")
       /\ failure \in {"no", "set"} /\ x.pc \in {"check", "write", "wait"} /\ x.reply = "none" => u \in pending
       /\ u \in watches /\ ~x.cancelled =>
             x.handle \/ x.act = "open" \/ x.pc = "closing" \/ (x.pc = "done" /\ failure \in {"set", "drained"})
       /\ u \in watches /\ failure = "cleared" => x.act = "open" /\ x.pc \in {"insert", "check"}

(* The frames of a push, and what the service was given.                   *)
PushOK(u) ==
    LET x == user[u]
        q == replies[u]
        e == executed[u]
    IN /\ Sole(u) /\ Len(q) <= 1 /\ (Asked(u) => q = <<>>)
       /\ Fresh(u) => ~Out(u) /\ push[u] = -1 /\ e = <<>>
       /\ x.pc \in {"write", "ending", "failed"} => ~Out(u)
       /\ failure \in {"no", "set"} =>
             /\ x.pc \in {"check", "write"} => u \in pending
             /\ x.pc = "check" \/ u \notin pending => ~Out(u)
       /\ Opening(u) => push[u] = -1 /\ e = <<>>
       /\ push[u] = -1 \/ push[u] = Len(e)
       /\ \A i \in 1 .. Len(e) : e[i] = i - 1
       /\ x.reply = "accepted" =>
             /\ ~Out(u)
             /\ x.pc = "wait" \/ (x.pc = "check" /\ failure \in {"drained", "cleared"})
       /\ x.accepted <= Len(e)
       /\ x.reply = "accepted" \/ (q # <<>> /\ q[1].what = "accepted") => x.accepted < Len(e)

(* The push that is open in the session belongs to somebody, or the task   *)
(* that closes it was refused.                                             *)
PushHeld(u) ==
    failure = "no" /\ up /\ ~user[u].cancelled =>
       /\ Opening(u) => user[u].act = "open" /\ user[u].pc = "wait" /\ user[u].reply = "none"
       /\ push[u] >= 0 =>
             \/ user[u].handle \/ user[u].pc = "unclosed" \/ Closing(u) \/ Opened(u)
             \/ user[u].act = "close" /\ user[u].pc \in {"check", "write"}

(* The frames of a registered watch: its opening, the events its stream    *)
(* does not have yet, and its end.                                         *)
InOrder(q, src, g) ==
    LET k == IF q # <<>> /\ q[1].what = "opened" THEN 1 ELSE 0
        m == src.sent - Len(g)
    IN /\ m >= 0 /\ Len(q) >= k + m
       /\ \A i \in 1 .. Len(q) :
             /\ q[i].what = "event" <=> k < i /\ i <= k + m
             /\ q[i].what = "event" => q[i].n = Len(g) + i - k
             /\ q[i].what = "opened" => i = 1
             /\ q[i].what = "closed" => ~src.open /\ src.sent = src.made
       /\ src.open => Len(q) = k + m

WatchOK(u) ==
    LET x == user[u]
        q == replies[u]
        src == source[u]
        g == got[u]
    IN /\ Fresh(u) => ~Asked(u) /\ q = <<>> /\ src = Closed /\ g = <<>>
       /\ Opening(u) =>
             /\ Sole(u) /\ q = <<>> /\ src = Closed /\ g = <<>> /\ ~x.handle
             /\ x.pc = "done" \/ (x.pc = "wait" /\ x.act = "open" /\ x.reply # "opened")
       /\ x.cancelled => x.pc = "done"
       /\ Fresh(u) => x.reply \in {"none", "error"}
       /\ Fresh(u) /\ x.pc \in {"check", "write"} /\ failure \in {"no", "set"} => u \in pending
       /\ x.act = "open" /\ x.reply = "none" /\ failure = "no" => u \in watches
       /\ x.pc = "new" => u \notin watches
       /\ u \in watches => InOrder(q, src, g) /\ x.act # "close" /\ ~Closing(u)
       /\ src.sent <= src.made /\ Len(g) <= src.sent
       /\ \A i \in 1 .. Len(g) : g[i] = i
       /\ failure = "no" /\ u \notin watches
             /\ (x.handle \/ (x.act = "open" /\ x.pc = "wait" /\ x.reply = "opened")) =>
             ~src.open /\ Len(g) = src.made

(* The watch that is open in the session belongs to somebody.              *)
WatchHeld(u) ==
    failure = "no" /\ up /\ ~user[u].cancelled =>
       /\ Opening(u) => user[u].act = "open" /\ user[u].pc = "wait" /\ user[u].reply = "none"
       /\ source[u].open =>
             \/ user[u].handle \/ user[u].pc = "closing" \/ Closing(u) \/ Opened(u)
             \/ user[u].act = "close" /\ user[u].pc \in {"insert", "check", "write"}

OK(u) ==
    /\ UserOK(u)
    /\ u \in Pusher => PushOK(u) /\ PushHeld(u)
    /\ u \in Watcher => WatchOK(u) /\ WatchHeld(u)

IInv == Types /\ \A u \in User : OK(u)


-----------------------------------------------------------------------------
(* The steps of one user                                                   *)

(* The channel may begin to end, and the carrier may end.                  *)
Ends ==
    /\ failure' = failure \/ (failure = "no" /\ failure' = "set")
    /\ up' \in BOOLEAN /\ (up' => up)

(* Nothing of a user changes.                                              *)
Same(v) ==
    /\ user'[v] = user[v]
    /\ v \in pending' <=> v \in pending
    /\ v \in watches' <=> v \in watches
    /\ replies'[v] = replies[v]
    /\ v \in Watcher => source'[v] = source[v] /\ got'[v] = got[v]
    /\ v \in Pusher => push'[v] = push[v] /\ executed'[v] = executed[v]
    /\ Asked(v)' <=> Asked(v)
    /\ Opening(v)' <=> Opening(v)
    /\ Closing(v)' <=> Closing(v)
    /\ Sole(v)' <=> Sole(v)

(* A user of whom nothing changes stays as it was.                         *)
LEMMA FrameKept ==
    ASSUME NEW v, OK(v), Same(v), Ends
    PROVE  OK(v)'
<1>1. UserOK(v)'
  BY DEF OK, UserOK, Same, Ends
<1>2. ASSUME v \in Pusher PROVE PushOK(v)' /\ PushHeld(v)'
  <2>1. PushOK(v)'
    BY <1>2 DEF OK, PushOK, Same, Ends, Fresh, Out
  <2>2. PushHeld(v)'
    BY <1>2 DEF OK, PushHeld, Same, Ends, Opened
  <2> QED
    BY <2>1, <2>2
<1>3. ASSUME v \in Watcher PROVE WatchOK(v)' /\ WatchHeld(v)'
  <2>1. WatchOK(v)'
    BY <1>3 DEF OK, WatchOK, Same, Ends, Fresh
  <2>2. WatchHeld(v)'
    BY <1>3 DEF OK, WatchHeld, Same, Ends, Opened
  <2> QED
    BY <2>1, <2>2
<1> QED
  BY <1>1, <1>2, <1>3 DEF OK

-----------------------------------------------------------------------------
(* The requests under way                                                  *)

(* A request that is written is the last.                                  *)
LEMMA AppendedRequest ==
    ASSUME requests \in Seq(Request), NEW r \in Request, requests' = Append(requests, r)
    PROVE  /\ requests' \in Seq(Request)
           /\ \A v : v # r.key => /\ Asked(v)' <=> Asked(v)
                                  /\ Opening(v)' <=> Opening(v)
                                  /\ Closing(v)' <=> Closing(v)
                                  /\ Sole(v)' <=> Sole(v)
           /\ Asked(r.key)'
           /\ Opening(r.key)' <=> Opening(r.key) \/ r.act = "open"
           /\ Closing(r.key)' <=> Closing(r.key) \/ r.act = "close"
           /\ ~Asked(r.key) => Sole(r.key)'
<1> DEFINE n == Len(requests)
<1>1. /\ requests' \in Seq(Request) /\ n \in Nat /\ Len(requests') = n + 1
      /\ \A i \in 1 .. n : requests'[i] = requests[i]
      /\ requests'[n + 1] = r
  OBVIOUS
<1>2. \A i \in 1 .. n + 1 : i \in 1 .. n \/ i = n + 1
  BY <1>1
<1>3. n + 1 \in 1 .. n + 1 /\ \A i \in 1 .. n : i \in 1 .. n + 1
  BY <1>1
<1> HIDE DEF n
<1>4. ASSUME NEW v, v # r.key
      PROVE  /\ Asked(v)' <=> Asked(v)
             /\ Opening(v)' <=> Opening(v)
             /\ Closing(v)' <=> Closing(v)
             /\ Sole(v)' <=> Sole(v)
  <2>1. Asked(v)' <=> Asked(v)
    BY <1>1, <1>2, <1>3, <1>4 DEF Asked, n
  <2>2. Opening(v)' <=> Opening(v)
    BY <1>1, <1>2, <1>3, <1>4 DEF Opening, n
  <2>3. Closing(v)' <=> Closing(v)
    BY <1>1, <1>2, <1>3, <1>4 DEF Closing, n
  <2>4. Sole(v)' <=> Sole(v)
    BY <1>1, <1>2, <1>3, <1>4 DEF Sole, n
  <2> QED
    BY <2>1, <2>2, <2>3, <2>4
<1>5. Asked(r.key)'
  BY <1>1, <1>3 DEF Asked
<1>6. Opening(r.key)' <=> Opening(r.key) \/ r.act = "open"
  BY <1>1, <1>2, <1>3 DEF Opening, n
<1>7. Closing(r.key)' <=> Closing(r.key) \/ r.act = "close"
  BY <1>1, <1>2, <1>3 DEF Closing, n
<1>8. ~Asked(r.key) => Sole(r.key)'
  BY <1>1, <1>2, <1>3 DEF Asked, Sole, n
<1> QED
  BY <1>1, <1>4, <1>5, <1>6, <1>7, <1>8

(* The request that is served is the first.                                *)
LEMMA ServedRequest ==
    ASSUME requests \in Seq(Request), requests # <<>>, requests' = Tail(requests),
           NEW r, r = Head(requests)
    PROVE  /\ requests' \in Seq(Request) /\ r \in Request
           /\ \A v : v # r.key => /\ Asked(v)' <=> Asked(v)
                                  /\ Opening(v)' <=> Opening(v)
                                  /\ Closing(v)' <=> Closing(v)
                                  /\ Sole(v)' <=> Sole(v)
           /\ Asked(r.key)
           /\ r.act = "open" => Opening(r.key)
           /\ r.act = "close" => Closing(r.key)
           /\ Opening(r.key)' => Opening(r.key)
           /\ Opening(r.key) /\ r.act # "open" => Opening(r.key)'
           /\ Closing(r.key)' => Closing(r.key)
           /\ Closing(r.key) /\ r.act # "close" => Closing(r.key)'
           /\ Sole(r.key) => ~Asked(r.key)' /\ ~Opening(r.key)' /\ ~Closing(r.key)' /\ Sole(r.key)'
<1> DEFINE n == Len(requests)
<1>1. /\ requests' \in Seq(Request) /\ n \in Nat /\ n >= 1 /\ Len(requests') = n - 1
      /\ \A i \in 1 .. n - 1 : requests'[i] = requests[i + 1]
      /\ requests[1] = r
  OBVIOUS
<1>2. /\ \A i \in 1 .. n : i = 1 \/ (i - 1 \in 1 .. n - 1 /\ (i - 1) + 1 = i)
      /\ \A i \in 1 .. n - 1 : i + 1 \in 1 .. n /\ i + 1 # 1
      /\ \A i, j \in 1 .. n - 1 : i + 1 = j + 1 => i = j
      /\ \A i, j \in 1 .. n : i - 1 = j - 1 => i = j
      /\ 1 \in 1 .. n
  BY <1>1
<1> HIDE DEF n
<1>3. ASSUME NEW v, v # r.key
      PROVE  /\ Asked(v)' <=> Asked(v)
             /\ Opening(v)' <=> Opening(v)
             /\ Closing(v)' <=> Closing(v)
             /\ Sole(v)' <=> Sole(v)
  <2>0. \A i \in 1 .. n : requests[i].key = v => i - 1 \in 1 .. n - 1 /\ requests'[i - 1] = requests[i]
    BY <1>1, <1>2, <1>3
  <2>1. Asked(v)' <=> Asked(v)
    BY <1>1, <1>2, <2>0 DEF Asked, n
  <2>2. Opening(v)' <=> Opening(v)
    <3>1. ASSUME Opening(v) PROVE Opening(v)'
      <4>1. PICK i \in 1 .. n : requests[i].key = v /\ requests[i].act = "open"
        BY <3>1 DEF Opening, n
      <4> QED
        BY <4>1, <2>0, <1>1 DEF Opening
    <3>2. ASSUME Opening(v)' PROVE Opening(v)
      BY <3>2, <1>1, <1>2 DEF Opening, n
    <3> QED
      BY <3>1, <3>2
  <2>3. Closing(v)' <=> Closing(v)
    <3>1. ASSUME Closing(v) PROVE Closing(v)'
      <4>1. PICK i \in 1 .. n : requests[i].key = v /\ requests[i].act = "close"
        BY <3>1 DEF Closing, n
      <4> QED
        BY <4>1, <2>0, <1>1 DEF Closing
    <3>2. ASSUME Closing(v)' PROVE Closing(v)
      BY <3>2, <1>1, <1>2 DEF Closing, n
    <3> QED
      BY <3>1, <3>2
  <2>4. ASSUME Sole(v) PROVE Sole(v)'
    BY <1>1, <1>2, <2>4 DEF Sole, n
  <2>5. ASSUME Sole(v)' PROVE Sole(v)
    <3> SUFFICES ASSUME NEW i \in 1 .. n, NEW j \in 1 .. n, requests[i].key = v, requests[j].key = v
                 PROVE  i = j
      BY <1>1 DEF Sole, n
    <3>0. /\ i - 1 \in 1 .. n - 1 /\ requests'[i - 1].key = v
          /\ j - 1 \in 1 .. n - 1 /\ requests'[j - 1].key = v
      BY <2>0
    <3>1. i - 1 = j - 1
      BY <3>0, <2>5, <1>1 DEF Sole
    <3> QED
      BY <3>1, <1>2
  <2> QED
    BY <2>1, <2>2, <2>3, <2>4, <2>5
<1>4. Asked(r.key) /\ (r.act = "open" => Opening(r.key)) /\ (r.act = "close" => Closing(r.key))
  BY <1>1, <1>2 DEF Asked, Opening, Closing, n
<1>5. Opening(r.key)' => Opening(r.key)
  BY <1>1, <1>2 DEF Opening, n
<1>6. Closing(r.key)' => Closing(r.key)
  BY <1>1, <1>2 DEF Closing, n
<1>7. ASSUME Closing(r.key), r.act # "close" PROVE Closing(r.key)'
  <2>1. PICK i \in 1 .. n : requests[i].key = r.key /\ requests[i].act = "close"
    BY <1>7 DEF Closing, n
  <2>2. i - 1 \in 1 .. n - 1 /\ requests'[i - 1] = requests[i]
    BY <2>1, <1>1, <1>2, <1>7
  <2> QED
    BY <2>1, <2>2, <1>1 DEF Closing
<1>10. ASSUME Opening(r.key), r.act # "open" PROVE Opening(r.key)'
  <2>1. PICK i \in 1 .. n : requests[i].key = r.key /\ requests[i].act = "open"
    BY <1>10 DEF Opening, n
  <2>2. i - 1 \in 1 .. n - 1 /\ requests'[i - 1] = requests[i]
    BY <2>1, <1>1, <1>2, <1>10
  <2> QED
    BY <2>1, <2>2, <1>1 DEF Opening
<1>8. ASSUME Sole(r.key) PROVE ~Asked(r.key)' /\ ~Opening(r.key)' /\ ~Closing(r.key)' /\ Sole(r.key)'
  <2>1. ~Asked(r.key)'
    BY <1>1, <1>2, <1>8 DEF Asked, Sole, n
  <2> QED
    BY <2>1 DEF Asked, Opening, Closing, Sole
<1>9. r \in Request
  BY <1>1, <1>2 DEF n
<1> QED
  BY <1>1, <1>3, <1>4, <1>5, <1>6, <1>7, <1>8, <1>9, <1>10

(* Requests are left alone by most steps.                                  *)
LEMMA SameRequests ==
    ASSUME requests' = requests, NEW v
    PROVE  /\ Asked(v)' <=> Asked(v)
           /\ Opening(v)' <=> Opening(v)
           /\ Closing(v)' <=> Closing(v)
           /\ Sole(v)' <=> Sole(v)
BY DEF Asked, Opening, Closing, Sole

(* The frames of a source are sent after those that are under way.         *)
LEMMA FlushedSource ==
    ASSUME NEW src \in [Watcher -> Source], NEW v \in Watcher, NEW q \in Seq(Reply),
           NEW g \in Seq(Nat), src[v].sent <= src[v].made
    PROVE  LET qq == q \o Batch(src, v)
               ss == Flushed(src)[v]
           IN /\ qq \in Seq(Reply) /\ ss \in Source
              /\ q # <<>> => qq # <<>> /\ qq[1] = q[1]
              /\ ~src[v].open => qq = q /\ ss = src[v]
              /\ ss.open => src[v].open
              /\ ss.made = src[v].made /\ src[v].sent <= ss.sent /\ ss.sent <= ss.made
              /\ InOrder(q, src[v], g) => InOrder(qq, ss, g)
<1> DEFINE s == src[v]
           b == Batch(src, v)
           qq == q \o b
           ss == Flushed(src)[v]
<1>1. s \in Source
  OBVIOUS
<1>2. CASE ~Ready(src, v)
  <2>1. b = <<>> /\ ss = s
    BY <1>2 DEF Batch, Flushed
  <2>2. qq = q
    BY <2>1
  <2> QED
    BY <2>1, <2>2, <1>1 DEF Source
<1>3. CASE Ready(src, v)
  <2>1. /\ s.open /\ s.open \in BOOLEAN /\ s.made \in Nat /\ s.sent \in Nat /\ s.sent <= s.made
        /\ s.state \in {"live", "ended", "faulted"}
    BY <1>1, <1>3 DEF Ready, Source
  <2>2. /\ ss = [s EXCEPT !.sent = s.made, !.open = s.state = "live"]
        /\ b = Drained(src, v)
    BY <1>3 DEF Batch, Flushed
  <2>3. /\ ss.sent = s.made /\ ss.made = s.made /\ ss.state = s.state
        /\ ss.open <=> s.state = "live"
        /\ ss \in Source
    <3>1. s \in Source
      BY <2>1, <1>1
    <3>2. ss \in Source
      BY <2>2, <3>1 DEF Source
    <3>3. ss.sent = s.made /\ ss.made = s.made /\ ss.state = s.state
      BY <2>2, <3>1 DEF Source
    <3>4. ss.open = (s.state = "live")
      BY <2>2, <3>1 DEF Source
    <3> QED
      BY <3>2, <3>3, <3>4
  <2> DEFINE m == s.made - s.sent
             events == [n \in 1 .. m |-> Message("event", s.sent + n)]
  <2>4. m \in Nat
    BY <2>1
  <2> HIDE DEF m
  <2>5. /\ events \in Seq(Reply) /\ Len(events) = m
        /\ \A n \in 1 .. m : events[n].what = "event" /\ events[n].n = s.sent + n
    <3>1. \A n \in 1 .. m : Message("event", s.sent + n) \in Reply
      BY <2>1, <2>4 DEF Message, Reply, What
    <3>2. events \in [1 .. m -> Reply]
      BY <3>1
    <3>3. events \in Seq(Reply) /\ Len(events) = m
      BY <3>1, <2>4
    <3>4. \A n \in 1 .. m : events[n].what = "event" /\ events[n].n = s.sent + n
      BY DEF Message
    <3> QED
      BY <3>3, <3>4
  <2> HIDE DEF events
  <2>6. PICK last \in Seq(Reply) :
           /\ b = events \o last
           /\ s.state = "live" => last = <<>>
           /\ s.state # "live" => Len(last) = 1 /\ last[1].what \in {"closed", "error"}
    <3>1. CASE s.state = "live"
      <4>1. b = events \o <<>>
        BY <3>1, <2>2, <2>5 DEF Drained, events, m
      <4>2. <<>> \in Seq(Reply)
        OBVIOUS
      <4> QED
        BY <4>1, <4>2, <3>1
    <3>2. CASE s.state = "ended"
      <4>1. Message("closed", 0) \in Reply /\ Message("closed", 0).what = "closed"
        BY DEF Message, Reply, What
      <4>2. b = Append(events, Message("closed", 0))
        BY <3>2, <2>2 DEF Drained, events, m
      <4> DEFINE last == <<Message("closed", 0)>>
      <4>3. last \in Seq(Reply) /\ Len(last) = 1 /\ last[1].what \in {"closed", "error"}
        BY <4>1
      <4>4. b = events \o last
        BY <4>1, <4>2, <2>5
      <4> QED
        BY <4>3, <4>4, <3>2
    <3>3. CASE s.state = "faulted"
      <4>1. Message("error", 0) \in Reply /\ Message("error", 0).what = "error"
        BY DEF Message, Reply, What
      <4>2. b = Append(events, Message("error", 0))
        BY <3>3, <2>2 DEF Drained, events, m
      <4> DEFINE last == <<Message("error", 0)>>
      <4>3. last \in Seq(Reply) /\ Len(last) = 1 /\ last[1].what \in {"closed", "error"}
        BY <4>1
      <4>4. b = events \o last
        BY <4>1, <4>2, <2>5
      <4> QED
        BY <4>3, <4>4, <3>3
    <3> QED
      BY <3>1, <3>2, <3>3, <2>1
  <2>7. /\ b \in Seq(Reply) /\ Len(b) = m + Len(last) /\ Len(last) \in Nat
        /\ \A i \in 1 .. m : b[i] = events[i]
        /\ \A i \in m + 1 .. Len(b) : b[i] = last[i - m]
    <3>1. /\ b \in Seq(Reply) /\ Len(b) = m + Len(last)
          /\ \A i \in 1 .. m + Len(last) : b[i] = IF i <= m THEN events[i] ELSE last[i - m]
      <4>1. /\ events \o last \in Seq(Reply) /\ Len(events \o last) = Len(events) + Len(last)
            /\ \A i \in 1 .. Len(events) + Len(last) :
                  (events \o last)[i] = IF i <= Len(events) THEN events[i] ELSE last[i - Len(events)]
        BY <2>5, ConcatProperties
      <4> HIDE DEF b
      <4> QED
        BY <4>1, <2>5, <2>6
    <3>2. Len(last) \in Nat
      OBVIOUS
    <3> HIDE DEF b
    <3> QED
      BY <3>1, <3>2, <2>4
  <2> HIDE DEF b
  <2>8. /\ qq \in Seq(Reply) /\ Len(qq) = Len(q) + Len(b)
        /\ \A i \in 1 .. Len(q) : qq[i] = q[i]
        /\ \A i \in Len(q) + 1 .. Len(qq) : qq[i] = b[i - Len(q)]
    <3>1. /\ qq \in Seq(Reply) /\ Len(qq) = Len(q) + Len(b)
          /\ \A i \in 1 .. Len(q) + Len(b) : qq[i] = IF i <= Len(q) THEN q[i] ELSE b[i - Len(q)]
      BY <2>7, ConcatProperties
    <3>2. Len(q) \in Nat /\ Len(b) \in Nat
      BY <2>7
    <3> HIDE DEF qq
    <3> QED
      BY <3>1, <3>2
  <2>9. q # <<>> => qq # <<>> /\ qq[1] = q[1]
    BY <2>8
  <2> HIDE DEF qq, s, ss
  <2>10. ASSUME InOrder(q, s, g) PROVE InOrder(qq, ss, g)
    <3> DEFINE k == IF q # <<>> /\ q[1].what = "opened" THEN 1 ELSE 0
               d == s.sent - Len(g)
    <3>a. k \in {0, 1} /\ d \in Nat /\ Len(q) = k + d /\ Len(g) \in Nat /\ s.sent = Len(g) + d
      <4>1. s.open /\ s.sent \in Nat /\ Len(g) \in Nat
        BY <2>1
      <4>2. d >= 0 /\ (s.open => Len(q) = k + d)
        BY <2>10 DEF InOrder
      <4>3. k \in {0, 1}
        OBVIOUS
      <4> HIDE DEF k
      <4> QED
        BY <4>1, <4>2, <4>3
    <3>b. \A i \in 1 .. Len(q) :
             /\ q[i].what = "event" <=> k < i
             /\ q[i].what = "event" => q[i].n = Len(g) + i - k
             /\ q[i].what = "opened" => i = 1
             /\ q[i].what # "closed"
      BY <2>10, <2>1, SMTT(30) DEF InOrder
    <3> HIDE DEF k, d
    <3>c. /\ Len(q) \in Nat /\ Len(last) \in Nat /\ Len(b) = m + Len(last)
          /\ Len(qq) = Len(q) + (m + Len(last))
      BY <2>7, <2>8
    <3>d. \A i \in 1 .. Len(q) : qq[i] = q[i]
      BY <2>8
    <3>e. \A i \in Len(q) + 1 .. Len(qq) : qq[i] = b[i - Len(q)]
      BY <2>8
    <3>2. ASSUME NEW i \in 1 .. m
          PROVE  /\ qq[Len(q) + i].what = "event" /\ qq[Len(q) + i].n = s.sent + i
                 /\ Len(q) + i <= Len(qq)
      <4>1. Len(q) + i \in Len(q) + 1 .. Len(qq) /\ (Len(q) + i) - Len(q) = i
        BY <3>c, <2>4
      <4>2. qq[Len(q) + i] = b[i]
        BY <4>1, <3>e
      <4>3. b[i].what = "event" /\ b[i].n = s.sent + i
        BY <2>7, <2>5
      <4> QED
        BY <4>1, <4>2, <4>3, <3>c
    <3>3. ASSUME s.state # "live"
          PROVE  /\ Len(qq) = Len(q) + m + 1
                 /\ qq[Len(q) + m + 1].what \in {"closed", "error"}
      <4>1. Len(qq) = Len(q) + m + 1 /\ Len(b) = m + 1
        <5>1. Len(last) = 1
          BY <3>3, <2>6
        <5> QED
          BY <5>1, <3>c, <2>4
      <4>2. m + 1 \in m + 1 .. Len(b) /\ (m + 1) - m = 1
        BY <4>1, <2>4
      <4>3. b[m + 1] = last[1]
        BY <4>2, <2>7
      <4>4. Len(q) + m + 1 \in Len(q) + 1 .. Len(qq) /\ (Len(q) + m + 1) - Len(q) = m + 1
        BY <4>1, <2>4, <3>c
      <4>5. qq[Len(q) + m + 1] = b[m + 1]
        BY <4>4, <3>e
      <4> QED
        BY <4>1, <4>3, <4>5, <3>3, <2>6
    <3>4. s.state = "live" => Len(qq) = Len(q) + m
      <4>1. s.state = "live" => Len(last) = 0
        BY <2>6
      <4> QED
        BY <4>1, <3>c, <2>4
    <3>5. ASSUME NEW i \in 1 .. Len(qq)
          PROVE  i \in 1 .. Len(q) \/ (\E j \in 1 .. m : i = Len(q) + j)
                   \/ (s.state # "live" /\ i = Len(q) + m + 1)
      <4>1. i \in 1 .. Len(q) \/ i - Len(q) \in 1 .. m \/ (s.state # "live" /\ i = Len(q) + m + 1)
        <5>1. CASE s.state = "live"
          BY <5>1, <3>4, <3>c, <2>4
        <5>2. CASE s.state # "live"
          <6>1. Len(qq) = Len(q) + m + 1
            BY <5>2, <3>3
          <6> QED
            BY <5>2, <6>1, <3>c, <2>4
        <5> QED
          BY <5>1, <5>2
      <4>2. i = Len(q) + (i - Len(q))
        BY <3>c
      <4> QED
        BY <4>1, <4>2
    <3> DEFINE kk == IF qq # <<>> /\ qq[1].what = "opened" THEN 1 ELSE 0
    <3>6. kk = k
      <4>1. CASE q # <<>>
        BY <4>1, <2>9 DEF k
      <4>2. CASE q = <<>>
        <5>1. Len(q) = 0
          BY <4>2
        <5>2. CASE qq = <<>>
          BY <5>2, <4>2 DEF k
        <5>3. CASE qq # <<>>
          <6>1. 1 \in 1 .. Len(qq)
            BY <5>3, <2>8
          <6>2. qq[1].what # "opened"
            <7>1. CASE \E j \in 1 .. m : 1 = Len(q) + j
              BY <7>1, <3>2
            <7>2. CASE s.state # "live" /\ 1 = Len(q) + m + 1
              BY <7>2, <3>3
            <7> QED
              BY <7>1, <7>2, <3>5, <6>1, <5>1
          <6> QED
            BY <6>2, <4>2 DEF k
        <5> QED
          BY <5>2, <5>3
      <4> QED
        BY <4>1, <4>2
    <3>7. ss.sent - Len(g) = d + m
      <4>1. ss.sent = s.made
        BY <2>3
      <4> QED
        BY <4>1, <2>1, <3>a DEF m
    <3> HIDE DEF kk
    <3>8. ASSUME NEW i \in 1 .. Len(qq)
          PROVE  /\ qq[i].what = "event" <=> k < i /\ i <= k + (d + m)
                 /\ qq[i].what = "event" => qq[i].n = Len(g) + i - k
                 /\ qq[i].what = "opened" => i = 1
                 /\ qq[i].what = "closed" => ~ss.open /\ ss.sent = ss.made
      <4>1. CASE i \in 1 .. Len(q)
        <5>1. qq[i] = q[i] /\ i <= k + d
          BY <4>1, <3>d, <3>a
        <5>2. i <= k + (d + m)
          BY <5>1, <3>a, <2>4
        <5> QED
          BY <5>1, <5>2, <4>1, <3>b
      <4>2. CASE \E j \in 1 .. m : i = Len(q) + j
        <5>1. PICK j \in 1 .. m : i = Len(q) + j
          BY <4>2
        <5>2. qq[i].what = "event" /\ qq[i].n = s.sent + j
          BY <5>1, <3>2
        <5>3. s.sent + j = Len(g) + i - k /\ k < i /\ i <= k + (d + m)
          BY <5>1, <3>a, <2>1, <2>4
        <5> QED
          BY <5>2, <5>3
      <4>3. CASE s.state # "live" /\ i = Len(q) + m + 1
        <5>1. qq[i].what \in {"closed", "error"}
          BY <4>3, <3>3
        <5>2. ~(i <= k + (d + m))
          BY <4>3, <3>a, <2>4
        <5> QED
          BY <5>1, <5>2, <4>3, <2>3
      <4> QED
        BY <3>5, <4>1, <4>2, <4>3
    <3>9. d + m >= 0 /\ Len(qq) >= k + (d + m) /\ (ss.open => Len(qq) = k + (d + m))
      <4>1. ss.open => s.state = "live"
        BY <2>3
      <4>2. Len(qq) >= Len(q) + m
        BY <3>c, <2>4
      <4> QED
        BY <3>a, <3>4, <4>1, <4>2, <2>4
    <3> QED
      BY <3>6, <3>7, <3>8, <3>9 DEF InOrder, kk
  <2> QED
    BY <2>1, <2>3, <2>8, <2>9, <2>10 DEF qq, b, s, ss
<1> QED
  BY <1>2, <1>3

-----------------------------------------------------------------------------
(* The exchanges of the calling node                                       *)

(* A step of one user on its own entries of the tables.                    *)
Solo(u, y) ==
    /\ user' = [user EXCEPT ![u] = y]
    /\ pending' \subseteq User /\ watches' \subseteq Watcher
    /\ \A v : v # u => (v \in pending' <=> v \in pending) /\ (v \in watches' <=> v \in watches)
    /\ failure' = failure \/ (failure = "no" /\ failure' = "set")
    /\ UNCHANGED <<up, requests, calls, replies, source, push, got, executed>>

(* What such a step leaves alone of the user itself.                       *)
Here(u, y) ==
    /\ user'[u] = y
    /\ failure' = failure \/ (failure = "no" /\ failure' = "set")
    /\ up' = up
    /\ replies'[u] = replies[u]
    /\ source'[u] = source[u] /\ got'[u] = got[u]
    /\ push'[u] = push[u] /\ executed'[u] = executed[u]
    /\ Asked(u)' <=> Asked(u)
    /\ Opening(u)' <=> Opening(u)
    /\ Closing(u)' <=> Closing(u)
    /\ Sole(u)' <=> Sole(u)

(* The view of the user that takes the step.                               *)
LEMMA SoloHere ==
    ASSUME IInv, NEW u \in User, NEW y \in UserState, Solo(u, y)
    PROVE  Here(u, y)
<1>1. user'[u] = y
  BY DEF IInv, Types, Solo
<1>2. requests' = requests
  BY DEF Solo
<1> QED
  BY <1>1, <1>2, SameRequests DEF Solo, Here

(* Such a step is good when it is good for the user.                       *)
LEMMA SoloKept ==
    ASSUME IInv, NEW u \in User, NEW y \in UserState, Solo(u, y), OK(u)'
    PROVE  IInv'
<1>1. Types'
  BY DEF IInv, Types, Solo
<1>2. ASSUME NEW v \in User, v # u PROVE OK(v)'
  <2>1. user'[v] = user[v]
    BY <1>2 DEF IInv, Types, Solo
  <2>2. requests' = requests
    BY DEF Solo
  <2>3. Same(v)
    BY <1>2, <2>1, <2>2, SameRequests DEF Same, Solo
  <2>4. Ends
    BY DEF IInv, Types, Solo, Ends
  <2> QED
    BY <2>3, <2>4, FrameKept DEF IInv
<1> QED
  BY <1>1, <1>2 DEF IInv

(* The fields of an exchange that is over.                                 *)
LEMMA AfterFields ==
    ASSUME NEW v \in UserState, NEW reply
    PROVE  /\ After(v, reply) \in UserState
           /\ After(v, reply).act = "none" /\ After(v, reply).reply = "none"
           /\ After(v, reply).pc = IF v.act \in {"call", "close"} \/ (v.act = "open" /\ reply # "opened")
                                   THEN "done" ELSE "rest"
           /\ After(v, reply).handle <=> v.handle \/ (v.act = "open" /\ reply = "opened")
           /\ After(v, reply).cancelled = v.cancelled
           /\ reply = "accepted" => After(v, reply).accepted = v.accepted + 1
           /\ reply # "accepted" => After(v, reply).accepted = v.accepted
<1> DEFINE opened == v.act = "open" /\ reply = "opened"
           over == v.act \in {"call", "close"} \/ (v.act = "open" /\ ~opened)
           pc == IF over THEN "done" ELSE "rest"
           handle == v.handle \/ opened
           accepted == v.accepted + IF reply = "accepted" THEN 1 ELSE 0
           r == [v EXCEPT !.pc = pc, !.act = "none", !.reply = "none", !.handle = handle, !.accepted = accepted]
<1>1. After(v, reply) = r
  BY DEF After
<1>2. pc \in {"done", "rest"} /\ handle \in BOOLEAN /\ accepted \in Nat
  BY DEF UserState
<1>3. pc = IF v.act \in {"call", "close"} \/ (v.act = "open" /\ reply # "opened") THEN "done" ELSE "rest"
  OBVIOUS
<1>4. /\ reply = "accepted" => accepted = v.accepted + 1
      /\ reply # "accepted" => accepted = v.accepted
  BY DEF UserState
<1>5. handle <=> v.handle \/ (v.act = "open" /\ reply = "opened")
  OBVIOUS
<1> HIDE DEF pc, handle, accepted
<1>6. r.act = "none" /\ r.reply = "none" /\ r.pc = pc /\ r.handle = handle /\ r.accepted = accepted
      /\ r.cancelled = v.cancelled
  BY DEF UserState
<1>7. r \in UserState
  BY <1>2 DEF UserState, Pc, Act
<1> HIDE DEF r
<1> QED
  BY <1>1, <1>2, <1>3, <1>4, <1>5, <1>6, <1>7

(* An exchange enters its key.                                             *)
LEMMA EnteredKept ==
    ASSUME IInv, NEW u \in User, NEW y \in UserState, Solo(u, y), failure' = failure,
           u \notin pending, u \in pending', watches' = watches,
           \/ user[u].pc = "new" /\ u \notin Watcher /\ y.act \in {"call", "open"} /\ y.handle = user[u].handle
           \/ user[u].pc = "rest" /\ user[u].handle /\ u \notin Watcher
                /\ ((y.act = "item" /\ y.handle) \/ (y.act = "close" /\ ~y.handle))
           \/ user[u].pc = "insert" /\ y.act = user[u].act /\ y.handle = user[u].handle,
           y.pc = "check", y.reply = user[u].reply, y.accepted = user[u].accepted,
           y.cancelled = user[u].cancelled
    PROVE  IInv'
<1>1. Here(u, y) /\ OK(u) /\ user[u] \in UserState /\ (u \in watches => u \in Watcher)
  BY SoloHere DEF IInv, Types
<1>2. UserOK(u)'
  BY <1>1 DEF OK, Here, UserOK, WatchOK
<1>3. ASSUME u \in Pusher PROVE PushOK(u)'
  BY <1>1, <1>3 DEF OK, Here, UserOK, PushOK, Fresh, Out
<1>4. ASSUME u \in Pusher PROVE PushHeld(u)'
  BY <1>1, <1>4 DEF OK, Here, UserOK, PushOK, PushHeld, Fresh, Out, Opened
<1>5. ASSUME u \in Watcher PROVE WatchOK(u)'
  BY <1>1, <1>5 DEF OK, Here, UserOK, WatchOK, Fresh
<1>6. ASSUME u \in Watcher PROVE WatchHeld(u)'
  BY <1>1, <1>6 DEF OK, Here, UserOK, WatchHeld, WatchOK, Fresh, Opened
<1>7. OK(u)'
  BY <1>2, <1>3, <1>4, <1>5, <1>6 DEF OK
<1> QED
  BY <1>7, SoloKept

(* A key that is in flight refuses the exchange.                           *)
LEMMA RefusedKept ==
    ASSUME IInv, NEW u \in User, NEW y \in UserState, Solo(u, y), failure' = failure,
           u \in pending, u \in pending', NEW a,
           \/ user[u].pc = "new" /\ u \notin Watcher /\ a \in {"call", "open"}
           \/ user[u].pc = "rest" /\ u \notin Watcher /\ a \in {"item", "close"}
           \/ user[u].pc = "insert" /\ a = user[u].act,
           u \in watches' <=> u \in watches /\ a # "open",
           y.act = "none", y.reply = "none", y.pc = IF a = "item" THEN "rest" ELSE "done",
           y.handle <=> user[u].handle /\ a = "item",
           y.accepted = user[u].accepted, y.cancelled = user[u].cancelled
    PROVE  IInv'
<1>1. Here(u, y) /\ OK(u) /\ user[u] \in UserState /\ (u \in watches => u \in Watcher)
  BY SoloHere DEF IInv, Types
<1>2. UserOK(u)'
  BY <1>1 DEF OK, Here, UserOK, WatchOK
<1>3. ASSUME u \in Pusher PROVE PushOK(u)'
  BY <1>1, <1>3 DEF OK, Here, UserOK, PushOK, Fresh, Out
<1>4. ASSUME u \in Pusher PROVE PushHeld(u)'
  BY <1>1, <1>4 DEF OK, Here, UserOK, PushHeld
<1>5. ASSUME u \in Watcher PROVE WatchOK(u)'
  BY <1>1, <1>5 DEF OK, Here, UserOK, WatchOK, Fresh
<1>6. ASSUME u \in Watcher PROVE WatchHeld(u)'
  BY <1>1, <1>6 DEF OK, Here, UserOK, WatchHeld
<1>7. OK(u)'
  BY <1>2, <1>3, <1>4, <1>5, <1>6 DEF OK
<1> QED
  BY <1>7, SoloKept

(* An exchange that finds the channel failed takes its key back.           *)
LEMMA TakenBackKept ==
    ASSUME IInv, NEW u \in User, NEW y \in UserState, Solo(u, y), failure' = failure,
           (user[u].pc = "check" /\ failure # "no") \/ user[u].pc \in {"ending", "failed"},
           pending' = pending \ {u},
           u \in watches' <=> u \in watches /\ user[u].act # "open",
           y = After(user[u], "error")
    PROVE  IInv'
<1>1. /\ Here(u, y) /\ OK(u) /\ user[u] \in UserState /\ (u \in watches => u \in Watcher)
      /\ u \notin pending'
  BY SoloHere DEF IInv, Types
<1>a. /\ y.act = "none" /\ y.reply = "none"
      /\ y.pc = IF user[u].act \in {"call", "close", "open"} THEN "done" ELSE "rest"
      /\ y.handle <=> user[u].handle
      /\ y.cancelled = user[u].cancelled /\ y.accepted = user[u].accepted
  BY <1>1, AfterFields
<1>2. UserOK(u)'
  BY <1>1, <1>a DEF OK, Here, UserOK, WatchOK
<1>3. ASSUME u \in Pusher PROVE PushOK(u)'
  BY <1>1, <1>a, <1>3 DEF OK, Here, UserOK, PushOK, Fresh, Out
<1>4. ASSUME u \in Pusher PROVE PushHeld(u)'
  BY <1>1, <1>a, <1>4 DEF OK, Here, UserOK, PushHeld
<1>5. ASSUME u \in Watcher PROVE WatchOK(u)'
  <2>1. Opening(u) => Asked(u)
    BY DEF Opening, Asked
  <2> QED
    BY <1>1, <1>a, <1>5, <2>1 DEF OK, Here, UserOK, WatchOK, Fresh
<1>6. ASSUME u \in Watcher PROVE WatchHeld(u)'
  BY <1>1, <1>a, <1>6 DEF OK, Here, UserOK, WatchHeld
<1>7. OK(u)'
  BY <1>2, <1>3, <1>4, <1>5, <1>6 DEF OK
<1> QED
  BY <1>7, SoloKept

(* A waiting exchange has its reply.                                       *)
LEMMA ResumedKept ==
    ASSUME IInv, NEW u \in User, NEW y \in UserState, Solo(u, y), failure' = failure,
           user[u].pc = "wait", user[u].reply # "none", pending' = pending,
           u \in watches' <=> u \in watches /\ (user[u].act = "open" => user[u].reply = "opened"),
           y = After(user[u], user[u].reply)
    PROVE  IInv'
<1>1. Here(u, y) /\ OK(u) /\ user[u] \in UserState /\ (u \in watches => u \in Watcher)
  BY SoloHere DEF IInv, Types
<1>a. /\ y.act = "none" /\ y.reply = "none"
      /\ y.pc = IF user[u].act \in {"call", "close"} \/ (user[u].act = "open" /\ user[u].reply # "opened")
                THEN "done" ELSE "rest"
      /\ y.handle <=> user[u].handle \/ (user[u].act = "open" /\ user[u].reply = "opened")
      /\ y.cancelled = user[u].cancelled
  BY <1>1, AfterFields
<1>b. /\ user[u].reply = "accepted" => y.accepted = user[u].accepted + 1
      /\ user[u].reply # "accepted" => y.accepted = user[u].accepted
  BY <1>1, AfterFields
<1>2. UserOK(u)'
  BY <1>1, <1>a DEF OK, Here, UserOK, WatchOK
<1>3. ASSUME u \in Pusher PROVE PushOK(u)'
  <2>1. user[u].accepted \in Nat /\ Len(executed[u]) \in Nat
    BY <1>1, <1>3 DEF IInv, Types, UserState
  <2> QED
    BY <1>1, <1>a, <1>b, <1>3, <2>1 DEF OK, Here, UserOK, PushOK, Fresh, Out
<1>4. ASSUME u \in Pusher PROVE PushHeld(u)'
  BY <1>1, <1>a, <1>4 DEF OK, Here, UserOK, PushHeld, Opened
<1>5. ASSUME u \in Watcher PROVE WatchOK(u)'
  BY <1>1, <1>a, <1>5 DEF OK, Here, UserOK, WatchOK, Fresh
<1>6. ASSUME u \in Watcher PROVE WatchHeld(u)'
  BY <1>1, <1>a, <1>6 DEF OK, Here, UserOK, WatchHeld, Opened
<1>7. OK(u)'
  BY <1>2, <1>3, <1>4, <1>5, <1>6 DEF OK
<1> QED
  BY <1>7, SoloKept

(* The other steps of an exchange that leave the session alone.            *)
LEMMA MovedKept ==
    ASSUME IInv, NEW u \in User, NEW y \in UserState, Solo(u, y), pending' = pending,
           \/ \* Check
              /\ user[u].pc = "check" /\ failure = "no" /\ failure' = "no" /\ watches' = watches
              /\ y.pc = "write" /\ y.act = user[u].act /\ y.handle = user[u].handle
              /\ y.reply = user[u].reply /\ y.cancelled = user[u].cancelled
           \/ \* WriteFails
              /\ user[u].pc = "write" /\ failure' # "no" /\ watches' = watches
              /\ y.pc \in {"ending", "failed"} /\ y.act = user[u].act /\ y.handle = user[u].handle
              /\ y.reply = user[u].reply /\ y.cancelled = user[u].cancelled
           \/ \* Cancel
              /\ user[u].pc \in {"write", "wait"} /\ failure' = failure /\ watches' = watches
              /\ y.pc = IF user[u].act = "item" THEN "rest" ELSE "done"
              /\ y.act = "none" /\ y.handle = user[u].handle /\ y.reply = "none" /\ y.cancelled
           \/ \* OpenWatch
              /\ u \in Watcher /\ user[u].pc = "new" /\ failure' = failure /\ watches' = watches \cup {u}
              /\ y.pc = "insert" /\ y.act = "open" /\ y.handle = user[u].handle
              /\ y.reply = user[u].reply /\ y.cancelled = user[u].cancelled
           \/ \* CloseWatch
              /\ u \in Watcher /\ user[u].pc = "closing" /\ failure' = failure /\ watches' = watches \ {u}
              /\ y.pc = "insert" /\ y.act = "close" /\ y.handle = user[u].handle
              /\ y.reply = user[u].reply /\ y.cancelled = user[u].cancelled
           \/ \* DropStream
              /\ u \in Watcher /\ user[u].pc = "rest" /\ user[u].handle /\ watches' = watches
              /\ (y.pc = "closing" /\ failure' = failure) \/ (y.pc = "done" /\ failure' # "no")
              /\ y.act = user[u].act /\ ~y.handle
              /\ y.reply = user[u].reply /\ y.cancelled = user[u].cancelled,
           y.accepted = user[u].accepted
    PROVE  IInv'
<1>1. Here(u, y) /\ OK(u) /\ user[u] \in UserState /\ (u \in watches => u \in Watcher)
  BY SoloHere DEF IInv, Types
<1>2. UserOK(u)'
  <2>1. failure \in {"no", "set", "drained", "cleared"}
    BY DEF IInv, Types
  <2> QED
    BY <1>1, <2>1 DEF OK, Here, UserOK, WatchOK
<1>3. ASSUME u \in Pusher PROVE PushOK(u)'
  <2>1. u \notin Watcher
    BY <1>3, LinkAssumption
  <2> QED
    BY <1>1, <1>3, <2>1 DEF OK, Here, UserOK, PushOK, Fresh, Out
<1>4. ASSUME u \in Pusher PROVE PushHeld(u)'
  <2>1. u \notin Watcher
    BY <1>4, LinkAssumption
  <2> QED
    BY <1>1, <1>4, <2>1 DEF OK, Here, UserOK, PushHeld, Opened
<1>5. ASSUME u \in Watcher PROVE WatchOK(u)'
  <2>1. (Opening(u) => Asked(u)) /\ (Closing(u) => Asked(u))
    BY DEF Opening, Closing, Asked
  <2>2. InOrder(<<>>, Closed, <<>>)
    BY DEF InOrder, Closed
  <2>3. InOrder(replies'[u], source'[u], got'[u]) <=> InOrder(replies[u], source[u], got[u])
    BY <1>1 DEF Here
  <2> QED
    BY <1>1, <1>5, <2>1, <2>2, <2>3 DEF OK, Here, UserOK, WatchOK, Fresh
<1>6. ASSUME u \in Watcher PROVE WatchHeld(u)'
  BY <1>1, <1>6 DEF OK, Here, UserOK, WatchHeld, WatchOK, Fresh, Opened
<1>7. OK(u)'
  BY <1>2, <1>3, <1>4, <1>5, <1>6 DEF OK
<1> QED
  BY <1>7, SoloKept

(* A call, and the exchanges of a push.                                    *)
LEMMA BeginKept ==
    ASSUME IInv, NEW u \in User, NEW act, Begin(u, act), u \notin Watcher,
           \/ user[u].pc = "new" /\ act \in {"call", "open"}
           \/ user[u].pc = "rest" /\ user[u].handle /\ act \in {"item", "close"}
    PROVE  IInv'
<1> DEFINE x == user[u]
           next == x.next + IF act = "item" THEN 1 ELSE 0
           handle == x.handle /\ act # "close"
           z == [x EXCEPT !.act = act, !.next = next, !.handle = handle]
           y == [z EXCEPT !.pc = "check"]
           w == After(z, "error")
<1>1. x \in UserState /\ pending \subseteq User /\ watches \subseteq Watcher /\ user \in [User -> UserState]
  BY DEF IInv, Types
<1>2. next \in Nat /\ handle \in BOOLEAN /\ (handle <=> x.handle /\ act # "close")
  BY <1>1 DEF UserState
<1> HIDE DEF next, handle
<1>3. act \in Act
  BY DEF Act
<1>4. /\ z \in UserState /\ z.act = act /\ z.handle = handle
      /\ z.reply = x.reply /\ z.accepted = x.accepted /\ z.cancelled = x.cancelled
  BY <1>1, <1>2, <1>3 DEF UserState
<1>5. Enter(u, z)
  BY DEF Begin, next, handle
<1> HIDE DEF z
<1>6. y \in UserState /\ y.pc = "check" /\ y.act = act /\ y.handle = handle
      /\ y.reply = x.reply /\ y.accepted = x.accepted /\ y.cancelled = x.cancelled
  BY <1>4 DEF UserState, Pc
<1>7. /\ w \in UserState /\ w.act = "none" /\ w.reply = "none"
      /\ w.pc = IF act \in {"call", "close", "open"} THEN "done" ELSE "rest"
      /\ w.handle <=> handle
      /\ w.accepted = x.accepted /\ w.cancelled = x.cancelled
  BY <1>4, AfterFields
<1>8. CASE u \notin pending
  <2>1. /\ user' = [user EXCEPT ![u] = y] /\ pending' = pending \cup {u} /\ watches' = watches
        /\ failure' = failure
    BY <1>5, <1>8 DEF Enter, Begin
  <2> HIDE DEF y
  <2>2. Solo(u, y)
    BY <2>1, <1>1 DEF Begin, session, Solo
  <2> QED
    BY <2>1, <2>2, <1>2, <1>6, <1>8, <1>1, EnteredKept DEF UserState
<1>9. CASE u \in pending
  <2>1. /\ user' = [user EXCEPT ![u] = w] /\ pending' = pending /\ watches' = watches
        /\ failure' = failure
    BY <1>5, <1>9 DEF Enter, Begin
  <2> HIDE DEF w, y
  <2>2. Solo(u, w)
    BY <2>1, <1>1 DEF Begin, session, Solo
  <2>3. w.pc = IF act = "item" THEN "rest" ELSE "done"
    BY <1>7
  <2>4. x.pc = "new" => ~x.handle
    BY DEF IInv, OK, UserOK
  <2>5. w.handle <=> x.handle /\ act = "item"
    BY <1>2, <1>7, <2>4
  <2> QED
    BY <2>1, <2>2, <2>3, <2>5, <1>7, <1>9, <1>1, RefusedKept
<1> QED
  BY <1>8, <1>9

(* A watch enters its key after its stream.                                *)
LEMMA InsertKept ==
    ASSUME IInv, NEW u \in User, Insert(u)
    PROVE  IInv'
<1> DEFINE x == user[u]
           y == [x EXCEPT !.pc = "check"]
           w == After(x, "error")
<1>1. x \in UserState /\ pending \subseteq User /\ watches \subseteq Watcher /\ user \in [User -> UserState]
  BY DEF IInv, Types
<1>2. x.pc = "insert" /\ u \in Watcher /\ x.act \in {"open", "close"}
  BY DEF IInv, OK, UserOK, Insert
<1>3. y \in UserState /\ y.pc = "check" /\ y.act = x.act /\ y.handle = x.handle
      /\ y.reply = x.reply /\ y.accepted = x.accepted /\ y.cancelled = x.cancelled
  BY <1>1 DEF UserState, Pc
<1>4. /\ w \in UserState /\ w.act = "none" /\ w.reply = "none" /\ w.pc = "done"
      /\ w.handle <=> x.handle
      /\ w.accepted = x.accepted /\ w.cancelled = x.cancelled
  BY <1>1, <1>2, AfterFields
<1>5. CASE u \notin pending
  <2>1. /\ user' = [user EXCEPT ![u] = y] /\ pending' = pending \cup {u} /\ watches' = watches
        /\ failure' = failure
    BY <1>5 DEF Enter, Insert
  <2> HIDE DEF y
  <2>2. Solo(u, y)
    BY <2>1, <1>1 DEF Insert, session, Solo
  <2> QED
    BY <2>1, <2>2, <1>2, <1>3, <1>5, EnteredKept
<1>6. CASE u \in pending
  <2>1. /\ user' = [user EXCEPT ![u] = w] /\ pending' = pending /\ failure' = failure
        /\ watches' = IF x.act = "open" THEN watches \ {u} ELSE watches
    BY <1>2, <1>6 DEF Enter, Insert, Unregister
  <2> HIDE DEF w
  <2>2. Solo(u, w)
    BY <2>1, <1>1 DEF Insert, session, Solo
  <2>3. x.handle => x.act \notin {"open", "close"}
    BY DEF IInv, OK, UserOK
  <2> QED
    BY <2>1, <2>2, <2>3, <1>2, <1>4, <1>6, RefusedKept
<1> QED
  BY <1>5, <1>6

(* The tables after an exchange is over.                                   *)
LEMMA Returned ==
    ASSUME IInv, NEW u \in User, NEW reply, Return(u, reply), pending' \in SUBSET User,
           \A v : v # u => (v \in pending' <=> v \in pending),
           UNCHANGED <<failure, up, requests, calls, replies, session, got>>
    PROVE  /\ After(user[u], reply) \in UserState
           /\ Solo(u, After(user[u], reply))
           /\ u \in watches' <=> u \in watches /\ (user[u].act = "open" => reply = "opened")
<1>1. /\ user[u] \in UserState /\ watches \subseteq Watcher /\ user \in [User -> UserState]
  BY DEF IInv, Types
<1>2. After(user[u], reply) \in UserState
  BY <1>1, AfterFields
<1>3. watches' = watches \/ watches' = watches \ {u}
  BY DEF Return, Unregister
<1>4. u \in watches' <=> u \in watches /\ (user[u].act = "open" => reply = "opened")
  BY <1>1 DEF Return, Unregister
<1>5. Solo(u, After(user[u], reply))
  BY <1>1, <1>3 DEF Return, Solo, session
<1> QED
  BY <1>2, <1>4, <1>5

(* The exchange whose write failed takes its key back.                     *)
LEMMA TakeBackKept ==
    ASSUME IInv, NEW u \in User, TakeBack(u)
    PROVE  IInv'
<1>1. /\ pending' = pending \ {u} /\ pending' \in SUBSET User /\ failure' = failure
      /\ user[u].pc \in {"ending", "failed"} /\ Return(u, "error")
      /\ UNCHANGED <<failure, up, requests, calls, replies, session, got>>
  BY DEF IInv, Types, TakeBack
<1>2. \A v : v # u => (v \in pending' <=> v \in pending)
  BY <1>1
<1>3. /\ After(user[u], "error") \in UserState
      /\ Solo(u, After(user[u], "error"))
      /\ u \in watches' <=> u \in watches /\ (user[u].act = "open" => "error" = "opened")
  BY <1>1, <1>2, Returned
<1> QED
  BY <1>1, <1>3, TakenBackKept

(* The waiting exchange goes on with its reply.                            *)
LEMMA ResumeKept ==
    ASSUME IInv, NEW u \in User, Resume(u)
    PROVE  IInv'
<1>1. /\ pending' = pending /\ pending' \in SUBSET User /\ failure' = failure
      /\ user[u].pc = "wait" /\ user[u].reply # "none" /\ Return(u, user[u].reply)
      /\ UNCHANGED <<failure, up, requests, calls, replies, session, got>>
  BY DEF IInv, Types, Resume
<1>2. /\ After(user[u], user[u].reply) \in UserState
      /\ Solo(u, After(user[u], user[u].reply))
      /\ u \in watches' <=> u \in watches /\ (user[u].act = "open" => user[u].reply = "opened")
  BY <1>1, Returned
<1> QED
  BY <1>1, <1>2, ResumedKept

(* send goes on, or finds that the channel has failed.                     *)
LEMMA CheckKept ==
    ASSUME IInv, NEW u \in User, Check(u)
    PROVE  IInv'
<1> DEFINE x == user[u]
           y == [x EXCEPT !.pc = "write"]
<1>1. x \in UserState /\ pending \subseteq User /\ watches \subseteq Watcher /\ user \in [User -> UserState]
  BY DEF IInv, Types
<1>2. CASE failure = "no"
  <2>1. y \in UserState /\ y.pc = "write" /\ y.act = x.act /\ y.handle = x.handle
        /\ y.reply = x.reply /\ y.accepted = x.accepted /\ y.cancelled = x.cancelled
    BY <1>1 DEF UserState, Pc
  <2>2. /\ x.pc = "check" /\ user' = [user EXCEPT ![u] = y] /\ pending' = pending
        /\ watches' = watches /\ failure' = failure
    BY <1>2 DEF Check
  <2> HIDE DEF y
  <2>3. Solo(u, y)
    BY <2>2, <1>1 DEF Check, session, Solo
  <2> QED
    BY <1>2, <2>1, <2>2, <2>3, MovedKept
<1>3. CASE failure # "no"
  <2>1. /\ pending' = pending \ {u} /\ pending' \in SUBSET User /\ failure' = failure
        /\ x.pc = "check" /\ Return(u, "error")
        /\ UNCHANGED <<failure, up, requests, calls, replies, session, got>>
    BY <1>1, <1>3 DEF Check
  <2>2. \A v : v # u => (v \in pending' <=> v \in pending)
    BY <2>1
  <2>3. /\ After(user[u], "error") \in UserState
        /\ Solo(u, After(user[u], "error"))
        /\ u \in watches' <=> u \in watches /\ (user[u].act = "open" => "error" = "opened")
    BY <2>1, <2>2, Returned
  <2> QED
    BY <1>3, <2>1, <2>3, TakenBackKept
<1> QED
  BY <1>2, <1>3

(* The write fails.                                                        *)
LEMMA WriteFailsKept ==
    ASSUME IInv, NEW u \in User, WriteFails(u)
    PROVE  IInv'
<1> DEFINE x == user[u]
           pc == IF failure = "no" THEN "ending" ELSE "failed"
           y == [x EXCEPT !.pc = pc]
<1>1. x \in UserState /\ pending \subseteq User /\ watches \subseteq Watcher /\ user \in [User -> UserState]
  BY DEF IInv, Types
<1>2. pc \in {"ending", "failed"}
  OBVIOUS
<1>3. /\ x.pc = "write" /\ user' = [user EXCEPT ![u] = y] /\ pending' = pending
      /\ watches' = watches /\ failure' # "no"
      /\ failure' = failure \/ (failure = "no" /\ failure' = "set")
  BY DEF WriteFails
<1> HIDE DEF pc
<1>4. y \in UserState /\ y.pc = pc /\ y.act = x.act /\ y.handle = x.handle
      /\ y.reply = x.reply /\ y.accepted = x.accepted /\ y.cancelled = x.cancelled
  BY <1>1, <1>2 DEF UserState, Pc
<1> HIDE DEF y
<1>5. Solo(u, y)
  BY <1>3, <1>1 DEF WriteFails, session, Solo
<1> QED
  BY <1>2, <1>3, <1>4, <1>5, MovedKept

(* The exchange is dropped while it waits.                                 *)
LEMMA CancelKept ==
    ASSUME IInv, NEW u \in User, Cancel(u)
    PROVE  IInv'
<1> DEFINE x == user[u]
           pc == IF x.act = "item" THEN "rest" ELSE "done"
           y == [x EXCEPT !.pc = pc, !.act = "none", !.reply = "none", !.cancelled = TRUE]
<1>1. x \in UserState /\ pending \subseteq User /\ watches \subseteq Watcher /\ user \in [User -> UserState]
  BY DEF IInv, Types
<1>2. /\ x.pc \in {"write", "wait"} /\ user' = [user EXCEPT ![u] = y] /\ pending' = pending
      /\ watches' = watches /\ failure' = failure
  BY <1>1 DEF Cancel
<1>3. y \in UserState /\ y.pc = pc /\ y.act = "none" /\ y.handle = x.handle
      /\ y.reply = "none" /\ y.accepted = x.accepted /\ y.cancelled
  BY <1>1 DEF UserState, Pc, Act
<1> HIDE DEF y
<1>4. Solo(u, y)
  BY <1>2, <1>1 DEF Cancel, session, Solo
<1> QED
  BY <1>2, <1>3, <1>4, MovedKept

(* The stream of a watch is registered.                                    *)
LEMMA OpenWatchKept ==
    ASSUME IInv, NEW u \in User, OpenWatch(u)
    PROVE  IInv'
<1> DEFINE x == user[u]
           y == [x EXCEPT !.pc = "insert", !.act = "open"]
<1>1. x \in UserState /\ pending \subseteq User /\ watches \subseteq Watcher /\ user \in [User -> UserState]
  BY DEF IInv, Types
<1>2. /\ u \in Watcher /\ x.pc = "new" /\ user' = [user EXCEPT ![u] = y] /\ pending' = pending
      /\ watches' = watches \cup {u} /\ failure' = failure
  BY <1>1 DEF OpenWatch
<1>3. y \in UserState /\ y.pc = "insert" /\ y.act = "open" /\ y.handle = x.handle
      /\ y.reply = x.reply /\ y.accepted = x.accepted /\ y.cancelled = x.cancelled
  BY <1>1 DEF UserState, Pc, Act
<1> HIDE DEF y
<1>4. Solo(u, y)
  BY <1>2, <1>1 DEF OpenWatch, session, Solo
<1> QED
  BY <1>2, <1>3, <1>4, MovedKept

(* The registration is taken back for the close.                           *)
LEMMA CloseWatchKept ==
    ASSUME IInv, NEW u \in User, CloseWatch(u)
    PROVE  IInv'
<1> DEFINE x == user[u]
           y == [x EXCEPT !.pc = "insert", !.act = "close"]
<1>1. x \in UserState /\ pending \subseteq User /\ watches \subseteq Watcher /\ user \in [User -> UserState]
  BY DEF IInv, Types
<1>2. /\ u \in Watcher /\ x.pc = "closing" /\ user' = [user EXCEPT ![u] = y] /\ pending' = pending
      /\ watches' = watches \ {u} /\ failure' = failure
  BY <1>1 DEF CloseWatch
<1>3. y \in UserState /\ y.pc = "insert" /\ y.act = "close" /\ y.handle = x.handle
      /\ y.reply = x.reply /\ y.accepted = x.accepted /\ y.cancelled = x.cancelled
  BY <1>1 DEF UserState, Pc, Act
<1> HIDE DEF y
<1>4. Solo(u, y)
  BY <1>2, <1>1 DEF CloseWatch, session, Solo
<1> QED
  BY <1>2, <1>3, <1>4, MovedKept

(* The stream is dropped.                                                  *)
LEMMA DropStreamKept ==
    ASSUME IInv, NEW u \in User, DropStream(u)
    PROVE  IInv'
<1> DEFINE x == user[u]
           y(pc) == [x EXCEPT !.handle = FALSE, !.pc = pc]
<1>1. x \in UserState /\ pending \subseteq User /\ watches \subseteq Watcher /\ user \in [User -> UserState]
  BY DEF IInv, Types
<1>2. PICK pc \in {"closing", "done"} :
         /\ user' = [user EXCEPT ![u] = y(pc)]
         /\ failure' = failure \/ (failure = "no" /\ failure' = "set")
         /\ (pc = "closing" /\ failure' = failure) \/ (pc = "done" /\ failure' # "no")
  BY <1>1 DEF DropStream
<1>3. /\ u \in Watcher /\ x.pc = "rest" /\ x.handle /\ pending' = pending /\ watches' = watches
  BY DEF DropStream, Dropping
<1>4. y(pc) \in UserState /\ y(pc).pc = pc /\ y(pc).act = x.act /\ ~y(pc).handle
      /\ y(pc).reply = x.reply /\ y(pc).accepted = x.accepted /\ y(pc).cancelled = x.cancelled
  BY <1>1 DEF UserState, Pc, Act
<1> HIDE DEF y
<1>5. Solo(u, y(pc))
  BY <1>2, <1>3, <1>1 DEF DropStream, session, Solo
<1> QED
  BY <1>2, <1>3, <1>4, <1>5, MovedKept

(* The push is dropped, and nobody closes it.                              *)
LEMMA DropUnclosedKept ==
    ASSUME IInv, NEW u \in User, DropUnclosed(u)
    PROVE  IInv'
<1> DEFINE x == user[u]
           y == [x EXCEPT !.handle = FALSE, !.pc = "unclosed"]
<1>1. x \in UserState /\ pending \subseteq User /\ watches \subseteq Watcher /\ user \in [User -> UserState]
  BY DEF IInv, Types
<1>2. /\ u \in Pusher /\ x.pc = "rest" /\ x.handle /\ user' = [user EXCEPT ![u] = y] /\ pending' = pending
      /\ watches' = watches /\ failure' = failure
  BY <1>1 DEF DropUnclosed, Pushing
<1>3. y \in UserState /\ y.pc = "unclosed" /\ y.act = x.act /\ ~y.handle
      /\ y.reply = x.reply /\ y.accepted = x.accepted /\ y.cancelled = x.cancelled
  BY <1>1 DEF UserState, Pc, Act
<1> HIDE DEF y
<1>4. Solo(u, y)
  BY <1>2, <1>1 DEF DropUnclosed, session, Solo
<1>5. /\ Here(u, y) /\ OK(u) /\ u \notin watches /\ u \notin Watcher /\ u \notin watches'
      /\ (u \in pending' <=> u \in pending) /\ failure' = failure
  BY <1>1, <1>2, <1>3, <1>4, SoloHere, LinkAssumption DEF IInv
<1>6. UserOK(u)'
  BY <1>2, <1>3, <1>5 DEF OK, Here, UserOK
<1>7. PushOK(u)'
  BY <1>2, <1>3, <1>5 DEF OK, Here, UserOK, PushOK, Fresh, Out
<1>8. PushHeld(u)'
  BY <1>2, <1>3, <1>5 DEF OK, Here, UserOK, PushHeld
<1>9. OK(u)'
  BY <1>5, <1>6, <1>7, <1>8 DEF OK
<1> QED
  BY <1>1, <1>2, <1>3, <1>4, <1>9, SoloKept

(* Who is asked is asked with an act.                                      *)
LEMMA AskedAct == \A u : (Opening(u) => Asked(u)) /\ (Closing(u) => Asked(u))
BY DEF Opening, Closing, Asked

(* The frame goes out: the request of a stream is the last of all.         *)
LEMMA WriteKept ==
    ASSUME IInv, NEW u \in User, Write(u)
    PROVE  IInv'
<1> DEFINE x == user[u]
           y == [x EXCEPT !.pc = "wait"]
           r == [key |-> u, act |-> x.act, seq |-> x.next - 1]
<1>1. x \in UserState /\ user \in [User -> UserState] /\ OK(u)
  BY DEF IInv, Types
<1>2. /\ x.pc = "write" /\ up /\ user' = [user EXCEPT ![u] = y]
      /\ UNCHANGED <<pending, watches, failure, up, replies, source, push, executed, got>>
  BY DEF Write, session
<1>3. y \in UserState /\ y.pc = "wait" /\ y.act = x.act /\ y.handle = x.handle
      /\ y.reply = x.reply /\ y.accepted = x.accepted /\ y.cancelled = x.cancelled
  BY <1>1 DEF UserState, Pc
<1> HIDE DEF y
<1>4. user'[u] = y /\ \A v \in User : v # u => user'[v] = user[v]
  BY <1>1, <1>2, <1>3
<1>5. CASE u \in Caller
  <2>1. requests' = requests /\ calls' = calls \cup {u} /\ u \notin Watcher /\ u \notin Pusher
    BY <1>5, LinkAssumption DEF Write
  <2>2. Types'
    BY <1>2, <1>3, <1>5, <2>1 DEF IInv, Types
  <2>3. ASSUME NEW v \in User, v # u PROVE OK(v)'
    <3>1. Same(v)
      BY <1>2, <1>4, <2>1, <2>3, SameRequests DEF Same
    <3>2. Ends
      BY <1>2 DEF Ends
    <3> QED
      BY <3>1, <3>2, FrameKept DEF IInv
  <2>4. UserOK(u)'
    BY <1>1, <1>2, <1>3, <1>4 DEF OK, UserOK
  <2> QED
    BY <2>1, <2>2, <2>3, <2>4 DEF IInv, OK
<1>6. CASE u \notin Caller
  <2>1. requests' = Append(requests, r) /\ calls' = calls
    BY <1>6 DEF Write
  <2>2. r \in Request /\ r.key = u /\ r.act = x.act
    BY <1>1, <1>6 DEF UserState, Request, User
  <2> HIDE DEF r
  <2>3. requests \in Seq(Request)
    BY DEF IInv, Types
  <2>4. requests' \in Seq(Request)
    BY <2>1, <2>2, <2>3, AppendedRequest
  <2>5. \A v : v # u => /\ Asked(v)' <=> Asked(v)
                        /\ Opening(v)' <=> Opening(v)
                        /\ Closing(v)' <=> Closing(v)
                        /\ Sole(v)' <=> Sole(v)
    BY <2>1, <2>2, <2>3, AppendedRequest
  <2>6. /\ Asked(u)'
        /\ Opening(u)' <=> Opening(u) \/ x.act = "open"
        /\ Closing(u)' <=> Closing(u) \/ x.act = "close"
        /\ ~Asked(u) => Sole(u)'
    BY <2>1, <2>2, <2>3, AppendedRequest
  <2>7. Types'
    BY <1>2, <1>3, <2>1, <2>4 DEF IInv, Types
  <2>8. ASSUME NEW v \in User, v # u PROVE OK(v)'
    <3>1. Same(v)
      BY <1>2, <1>4, <2>1, <2>5, <2>8 DEF Same
    <3>2. Ends
      BY <1>2 DEF Ends
    <3> QED
      BY <3>1, <3>2, <2>8, FrameKept DEF IInv
  <2>9. UserOK(u)'
    BY <1>1, <1>2, <1>3, <1>4 DEF OK, UserOK
  <2>10. ASSUME u \in Pusher PROVE PushOK(u)' /\ PushHeld(u)'
    <3>1. ~Out(u) /\ ~Opening(u) /\ ~Closing(u)
      BY <1>1, <1>2, <2>10, AskedAct DEF OK, PushOK, Out
    <3>2. PushOK(u)'
      BY <1>1, <1>2, <1>3, <1>4, <2>6, <2>10, <3>1 DEF OK, UserOK, PushOK, Out, Fresh
    <3>3. PushHeld(u)'
      BY <1>1, <1>2, <1>3, <1>4, <2>6, <2>10, <3>1 DEF OK, UserOK, PushOK, PushHeld, Opened
    <3> QED
      BY <3>2, <3>3
  <2>11. ASSUME u \in Watcher PROVE WatchOK(u)' /\ WatchHeld(u)'
    <3>1. x.act = "open" \/ x.act = "close"
      BY <1>1, <1>2, <2>11 DEF OK, UserOK
    <3>2. WatchOK(u)'
      BY <1>1, <1>2, <1>3, <1>4, <2>6, <2>11, <3>1 DEF OK, UserOK, WatchOK, Fresh
    <3>3. WatchHeld(u)'
      BY <1>1, <1>2, <1>3, <1>4, <2>6, <2>11, <3>1 DEF OK, UserOK, WatchOK, WatchHeld, Fresh, Opened
    <3> QED
      BY <3>2, <3>3
  <2> QED
    BY <2>7, <2>8, <2>9, <2>10, <2>11 DEF IInv, OK
<1> QED
  BY <1>5, <1>6

(* The streams of the session do not move.                                 *)
LEMMA EndsKept ==
    ASSUME IInv, Ends, UNCHANGED <<user, pending, watches, requests, calls, replies, session, got>>
    PROVE  IInv'
<1>1. Types'
  BY DEF IInv, Types, Ends, session
<1>2. ASSUME NEW v \in User PROVE OK(v)'
  <2>1. Same(v)
    BY SameRequests DEF Same, session
  <2> QED
    BY <2>1, FrameKept DEF IInv
<1> QED
  BY <1>1, <1>2 DEF IInv

(* The pending exchanges fail.                                             *)
LEMMA DrainPendingKept ==
    ASSUME IInv, DrainPending
    PROVE  IInv'
<1>1. /\ failure = "set" /\ failure' = "drained" /\ pending' = {} /\ requests' = requests
      /\ UNCHANGED <<watches, up, calls, replies, source, push, executed, got>>
  BY DEF DrainPending, session
<1> DEFINE hit(v) == v \in pending /\ user[v].pc \in {"check", "write", "wait"}
           y(v) == [user[v] EXCEPT !.reply = "error"]
<1>2. user' = [v \in User |-> IF hit(v) THEN y(v) ELSE user[v]]
  BY DEF DrainPending
<1>3. \A v \in User : user[v] \in UserState
  BY DEF IInv, Types
<1>4. \A v \in User :
         /\ y(v) \in UserState /\ y(v).pc = user[v].pc /\ y(v).act = user[v].act /\ y(v).handle = user[v].handle
         /\ y(v).reply = "error" /\ y(v).accepted = user[v].accepted /\ y(v).cancelled = user[v].cancelled
  BY <1>3 DEF UserState, What
<1> HIDE DEF y
<1>5. \A v \in User : user'[v] \in UserState
  BY <1>2, <1>3, <1>4
<1>6. Types'
  BY <1>1, <1>2, <1>5 DEF IInv, Types
<1>7. ASSUME NEW v \in User PROVE OK(v)'
  <2>1. /\ user'[v] \in UserState /\ user'[v].pc = user[v].pc /\ user'[v].act = user[v].act
        /\ user'[v].handle = user[v].handle /\ user'[v].accepted = user[v].accepted
        /\ user'[v].cancelled = user[v].cancelled
        /\ user'[v].reply = user[v].reply \/ (hit(v) /\ user'[v].reply = "error")
    BY <1>2, <1>4, <1>5
  <2>2. OK(v)
    BY DEF IInv
  <2>3. /\ Asked(v)' <=> Asked(v)
        /\ Opening(v)' <=> Opening(v)
        /\ Closing(v)' <=> Closing(v)
        /\ Sole(v)' <=> Sole(v)
    BY <1>1, SameRequests
  <2>4. UserOK(v)'
    BY <1>1, <2>1, <2>2 DEF OK, UserOK
  <2>5. ASSUME v \in Pusher PROVE PushOK(v)' /\ PushHeld(v)'
    <3>1. PushOK(v)'
      BY <1>1, <2>1, <2>2, <2>3, <2>5 DEF OK, PushOK, Fresh, Out
    <3>2. PushHeld(v)'
      BY <1>1 DEF PushHeld
    <3> QED
      BY <3>1, <3>2
  <2>6. ASSUME v \in Watcher PROVE WatchOK(v)' /\ WatchHeld(v)'
    <3>1. WatchOK(v)'
      BY <1>1, <2>1, <2>2, <2>3, <2>6 DEF OK, WatchOK, Fresh
    <3>2. WatchHeld(v)'
      BY <1>1 DEF WatchHeld
    <3> QED
      BY <3>1, <3>2
  <2> QED
    BY <2>4, <2>5, <2>6 DEF OK
<1> QED
  BY <1>6, <1>7 DEF IInv

(* The streams end.                                                        *)
LEMMA ClearWatchesKept ==
    ASSUME IInv, ClearWatches
    PROVE  IInv'
<1>1. /\ failure = "drained" /\ failure' = "cleared" /\ watches' = {} /\ up' = FALSE /\ requests' = requests
      /\ UNCHANGED <<user, pending, calls, replies, source, push, executed, got>>
  BY DEF ClearWatches, session
<1>2. Types'
  BY <1>1 DEF IInv, Types
<1>3. ASSUME NEW v \in User PROVE OK(v)'
  <2>1. OK(v)
    BY DEF IInv
  <2>2. /\ Asked(v)' <=> Asked(v)
        /\ Opening(v)' <=> Opening(v)
        /\ Closing(v)' <=> Closing(v)
        /\ Sole(v)' <=> Sole(v)
    BY <1>1, SameRequests
  <2>3. UserOK(v)'
    BY <1>1, <2>1 DEF OK, UserOK
  <2>4. ASSUME v \in Pusher PROVE PushOK(v)' /\ PushHeld(v)'
    <3>1. PushOK(v)'
      BY <1>1, <2>1, <2>2, <2>4 DEF OK, PushOK, Fresh, Out
    <3>2. PushHeld(v)'
      BY <1>1 DEF PushHeld
    <3> QED
      BY <3>1, <3>2
  <2>5. ASSUME v \in Watcher PROVE WatchOK(v)' /\ WatchHeld(v)'
    <3>1. WatchOK(v)'
      BY <1>1, <2>1, <2>2, <2>5 DEF OK, WatchOK, Fresh
    <3>2. WatchHeld(v)'
      BY <1>1 DEF WatchHeld
    <3> QED
      BY <3>1, <3>2
  <2> QED
    BY <2>3, <2>4, <2>5 DEF OK
<1> QED
  BY <1>2, <1>3 DEF IInv

-----------------------------------------------------------------------------
(* The reader                                                              *)

(* The frames of a watch that come after the first are in order, when the  *)
(* stream has taken the first if it is an event.                           *)
LEMMA InOrderTail ==
    ASSUME NEW q \in Seq(Reply), q # <<>>, NEW src \in Source, NEW g \in Seq(Nat), InOrder(q, src, g),
           NEW gg \in Seq(Nat),
           q[1].what = "event" => Len(gg) = Len(g) + 1,
           q[1].what # "event" => Len(gg) = Len(g)
    PROVE  /\ InOrder(Tail(q), src, gg)
           /\ q[1].what = "event" => q[1].n = Len(g) + 1 /\ Len(gg) <= src.sent
           /\ q[1].what = "closed" => ~src.open /\ Len(g) = src.made
<1> DEFINE k == IF q # <<>> /\ q[1].what = "opened" THEN 1 ELSE 0
           d == src.sent - Len(g)
           t == Tail(q)
           dd == src.sent - Len(gg)
<1>1. /\ Len(q) \in Nat /\ Len(q) >= 1 /\ Len(g) \in Nat /\ Len(gg) \in Nat
      /\ src.sent \in Nat /\ src.made \in Nat
  BY DEF Source
<1>2. t \in Seq(Reply) /\ Len(t) = Len(q) - 1
  OBVIOUS
<1>3. \A i \in 1 .. Len(t) : t[i] = q[i + 1]
  OBVIOUS
<1>4. k \in {0, 1} /\ d >= 0 /\ d \in Int /\ Len(q) >= k + d /\ (src.open => Len(q) = k + d)
  BY <1>1 DEF InOrder
<1>5. \A i \in 1 .. Len(q) :
         /\ q[i].what = "event" <=> k < i /\ i <= k + d
         /\ q[i].what = "event" => q[i].n = Len(g) + i - k
         /\ q[i].what = "opened" => i = 1
         /\ q[i].what = "closed" => ~src.open /\ src.sent = src.made
  BY DEF InOrder
<1>6. k = 1 <=> q[1].what = "opened"
  OBVIOUS
<1> HIDE DEF k
<1>7. /\ q[1].what = "event" => k = 0 /\ d >= 1 /\ q[1].n = Len(g) + 1
      /\ q[1].what # "event" /\ k = 0 => d = 0
      /\ q[1].what = "closed" => ~src.open /\ src.sent = src.made /\ k = 0
  <2>1. 1 \in 1 .. Len(q)
    BY <1>1
  <2>2. /\ q[1].what = "event" <=> k < 1 /\ 1 <= k + d
        /\ q[1].what = "event" => q[1].n = Len(g) + 1 - k
        /\ q[1].what = "closed" => ~src.open /\ src.sent = src.made
    BY <2>1, <1>5
  <2>3. q[1].what = "closed" => k # 1
    BY <1>6
  <2> HIDE DEF d
  <2> QED
    BY <2>2, <2>3, <1>1, <1>4
<1>8. t = <<>> \/ t[1].what # "opened"
  <2>1. CASE t # <<>>
    <3>1. 1 \in 1 .. Len(t) /\ 2 \in 1 .. Len(q)
      BY <2>1, <1>1, <1>2
    <3>2. t[1] = q[2]
      BY <3>1, <1>3
    <3> QED
      BY <3>1, <3>2, <1>5
  <2> QED
    BY <2>1
<1>9. (IF t # <<>> /\ t[1].what = "opened" THEN 1 ELSE 0) = 0
  BY <1>8
<1>10. /\ q[1].what = "event" => dd = d - 1 /\ k = 0
       /\ q[1].what = "opened" => dd = d /\ k = 1
       /\ q[1].what \notin {"event", "opened"} => dd = 0 /\ d = 0 /\ k = 0
  <2>1. q[1].what # "event" => dd = d
    OBVIOUS
  <2>2. q[1].what = "event" => dd = d - 1
    BY <1>1, SMTT(30)
  <2> HIDE DEF d, dd
  <2> QED
    BY <2>1, <2>2, <1>4, <1>6, <1>7
<1>11. dd >= 0 /\ Len(t) >= 0 + dd /\ (src.open => Len(t) = 0 + dd)
  <2> DEFINE lq == Len(q)
             lt == Len(t)
  <2>0. lq \in Nat /\ lt = lq - 1 /\ d \in Int /\ d >= 0 /\ lq >= k + d /\ (src.open => lq = k + d)
    BY <1>1, <1>2, <1>4
  <2> HIDE DEF d, dd, lq, lt
  <2>1. CASE q[1].what = "event"
    <3>1. dd = d - 1 /\ k = 0 /\ d >= 1
      BY <2>1, <1>7, <1>10
    <3>2. dd >= 0 /\ lt >= 0 + dd /\ (src.open => lt = 0 + dd)
      BY <2>0, <3>1
    <3> QED
      BY <3>2 DEF lt
  <2>2. CASE q[1].what = "opened"
    <3>1. dd = d /\ k = 1
      BY <2>2, <1>10
    <3>2. dd >= 0 /\ lt >= 0 + dd /\ (src.open => lt = 0 + dd)
      BY <2>0, <3>1
    <3> QED
      BY <3>2 DEF lt
  <2>3. CASE q[1].what \notin {"event", "opened"}
    BY <2>3, <1>1, <1>2, <1>4, <1>10
  <2> QED
    BY <2>1, <2>2, <2>3
<1>12. ASSUME NEW i \in 1 .. Len(t)
       PROVE  /\ t[i].what = "event" <=> 0 < i /\ i <= 0 + dd
              /\ t[i].what = "event" => t[i].n = Len(gg) + i - 0
              /\ t[i].what = "opened" => i = 1
              /\ t[i].what = "closed" => ~src.open /\ src.sent = src.made
  <2>1. i + 1 \in 1 .. Len(q) /\ i >= 1 /\ i \in Int
    BY <1>1, <1>2
  <2>2. t[i] = q[i + 1]
    BY <1>3
  <2>3. /\ q[i + 1].what = "event" <=> k < i + 1 /\ i + 1 <= k + d
        /\ q[i + 1].what = "event" => q[i + 1].n = Len(g) + (i + 1) - k
        /\ q[i + 1].what = "opened" => i + 1 = 1
        /\ q[i + 1].what = "closed" => ~src.open /\ src.sent = src.made
    BY <2>1, <1>5
  <2> HIDE DEF d, dd, t
  <2>4. (k < i + 1 /\ i + 1 <= k + d) <=> (0 < i /\ i <= 0 + dd)
    <3>1. CASE q[1].what = "event"
      BY <3>1, <2>1, <1>4, <1>10
    <3>2. CASE q[1].what = "opened"
      BY <3>2, <2>1, <1>4, <1>10
    <3>3. CASE q[1].what \notin {"event", "opened"}
      BY <3>3, <2>1, <1>4, <1>10
    <3> QED
      BY <3>1, <3>2, <3>3
  <2>5. (k < i + 1 /\ i + 1 <= k + d) => Len(g) + (i + 1) - k = Len(gg) + i - 0
    <3>1. CASE q[1].what = "event"
      <4>1. k = 0 /\ Len(gg) = Len(g) + 1
        BY <3>1, <1>10
      <4> QED
        BY <4>1, <2>1, <1>1
    <3>2. CASE q[1].what = "opened"
      <4>1. k = 1 /\ Len(gg) = Len(g)
        BY <3>2, <1>10
      <4> QED
        BY <4>1, <2>1, <1>1
    <3>3. CASE q[1].what \notin {"event", "opened"}
      BY <3>3, <2>1, <1>4, <1>10
    <3> QED
      BY <3>1, <3>2, <3>3
  <2>6. q[i + 1].what # "opened"
    BY <2>1, <2>3
  <2> QED
    BY <2>2, <2>3, <2>4, <2>5, <2>6
<1>13. InOrder(Tail(q), src, gg)
  <2> HIDE DEF dd, d
  <2> QED
    BY <1>9, <1>11, <1>12 DEF InOrder, dd
<1>14. q[1].what = "event" => q[1].n = Len(g) + 1 /\ Len(gg) <= src.sent
  BY <1>1, <1>7
<1>15. q[1].what = "closed" => ~src.open /\ Len(g) = src.made
  BY <1>1, <1>7, <1>10
<1> QED
  BY <1>13, <1>14, <1>15

(* The reader: an event is the next one of its stream, and an answer is    *)
(* the answer of its exchange.                                             *)
LEMMA ReadKept ==
    ASSUME IInv, NEW u \in User, Read(u)
    PROVE  IInv'
<1> DEFINE x == user[u]
           q == replies[u]
           m == Head(q)
           hit == u \in pending /\ x.pc \in {"check", "write", "wait"}
           taken == m.what = "event" /\ u \in watches
<1>1. /\ x \in UserState /\ user \in [User -> UserState] /\ OK(u) /\ pending \subseteq User
      /\ watches \subseteq Watcher /\ replies \in [User -> Seq(Reply)] /\ got \in [Watcher -> Seq(Nat)]
      /\ failure \in {"no", "set", "drained", "cleared"}
  BY DEF IInv, Types
<1>2. /\ q # <<>> /\ failure # "cleared" /\ replies' = [replies EXCEPT ![u] = Tail(q)]
      /\ UNCHANGED <<failure, up, requests, calls, source, push, executed>>
  BY DEF Read, session
<1>3. /\ q \in Seq(Reply) /\ m \in Reply /\ m = q[1] /\ m.what \in What /\ m.n \in Nat
      /\ Tail(q) \in Seq(Reply) /\ Len(q) \in Nat /\ Len(q) >= 1 /\ Len(Tail(q)) = Len(q) - 1
  <2>1. q \in Seq(Reply) /\ q # <<>>
    BY <1>1, <1>2
  <2> HIDE DEF q
  <2>2. m \in Reply /\ m = q[1] /\ Tail(q) \in Seq(Reply)
        /\ Len(q) \in Nat /\ Len(q) >= 1 /\ Len(Tail(q)) = Len(q) - 1
    BY <2>1
  <2> HIDE DEF m
  <2>3. m.what \in What /\ m.n \in Nat
    BY <2>2 DEF Reply
  <2> QED
    BY <2>1, <2>2, <2>3
<1>4. replies' \in [User -> Seq(Reply)] /\ replies'[u] = Tail(q) /\ \A v \in User : v # u => replies'[v] = replies[v]
  BY <1>1, <1>2, <1>3
<1>5. \A v : /\ Asked(v)' <=> Asked(v)
             /\ Opening(v)' <=> Opening(v)
             /\ Closing(v)' <=> Closing(v)
             /\ Sole(v)' <=> Sole(v)
  BY <1>2, SameRequests
<1>6. /\ taken =>
            /\ got' = [got EXCEPT ![u] = Append(got[u], m.n)]
            /\ UNCHANGED <<user, pending, watches>>
      /\ ~taken =>
            /\ pending' = pending \ {u}
            /\ user' = IF hit THEN [user EXCEPT ![u].reply = m.what] ELSE user
            /\ watches' = IF m.what = "closed" THEN watches \ {u} ELSE watches
            /\ got' = got
  BY DEF Read, Deliver
<1> DEFINE r == [x EXCEPT !.reply = m.what]
<1>7. /\ r \in UserState /\ r.pc = x.pc /\ r.act = x.act /\ r.handle = x.handle
      /\ r.reply = m.what /\ r.accepted = x.accepted /\ r.cancelled = x.cancelled
  BY <1>1, <1>3 DEF UserState
<1>8. ~taken /\ hit => user' = [user EXCEPT ![u] = r]
  BY <1>6, <1>1
<1> HIDE DEF r, m
<1>9. /\ user' \in [User -> UserState] /\ \A v \in User : v # u => user'[v] = user[v]
      /\ ~taken /\ hit => user'[u] = r
      /\ taken \/ ~hit => user'[u] = x
  BY <1>1, <1>6, <1>7, <1>8
<1>10. /\ \A v : v # u => (v \in pending' <=> v \in pending) /\ (v \in watches' <=> v \in watches)
       /\ pending' \subseteq User /\ watches' \subseteq Watcher
       /\ taken => (u \in pending' <=> u \in pending) /\ u \in watches'
       /\ ~taken => u \notin pending' /\ (u \in watches' <=> u \in watches /\ m.what # "closed")
  BY <1>1, <1>6
<1>11. /\ got' \in [Watcher -> Seq(Nat)]
       /\ \A v \in Watcher : v # u => got'[v] = got[v]
       /\ taken => u \in Watcher /\ got'[u] = Append(got[u], m.n)
       /\ ~taken => got'[u] = got[u]
  <2>1. CASE taken
    <3>1. u \in Watcher /\ got' = [got EXCEPT ![u] = Append(got[u], m.n)]
      BY <2>1, <1>1, <1>6
    <3>2. Append(got[u], m.n) \in Seq(Nat)
      BY <3>1, <1>1, <1>3
    <3> QED
      BY <2>1, <3>1, <3>2, <1>1
  <2>2. CASE ~taken
    BY <2>2, <1>1, <1>6
  <2> QED
    BY <2>1, <2>2
<1>12. /\ user'[u].pc = x.pc /\ user'[u].act = x.act /\ user'[u].handle = x.handle
       /\ user'[u].accepted = x.accepted /\ user'[u].cancelled = x.cancelled
       /\ ~taken /\ hit => user'[u].reply = m.what
       /\ taken \/ ~hit => user'[u].reply = x.reply
  BY <1>7, <1>9
<1>13. m.what # "none"
  BY <1>3 DEF What
<1> HIDE DEF taken
<1>14. Types'
  BY <1>2, <1>4, <1>9, <1>10, <1>11 DEF IInv, Types
<1>15. ASSUME NEW v \in User, v # u PROVE OK(v)'
  <2>1. Same(v)
    BY <1>2, <1>4, <1>5, <1>9, <1>10, <1>11, <1>15 DEF Same
  <2>2. Ends
    BY <1>2 DEF Ends, IInv, Types
  <2> QED
    BY <2>1, <2>2, FrameKept DEF IInv
<1>16. UserOK(u)'
  <2>1. UserOK(u) /\ failure' = failure
    BY <1>1, <1>2 DEF OK
  <2>2. u \in watches' => u \in watches
    BY <1>10 DEF taken
  <2>3. CASE taken
    BY <2>1, <2>2, <2>3, <1>10, <1>12 DEF UserOK
  <2>4. CASE ~taken
    BY <2>1, <2>2, <2>4, <1>10, <1>12, <1>13 DEF UserOK
  <2> QED
    BY <2>3, <2>4
<1>17. ASSUME u \in Pusher PROVE PushOK(u)' /\ PushHeld(u)'
  <2>1. ~taken /\ u \notin pending'
    BY <1>17, <1>10, <1>11, LinkAssumption
  <2>2. Out(u) /\ Len(q) = 1 /\ ~Asked(u) /\ ~Opening(u)
    <3>1. Len(q) <= 1 /\ (Asked(u) => q = <<>>)
      BY <1>1, <1>17 DEF OK, PushOK
    <3>2. Len(q) = 1
      <4>1. Len(q) <= 1
        BY <3>1
      <4>2. Len(q) \in Nat /\ Len(q) >= 1
        BY <1>3
      <4> DEFINE n == Len(q)
      <4>3. n <= 1 /\ n \in Nat /\ n >= 1
        BY <4>1, <4>2
      <4> HIDE DEF n
      <4>4. n = 1
        BY <4>3
      <4> QED
        BY <4>4 DEF n
    <3> QED
      BY <3>1, <3>2, <1>2, AskedAct DEF Out
  <2>3. replies'[u] = <<>>
    BY <2>2, <1>3, <1>4
  <2>4. ~Out(u)'
    BY <2>2, <2>3, <1>5 DEF Out
  <2>5. /\ ~Fresh(u) /\ x.pc \notin {"write", "ending", "failed"} /\ x.reply # "accepted"
        /\ failure \in {"no", "set"} => x.pc # "check"
    BY <2>2, <1>1, <1>17 DEF OK, PushOK
  <2>6. ~Fresh(u)'
    BY <2>5, <1>12 DEF Fresh
  <2>7. m.what = "accepted" => x.accepted < Len(executed[u])
    BY <1>1, <1>2, <1>3, <1>17 DEF OK, PushOK
  <2>8. PushOK(u)'
    <3>1. Len(replies'[u]) = 0 /\ replies'[u] = <<>>
      BY <2>3
    <3>2. PushOK(u)
      BY <1>1, <1>17 DEF OK
    <3>3. user'[u].reply = "accepted" =>
             /\ x.accepted < Len(executed[u])
             /\ x.pc = "wait" \/ (x.pc = "check" /\ failure \in {"drained", "cleared"})
      <4>1. user'[u].reply = "accepted" => hit /\ m.what = "accepted"
        BY <1>12, <2>1, <2>5
      <4>2. hit => x.pc = "wait" \/ (x.pc = "check" /\ failure \notin {"no", "set"})
        BY <2>5
      <4> QED
        BY <4>1, <4>2, <2>7, <1>1
    <3> QED
      BY <3>1, <3>2, <3>3, <1>2, <1>5, <1>12, <2>2, <2>4, <2>5, <2>6 DEF PushOK
  <2>9. PushHeld(u)'
    BY <1>1, <1>2, <1>3, <1>5, <1>12, <1>17, <2>1, <2>2, <2>3 DEF OK, PushHeld, UserOK, Opened
  <2> QED
    BY <2>8, <2>9
<1>18. ASSUME u \in Watcher PROVE WatchOK(u)' /\ WatchHeld(u)'
  <2>1. source[u] \in Source /\ source'[u] = source[u] /\ got[u] \in Seq(Nat) /\ got'[u] \in Seq(Nat)
    BY <1>1, <1>2, <1>11, <1>18 DEF IInv, Types
  <2>2. ~Fresh(u) /\ ~Opening(u)
    BY <1>1, <1>2, <1>18 DEF OK, WatchOK
  <2>3. ~Fresh(u)' /\ ~Opening(u)'
    BY <2>2, <1>5, <1>12 DEF Fresh
  <2>4. ASSUME u \in watches
        PROVE  /\ InOrder(Tail(q), source[u], got'[u])
               /\ taken => m.n = Len(got[u]) + 1 /\ Len(got'[u]) = Len(got[u]) + 1 /\ Len(got'[u]) <= source[u].sent
               /\ m.what = "closed" => ~source[u].open /\ Len(got[u]) = source[u].made
    <3>1. InOrder(q, source[u], got[u])
      BY <2>4, <1>1, <1>18 DEF OK, WatchOK
    <3>2. taken <=> q[1].what = "event"
      BY <2>4, <1>3 DEF taken
    <3>3. /\ taken => Len(got'[u]) = Len(got[u]) + 1
          /\ ~taken => Len(got'[u]) = Len(got[u])
      BY <1>3, <1>11, <2>1
    <3> QED
      BY <3>1, <3>2, <3>3, <1>2, <1>3, <2>1, InOrderTail
  <2>5. taken => u \in watches
    BY DEF taken
  <2>6. /\ Len(got'[u]) <= source[u].sent
        /\ \A i \in 1 .. Len(got'[u]) : got'[u][i] = i
    <3>1. Len(got[u]) <= source[u].sent /\ \A i \in 1 .. Len(got[u]) : got[u][i] = i
      BY <1>1, <1>18 DEF OK, WatchOK
    <3>2. CASE taken
      <4>1. got'[u] = Append(got[u], Len(got[u]) + 1) /\ Len(got'[u]) <= source[u].sent
        BY <3>2, <1>11, <2>4, <2>5
      <4> QED
        BY <4>1, <3>1, <2>1
    <3>3. CASE ~taken
      BY <3>1, <3>3, <1>11
    <3> QED
      BY <3>2, <3>3
  <2>7. x.cancelled => x.pc = "done"
    BY <1>1, <1>18 DEF OK, WatchOK
  <2>8. ~taken /\ hit => ~x.cancelled /\ x.reply = "none"
    BY <2>7, <1>1 DEF OK, UserOK
  <2> DEFINE waits ==
         user'[u].handle \/ (user'[u].act = "open" /\ user'[u].pc = "wait" /\ user'[u].reply = "opened")
  <2>9. ASSUME failure' = "no", u \notin watches', waits
        PROVE  ~source[u].open /\ Len(got'[u]) = source[u].made
    <3>1. ~taken /\ got'[u] = got[u] /\ failure = "no"
      BY <2>9, <1>2, <1>10, <1>11
    <3>2. CASE u \in watches
      <4>1. m.what = "closed"
        BY <3>1, <3>2, <2>9, <1>10
      <4> QED
        BY <3>1, <3>2, <4>1, <2>4
    <3>3. CASE u \notin watches
      <4>1. x.handle \/ (x.act = "open" /\ x.pc = "wait" /\ x.reply = "opened")
        <5>1. CASE hit
          <6>1. x.reply = "none"
            BY <5>1, <3>1, <2>8
          <6>2. x.act = "open" => u \in watches
            BY <6>1, <3>1, <1>1, <1>18 DEF OK, WatchOK
          <6> QED
            BY <6>2, <3>3, <2>9, <1>12
        <5>2. CASE ~hit
          BY <5>2, <2>9, <1>12
        <5> QED
          BY <5>1, <5>2
      <4> QED
        BY <3>1, <3>3, <4>1, <1>1, <1>18 DEF OK, WatchOK
    <3> QED
      BY <3>2, <3>3
  <2>10. user'[u].act = "open" /\ user'[u].reply = "none" /\ failure' = "no" => u \in watches'
    <3>1. SUFFICES ASSUME x.act = "open", user'[u].reply = "none", failure = "no" PROVE u \in watches'
      BY <1>2, <1>12
    <3>2. x.reply = "none" /\ (taken \/ ~hit)
      BY <3>1, <1>12, <1>13
    <3>3. u \in watches
      BY <3>1, <3>2, <1>1, <1>18 DEF OK, WatchOK
    <3>4. CASE taken
      BY <3>4, <1>10
    <3>5. CASE ~hit
      <4>1. x.pc \in {"insert", "check", "write", "ending", "failed", "wait"}
        BY <3>1, <1>1 DEF OK, UserOK, UserState, Pc
      <4>2. x.pc = "wait"
        BY <4>1, <3>1, <2>2 DEF Fresh
      <4> QED
        BY <4>2, <3>1, <3>2, <3>5, <1>1 DEF OK, UserOK
    <3> QED
      BY <3>2, <3>4, <3>5
  <2>11. WatchOK(u)'
    <3>1. u \in watches' => u \in watches
      BY <1>10, <2>5
    <3>2. u \in watches' => InOrder(replies'[u], source'[u], got'[u])
      BY <3>1, <2>1, <2>4, <1>4
    <3>3. /\ source'[u].sent <= source'[u].made
          /\ x.pc = "new" => u \notin watches'
          /\ u \in watches' => x.act # "close" /\ ~Closing(u)'
      BY <3>1, <2>1, <1>1, <1>5, <1>18 DEF OK, WatchOK
    <3> QED
      BY <3>2, <3>3, <2>1, <2>3, <2>6, <2>7, <2>9, <2>10, <1>12 DEF WatchOK
  <2>12. WatchHeld(u)'
    <3>1. SUFFICES ASSUME failure = "no", up, ~x.cancelled, source[u].open
                   PROVE  \/ x.handle \/ x.pc = "closing" \/ Closing(u) \/ Opened(u)'
                          \/ x.act = "close" /\ x.pc \in {"insert", "check", "write"}
      BY <1>2, <1>5, <1>12, <2>1, <2>3 DEF WatchHeld
    <3>2. \/ x.handle \/ x.pc = "closing" \/ Closing(u) \/ Opened(u)
          \/ x.act = "close" /\ x.pc \in {"insert", "check", "write"}
      BY <3>1, <1>1, <1>18 DEF OK, WatchHeld
    <3>3. ASSUME Opened(u) PROVE Opened(u)'
      <4>1. CASE x.reply = "opened"
        <5>1. taken \/ ~hit
          BY <4>1, <2>8
        <5> QED
          BY <5>1, <4>1, <3>3, <1>12 DEF Opened
      <4>2. CASE x.reply = "none" /\ q[1].what = "opened"
        <5>1. ~taken
          BY <4>2, <1>3 DEF taken
        <5>2. hit
          BY <4>2, <3>1, <3>3, <1>1 DEF OK, UserOK, Opened
        <5> QED
          BY <5>1, <5>2, <4>2, <3>3, <1>3, <1>12 DEF Opened
      <4> QED
        BY <4>1, <4>2, <3>3 DEF Opened
    <3> QED
      BY <3>2, <3>3
  <2> QED
    BY <2>11, <2>12
<1> QED
  BY <1>14, <1>15, <1>16, <1>17, <1>18 DEF IInv, OK

-----------------------------------------------------------------------------
(* The session                                                             *)

(* What a user is sent without having asked.                               *)
LEMMA SentKept ==
    ASSUME IInv, NEW v \in User, NEW src \in [Watcher -> Source],
           v \in Watcher => src[v] = source[v] /\ source'[v] = Flushed(src)[v] /\ got'[v] = got[v],
           replies'[v] = replies[v] \o Batch(src, v),
           v \in Pusher => push'[v] = push[v] /\ executed'[v] = executed[v],
           UNCHANGED <<user, pending, watches, failure, up>>,
           Asked(v)' <=> Asked(v), Opening(v)' <=> Opening(v), Closing(v)' <=> Closing(v), Sole(v)' <=> Sole(v)
    PROVE  OK(v)' /\ replies'[v] \in Seq(Reply) /\ (v \in Watcher => source'[v] \in Source)
<1>1. OK(v) /\ replies[v] \in Seq(Reply) /\ up \in BOOLEAN
  BY DEF IInv, Types
<1>2. CASE v \notin Watcher
  <2>1. replies'[v] = replies[v]
    BY <1>1, <1>2 DEF Batch
  <2>2. Same(v) /\ Ends
    BY <1>1, <1>2, <2>1 DEF Same, Ends
  <2> QED
    BY <1>1, <1>2, <2>1, <2>2, FrameKept
<1>3. CASE v \in Watcher
  <2> DEFINE q == replies[v]
             s == source[v]
             g == got[v]
             qq == replies'[v]
             ss == source'[v]
  <2>1. s \in Source /\ g \in Seq(Nat) /\ s.sent <= s.made
    BY <1>1, <1>3 DEF IInv, Types, OK, WatchOK
  <2>2. /\ qq \in Seq(Reply) /\ ss \in Source
        /\ q # <<>> => qq # <<>> /\ qq[1] = q[1]
        /\ ~s.open => qq = q /\ ss = s
        /\ ss.open => s.open
        /\ ss.made = s.made /\ s.sent <= ss.sent /\ ss.sent <= ss.made
        /\ InOrder(q, s, g) => InOrder(qq, ss, g)
    <3>1. src[v] = s /\ ss = Flushed(src)[v] /\ qq = q \o Batch(src, v)
      BY <1>3
    <3>2. /\ q \o Batch(src, v) \in Seq(Reply) /\ Flushed(src)[v] \in Source
          /\ q # <<>> => q \o Batch(src, v) # <<>> /\ (q \o Batch(src, v))[1] = q[1]
          /\ ~src[v].open => q \o Batch(src, v) = q /\ Flushed(src)[v] = src[v]
          /\ Flushed(src)[v].open => src[v].open
          /\ /\ Flushed(src)[v].made = src[v].made /\ src[v].sent <= Flushed(src)[v].sent
             /\ Flushed(src)[v].sent <= Flushed(src)[v].made
          /\ InOrder(q, src[v], g) => InOrder(q \o Batch(src, v), Flushed(src)[v], g)
      BY <1>1, <1>3, <2>1, FlushedSource
    <3> HIDE DEF qq, ss, s
    <3> QED
      BY <3>1, <3>2
  <2>3. Len(g) \in Nat /\ s.sent \in Nat /\ ss.sent \in Nat
    BY <2>1, <2>2 DEF Source
  <2>4. ~Closed.open
    BY DEF Closed
  <2>5. UserOK(v)'
    BY <1>1 DEF OK, UserOK
  <2>6. Fresh(v)' <=> Fresh(v)
    BY DEF Fresh
  <2>7. Len(got'[v]) <= ss.sent
    <3>1. Len(g) <= s.sent /\ got'[v] = g
      BY <1>1, <1>3 DEF OK, WatchOK
    <3> QED
      BY <3>1, <2>2, <2>3
  <2> HIDE DEF q, s, qq, ss
  <2>8. WatchOK(v)'
    BY <1>1, <1>3, <2>2, <2>4, <2>6, <2>7 DEF OK, WatchOK, q, s, qq, ss
  <2>9. Opened(v) => Opened(v)'
    BY <2>2 DEF Opened, q, qq
  <2>10. WatchHeld(v)'
    BY <1>1, <1>3, <2>2, <2>9 DEF OK, WatchHeld, q, s, qq, ss
  <2>11. v \notin Pusher
    BY <1>3, LinkAssumption
  <2> QED
    BY <1>3, <2>2, <2>5, <2>8, <2>10, <2>11 DEF OK, qq, ss
<1> QED
  BY <1>2, <1>3

(* The events that are ready are sent.                                     *)
LEMMA FlushKept ==
    ASSUME IInv, Flush
    PROVE  IInv'
<1>1. /\ UNCHANGED <<user, pending, watches, failure, up, requests, calls, push, got, executed>>
      /\ replies' = [u \in User |-> replies[u] \o Batch(source, u)]
      /\ source' = Flushed(source)
  BY DEF Flush, client
<1>2. source \in [Watcher -> Source]
  BY DEF IInv, Types
<1>3. ASSUME NEW v \in User
      PROVE  OK(v)' /\ replies'[v] \in Seq(Reply) /\ (v \in Watcher => source'[v] \in Source)
  BY <1>1, <1>2, SameRequests, SentKept
<1>4. replies' \in [User -> Seq(Reply)]
  BY <1>1, <1>3
<1>5. source' \in [Watcher -> Source]
  <2>1. \A i \in Watcher : source'[i] \in Source
    BY <1>3 DEF User
  <2> QED
    BY <1>1, <2>1 DEF Flushed
<1>6. Types'
  BY <1>1, <1>4, <1>5 DEF IInv, Types
<1> QED
  BY <1>3, <1>6 DEF IInv

(* The answer that a request is given, and what it leaves alone.           *)
Answered(u, what, src) ==
    /\ UNCHANGED <<user, pending, watches, failure, up>>
    /\ replies'[u] = Append(replies[u], Message(what, 0))
    /\ u \in Watcher => source'[u] = src[u] /\ got'[u] = got[u]
    /\ Opening(u)' => Opening(u)
    /\ Opening(u) /\ Head(requests).act # "open" => Opening(u)'
    /\ Closing(u)' => Closing(u)
    /\ Closing(u) /\ Head(requests).act # "close" => Closing(u)'
    /\ Sole(u) => ~Asked(u)' /\ ~Opening(u)' /\ ~Closing(u)' /\ Sole(u)'

(* The key of the request that is served.                                  *)
LEMMA HeadKey ==
    ASSUME IInv, NEW kind, NEW act, Heads(kind, act)
    PROVE  /\ Head(requests).key \in kind /\ Head(requests).key \in User
           /\ Head(requests).act = act /\ Head(requests).seq \in Int
           /\ up /\ requests # <<>> /\ requests \in Seq(Request)
           /\ Asked(Head(requests).key)
           /\ act = "open" => Opening(Head(requests).key)
           /\ act = "close" => Closing(Head(requests).key)
<1>1. /\ requests \in Seq(Request) /\ requests # <<>> /\ up
      /\ Head(requests).key \in kind /\ Head(requests).act = act
  BY DEF IInv, Types, Heads
<1>2. Head(requests) \in Request /\ Head(requests) = requests[1] /\ 1 \in 1 .. Len(requests)
  BY <1>1
<1>3. Head(requests).key \in User /\ Head(requests).seq \in Int
  BY <1>2 DEF Request, User
<1>4. Asked(Head(requests).key)
  BY <1>2 DEF Asked
<1>5. act = "open" => Opening(Head(requests).key)
  BY <1>1, <1>2 DEF Opening
<1>6. act = "close" => Closing(Head(requests).key)
  BY <1>1, <1>2 DEF Closing
<1> QED
  BY <1>1, <1>3, <1>4, <1>5, <1>6

(* What the user who is answered sees of it.                               *)
LEMMA AnswerIs ==
    ASSUME IInv, NEW what \in What, NEW src \in [Watcher -> Source], Respond(what, src),
           requests # <<>>, NEW u \in User, u = Head(requests).key,
           u \in Watcher => ~Ready(src, u)
    PROVE  Answered(u, what, src) /\ replies'[u] \in Seq(Reply)
<1>1. /\ UNCHANGED <<user, pending, watches, failure, up, got>> /\ requests' = Tail(requests)
      /\ source' = Flushed(src)
      /\ replies' = [v \in User |->
                       (IF v = u THEN Append(replies[v], Message(what, 0)) ELSE replies[v]) \o Batch(src, v)]
  BY DEF Respond, client
<1>2. requests \in Seq(Request) /\ replies[u] \in Seq(Reply)
  BY DEF IInv, Types
<1>3. Message(what, 0) \in Reply
  BY DEF Message, Reply
<1>4. Batch(src, u) = <<>>
  BY DEF Batch
<1>5. Append(replies[u], Message(what, 0)) \in Seq(Reply)
  BY <1>2, <1>3
<1>6. replies'[u] = Append(replies[u], Message(what, 0)) \o <<>>
  BY <1>1, <1>4
<1>7. replies'[u] = Append(replies[u], Message(what, 0)) /\ replies'[u] \in Seq(Reply)
  BY <1>5, <1>6
<1>8. u \in Watcher => source'[u] = src[u]
  BY <1>1 DEF Flushed
<1>9. /\ Opening(u)' => Opening(u)
      /\ Opening(u) /\ Head(requests).act # "open" => Opening(u)'
      /\ Closing(u)' => Closing(u)
      /\ Closing(u) /\ Head(requests).act # "close" => Closing(u)'
      /\ Sole(u) => ~Asked(u)' /\ ~Opening(u)' /\ ~Closing(u)' /\ Sole(u)'
  BY <1>1, <1>2, ServedRequest
<1> QED
  BY <1>1, <1>7, <1>8, <1>9 DEF Answered

(* An answer is good when it is good for the user who is answered.         *)
LEMMA RespondKept ==
    ASSUME IInv, NEW what \in What, NEW src \in [Watcher -> Source], Respond(what, src),
           requests # <<>>, NEW u \in User, u = Head(requests).key,
           u \in Watcher => ~Ready(src, u),
           \A i \in Watcher : i # u => src[i] = source[i],
           push' \in [Pusher -> Int], executed' \in [Pusher -> Seq(Int)],
           \A i \in Pusher : i # u => push'[i] = push[i] /\ executed'[i] = executed[i],
           OK(u)'
    PROVE  IInv'
<1>1. /\ UNCHANGED <<user, pending, watches, failure, up, calls, got>> /\ requests' = Tail(requests)
      /\ source' = Flushed(src)
      /\ replies' = [v \in User |->
                       (IF v = u THEN Append(replies[v], Message(what, 0)) ELSE replies[v]) \o Batch(src, v)]
  BY DEF Respond, client
<1>2. requests \in Seq(Request)
  BY DEF IInv, Types
<1>3. ASSUME NEW v \in User, v # u
      PROVE  OK(v)' /\ replies'[v] \in Seq(Reply) /\ (v \in Watcher => source'[v] \in Source)
  <2>1. replies'[v] = replies[v] \o Batch(src, v)
    BY <1>1, <1>3
  <2>2. /\ Asked(v)' <=> Asked(v)
        /\ Opening(v)' <=> Opening(v)
        /\ Closing(v)' <=> Closing(v)
        /\ Sole(v)' <=> Sole(v)
    BY <1>1, <1>2, <1>3, ServedRequest
  <2>3. v \in Watcher => src[v] = source[v] /\ source'[v] = Flushed(src)[v] /\ got'[v] = got[v]
    BY <1>1, <1>3
  <2>4. v \in Pusher => push'[v] = push[v] /\ executed'[v] = executed[v]
    BY <1>3
  <2> QED
    BY <1>1, <2>1, <2>2, <2>3, <2>4, SentKept
<1>4. replies'[u] \in Seq(Reply)
  BY AnswerIs
<1>5. replies' \in [User -> Seq(Reply)]
  BY <1>1, <1>3, <1>4
<1>6. source' \in [Watcher -> Source]
  <2>1. u \in Watcher => source'[u] = src[u]
    BY <1>1 DEF Flushed
  <2>2. \A i \in Watcher : source'[i] \in Source
    BY <1>3, <2>1 DEF User
  <2> QED
    BY <1>1, <2>2 DEF Flushed
<1>7. requests' \in Seq(Request)
  BY <1>1, <1>2, ServedRequest
<1>8. Types'
  BY <1>1, <1>5, <1>6, <1>7 DEF IInv, Types
<1> QED
  BY <1>3, <1>8 DEF IInv

(* A frame that is appended to none is the only one.                       *)
LEMMA OneFrame ==
    ASSUME NEW what \in What
    PROVE  /\ Len(Append(<<>>, Message(what, 0))) = 1 /\ Append(<<>>, Message(what, 0)) # <<>>
           /\ Append(<<>>, Message(what, 0))[1].what = what
<1>1. Message(what, 0) \in Reply /\ Message(what, 0).what = what
  BY DEF Message, Reply
<1>2. Len(Append(<<>>, Message(what, 0))) = 1 /\ Append(<<>>, Message(what, 0))[1] = Message(what, 0)
  BY <1>1
<1> QED
  BY <1>1, <1>2

(* A watch is opened or refused.                                           *)
LEMMA ServeWatchOpenKept ==
    ASSUME IInv, ServeWatchOpen
    PROVE  IInv'
<1>0. PICK u : u = Head(requests).key
  OBVIOUS
<1> DEFINE q == replies[u]
           x == user[u]
<1>1. /\ u \in Watcher /\ u \in User /\ Head(requests).act = "open" /\ up /\ requests # <<>>
      /\ Opening(u)
  BY <1>0, HeadKey DEF ServeWatchOpen
<1>2. /\ OK(u) /\ q \in Seq(Reply) /\ source \in [Watcher -> Source]
      /\ push' \in [Pusher -> Int] /\ executed' \in [Pusher -> Seq(Int)]
      /\ push' = push /\ executed' = executed /\ u \notin Pusher
  BY <1>1, LinkAssumption DEF IInv, Types, ServeWatchOpen
<1>3. /\ Sole(u) /\ q = <<>> /\ source[u] = Closed /\ got[u] = <<>> /\ ~x.handle /\ ~Fresh(u)
      /\ x.pc = "done" \/ (x.pc = "wait" /\ x.act = "open" /\ x.reply # "opened")
  BY <1>1, <1>2, AskedAct DEF OK, WatchOK
<1>4. ASSUME NEW what \in What, NEW src \in [Watcher -> Source], Respond(what, src),
             \A i \in Watcher : i # u => src[i] = source[i],
             \/ what = "error" /\ src[u] = Closed
             \/ what = "opened" /\ src[u] = [Closed EXCEPT !.open = TRUE]
      PROVE  IInv'
  <2>1. /\ src[u].made = 0 /\ src[u].sent = 0 /\ src[u].state = "live"
        /\ src[u].open <=> what = "opened"
    BY <1>4 DEF Closed
  <2>2. ~Ready(src, u)
    BY <2>1 DEF Ready
  <2>3. Answered(u, what, src)
    BY <1>0, <1>1, <1>4, <2>2, AnswerIs
  <2> DEFINE qq == replies'[u]
  <2>4. /\ Len(qq) = 1 /\ qq # <<>> /\ qq[1].what = what
        /\ \A i \in 1 .. Len(qq) : i = 1
    <3>1. qq = Append(<<>>, Message(what, 0))
      BY <1>3, <2>3 DEF Answered
    <3> HIDE DEF qq
    <3>2. Len(qq) = 1 /\ qq # <<>> /\ qq[1].what = what
      BY <3>1, OneFrame, Zenon
    <3> QED
      BY <3>2
  <2>5. /\ ~Asked(u)' /\ ~Opening(u)' /\ ~Closing(u)' /\ Sole(u)'
        /\ source'[u] = src[u] /\ got'[u] = <<>>
        /\ UNCHANGED <<user, pending, watches, failure, up>>
    BY <1>1, <1>3, <2>3 DEF Answered
  <2>6. InOrder(qq, source'[u], got'[u])
    <3>1. Len(got'[u]) = 0
      BY <2>5
    <3>2. source'[u].sent - Len(got'[u]) = 0 /\ (source'[u].open <=> what = "opened")
      BY <3>1, <2>1, <2>5
    <3>3. (IF qq # <<>> /\ qq[1].what = "opened" THEN 1 ELSE 0) = IF what = "opened" THEN 1 ELSE 0
      BY <2>4
    <3>4. what \in {"error", "opened"}
      BY <1>4
    <3> HIDE DEF qq
    <3> QED
      BY <3>1, <3>2, <3>3, <3>4, <2>4 DEF InOrder
  <2>7. ~Fresh(u)'
    BY <1>3, <2>5 DEF Fresh
  <2>8. UserOK(u)'
    BY <1>2, <2>5 DEF OK, UserOK
  <2>9. WatchOK(u)'
    <3>1. /\ source'[u].sent <= source'[u].made /\ Len(got'[u]) <= source'[u].sent
          /\ \A i \in 1 .. Len(got'[u]) : got'[u][i] = i
      BY <2>1, <2>5
    <3>2. WatchOK(u)
      BY <1>1, <1>2 DEF OK
    <3> QED
      BY <3>1, <3>2, <1>3, <2>5, <2>6, <2>7 DEF WatchOK
  <2>10. WatchHeld(u)'
    <3>1. WatchHeld(u)
      BY <1>1, <1>2 DEF OK
    <3> QED
      BY <3>1, <1>1, <2>1, <2>4, <2>5 DEF WatchHeld, Opened
  <2>11. OK(u)'
    BY <1>2, <2>8, <2>9, <2>10 DEF OK
  <2> QED
    BY <1>0, <1>1, <1>2, <1>4, <2>2, <2>11, RespondKept
<1>5. CASE Respond("error", source)
  BY <1>2, <1>3, <1>4, <1>5 DEF What
<1>6. CASE Respond("opened", [source EXCEPT ![u] = [Closed EXCEPT !.open = TRUE]])
  <2> DEFINE s == [Closed EXCEPT !.open = TRUE]
             src == [source EXCEPT ![u] = s]
  <2>1. s \in Source
    BY DEF Closed, Source
  <2>2. src \in [Watcher -> Source] /\ src[u] = s /\ \A i \in Watcher : i # u => src[i] = source[i]
    BY <1>1, <1>2, <2>1
  <2> HIDE DEF src
  <2>3. Respond("opened", src)
    BY <1>6 DEF src
  <2> QED
    BY <1>4, <2>2, <2>3 DEF What
<1> QED
  BY <1>0, <1>5, <1>6 DEF ServeWatchOpen

(* A watch is closed.                                                      *)
LEMMA ServeWatchCloseKept ==
    ASSUME IInv, ServeWatchClose
    PROVE  IInv'
<1>0. PICK u : u = Head(requests).key
  OBVIOUS
<1> DEFINE q == replies[u]
           x == user[u]
           s == [source[u] EXCEPT !.open = FALSE]
           src == [source EXCEPT ![u] = s]
<1>1. /\ u \in Watcher /\ u \in User /\ Head(requests).act = "close" /\ up /\ requests # <<>>
      /\ Closing(u) /\ Asked(u)
  BY <1>0, HeadKey DEF ServeWatchClose
<1>2. /\ OK(u) /\ source \in [Watcher -> Source]
      /\ push' \in [Pusher -> Int] /\ executed' \in [Pusher -> Seq(Int)]
      /\ push' = push /\ executed' = executed /\ u \notin Pusher
  BY <1>1, LinkAssumption DEF IInv, Types, ServeWatchClose
<1>3. /\ s \in Source /\ ~s.open /\ s.made = source[u].made /\ s.sent = source[u].sent
  BY <1>1, <1>2 DEF Source
<1>4. src \in [Watcher -> Source] /\ src[u] = s /\ \A i \in Watcher : i # u => src[i] = source[i]
  BY <1>1, <1>2, <1>3
<1>5. Respond("closed", src)
  BY <1>0, <1>1, <1>2 DEF ServeWatchClose
<1> HIDE DEF src, s
<1>6. ~Ready(src, u)
  BY <1>3, <1>4 DEF Ready
<1>7. Answered(u, "closed", src)
  BY <1>0, <1>1, <1>4, <1>5, <1>6, AnswerIs DEF What
<1>8. WatchOK(u) /\ u \notin watches /\ ~Fresh(u)
  BY <1>1, <1>2 DEF OK, WatchOK
<1>9. ~Opening(u)
  <2>1. Opening(u) => Sole(u)
    BY <1>8 DEF WatchOK
  <2> QED
    BY <2>1, <1>1, <1>7 DEF Answered
<1>10. /\ ~Opening(u)' /\ source'[u] = s /\ got'[u] = got[u]
       /\ UNCHANGED <<user, pending, watches, failure, up>>
  BY <1>1, <1>4, <1>7, <1>9 DEF Answered
<1>11. ~Fresh(u)'
  BY <1>8, <1>10 DEF Fresh
<1>12. UserOK(u)'
  BY <1>2, <1>10 DEF OK, UserOK
<1>13. WatchOK(u)'
  BY <1>3, <1>8, <1>10, <1>11 DEF WatchOK
<1>14. WatchHeld(u)'
  BY <1>3, <1>10 DEF WatchHeld
<1>15. OK(u)'
  BY <1>2, <1>12, <1>13, <1>14 DEF OK
<1> QED
  BY <1>0, <1>1, <1>2, <1>4, <1>5, <1>6, <1>15, RespondKept DEF What

(* The service of a push: its only frame is the answer.                    *)
LEMMA PushServed ==
    ASSUME IInv, NEW u \in Pusher, u = Head(requests).key, requests # <<>>, up, Asked(u),
           NEW what \in What, Respond(what, source),
           push' \in [Pusher -> Int], executed' \in [Pusher -> Seq(Int)],
           \A i \in Pusher : i # u => push'[i] = push[i] /\ executed'[i] = executed[i],
           push'[u] = -1 \/ push'[u] = Len(executed'[u]),
           \A i \in 1 .. Len(executed'[u]) : executed'[u][i] = i - 1,
           user[u].accepted <= Len(executed'[u]),
           what = "accepted" => user[u].accepted < Len(executed'[u]),
           \/ push'[u] = -1
           \/ Opening(u) /\ what = "opened"
           \/ push[u] >= 0 /\ Head(requests).act \notin {"open", "close"}
    PROVE  IInv'
<1> DEFINE q == replies[u]
           x == user[u]
           qq == replies'[u]
<1>1. /\ OK(u) /\ q \in Seq(Reply) /\ u \in User /\ source \in [Watcher -> Source] /\ u \notin Watcher
  BY LinkAssumption DEF IInv, Types, User
<1>2. PushOK(u) /\ PushHeld(u) /\ UserOK(u)
  BY <1>1 DEF OK
<1>3. Sole(u) /\ q = <<>> /\ Out(u)
  BY <1>2 DEF PushOK, Out
<1>4. Answered(u, what, source)
  BY <1>1, AnswerIs
<1>5. Len(qq) = 1 /\ qq # <<>> /\ qq[1].what = what
  <2>1. qq = Append(<<>>, Message(what, 0))
    BY <1>3, <1>4 DEF Answered
  <2> HIDE DEF qq
  <2> QED
    BY <2>1, OneFrame, Zenon
<1>6. /\ ~Asked(u)' /\ ~Opening(u)' /\ ~Closing(u)' /\ Sole(u)'
      /\ UNCHANGED <<user, pending, watches, failure, up>>
  BY <1>3, <1>4 DEF Answered
<1>7. /\ ~Fresh(u) /\ x.pc \notin {"write", "ending", "failed"} /\ x.reply # "accepted"
      /\ failure \in {"no", "set"} => x.pc # "check" /\ u \in pending
  BY <1>2, <1>3 DEF PushOK
<1>8. ~Fresh(u)'
  BY <1>6, <1>7 DEF Fresh
<1>9. UserOK(u)'
  BY <1>2, <1>6 DEF UserOK
<1>10. PushOK(u)'
  <2> HIDE DEF qq
  <2>1. Len(qq) <= 1
    BY <1>5
  <2> QED
    BY <1>5, <1>6, <1>7, <1>8, <2>1 DEF PushOK, qq
<1>11. PushHeld(u)'
  <2>1. SUFFICES ASSUME failure = "no", ~x.cancelled, push'[u] >= 0
                 PROVE  \/ x.handle \/ x.pc = "unclosed" \/ Opened(u)'
                        \/ x.act = "close" /\ x.pc \in {"check", "write"}
    BY <1>6 DEF PushHeld
  <2>2. CASE Opening(u) /\ what = "opened"
    BY <2>1, <2>2, <1>2, <1>5, <1>6 DEF PushHeld, Opened
  <2>3. CASE push[u] >= 0 /\ Head(requests).act \notin {"open", "close"}
    <3>1. ~Closing(u)
      BY <2>3, <1>3, <1>4 DEF Answered
    <3>2. \/ x.handle \/ x.pc = "unclosed" \/ Opened(u)
          \/ x.act = "close" /\ x.pc \in {"check", "write"}
      BY <2>1, <2>3, <3>1, <1>2 DEF PushHeld
    <3>3. Opened(u) => Opened(u)'
      BY <1>3, <1>6 DEF Opened
    <3> QED
      BY <3>2, <3>3
  <2> QED
    BY <2>1, <2>2, <2>3
<1>12. OK(u)'
  BY <1>1, <1>9, <1>10, <1>11 DEF OK
<1> QED
  BY <1>1, <1>12, RespondKept

(* A push is opened or refused.                                            *)
LEMMA ServePushOpenKept ==
    ASSUME IInv, ServePushOpen
    PROVE  IInv'
<1> DEFINE u == Head(requests).key
<1>1. /\ u \in Pusher /\ u \in User /\ Head(requests).act = "open" /\ up /\ requests # <<>>
      /\ Opening(u) /\ Asked(u)
  BY HeadKey DEF ServePushOpen
<1>2. /\ push \in [Pusher -> Int] /\ executed \in [Pusher -> Seq(Int)] /\ PushOK(u)
      /\ executed' = executed
  BY <1>1 DEF IInv, Types, OK, ServePushOpen
<1>3. /\ push[u] = -1 /\ executed[u] = <<>> /\ user[u].accepted <= Len(executed[u])
      /\ Len(executed[u]) = 0
  BY <1>1, <1>2 DEF PushOK
<1> HIDE DEF u
<1>4. CASE Respond("error", source) /\ push' = push
  BY <1>1, <1>2, <1>3, <1>4, PushServed DEF What, u
<1>5. CASE Respond("opened", source) /\ push' = [push EXCEPT ![u] = 0]
  <2>1. push' \in [Pusher -> Int] /\ push'[u] = 0 /\ \A i \in Pusher : i # u => push'[i] = push[i]
    BY <1>1, <1>2, <1>5
  <2> QED
    BY <1>1, <1>2, <1>3, <1>5, <2>1, PushServed DEF What, u
<1> QED
  BY <1>4, <1>5 DEF ServePushOpen, u

(* An item is executed in its turn, fails, or is refused.                  *)
LEMMA ServeItemKept ==
    ASSUME IInv, ServeItem
    PROVE  IInv'
<1> DEFINE u == Head(requests).key
           seq == Head(requests).seq
           done == [executed EXCEPT ![u] = Append(executed[u], seq)]
<1>1. /\ u \in Pusher /\ u \in User /\ Head(requests).act = "item" /\ up /\ requests # <<>>
      /\ Asked(u) /\ seq \in Int
  BY HeadKey DEF ServeItem
<1>2. /\ push \in [Pusher -> Int] /\ executed \in [Pusher -> Seq(Int)] /\ PushOK(u)
      /\ user[u].accepted \in Nat
  BY <1>1 DEF IInv, Types, OK, UserState
<1>3. /\ push[u] = -1 \/ push[u] = Len(executed[u])
      /\ \A i \in 1 .. Len(executed[u]) : executed[u][i] = i - 1
      /\ user[u].accepted <= Len(executed[u])
  BY <1>2 DEF PushOK
<1>4. executed[u] \in Seq(Int) /\ Len(executed[u]) \in Nat
  BY <1>1, <1>2
<1>5. /\ Append(executed[u], seq) \in Seq(Int) /\ Len(Append(executed[u], seq)) = Len(executed[u]) + 1
      /\ \A i \in 1 .. Len(executed[u]) : Append(executed[u], seq)[i] = executed[u][i]
      /\ Append(executed[u], seq)[Len(executed[u]) + 1] = seq
  BY <1>1, <1>4
<1>6. /\ done \in [Pusher -> Seq(Int)] /\ done[u] = Append(executed[u], seq)
      /\ \A i \in Pusher : i # u => done[i] = executed[i]
  BY <1>1, <1>2, <1>5
<1> HIDE DEF done
<1>7. ASSUME push[u] >= 0, push[u] = seq
      PROVE  /\ Len(done[u]) = Len(executed[u]) + 1 /\ push[u] = Len(executed[u])
             /\ \A i \in 1 .. Len(done[u]) : done[u][i] = i - 1
             /\ user[u].accepted < Len(done[u]) /\ user[u].accepted <= Len(done[u])
  <2>1. seq = Len(executed[u])
    BY <1>3, <1>4, <1>7
  <2>2. ASSUME NEW i \in 1 .. Len(executed[u]) + 1 PROVE Append(executed[u], seq)[i] = i - 1
    <3>1. CASE i \in 1 .. Len(executed[u])
      BY <3>1, <1>3, <1>5
    <3>2. CASE i = Len(executed[u]) + 1
      BY <3>2, <2>1, <1>4, <1>5
    <3> QED
      BY <3>1, <3>2, <1>4
  <2>3. user[u].accepted < Len(executed[u]) + 1 /\ user[u].accepted <= Len(executed[u]) + 1
    BY <1>2, <1>3, <1>4
  <2> QED
    BY <2>1, <2>2, <2>3, <1>5, <1>6, <1>7
<1>8. \/ Respond("error", source) /\ push' = push /\ executed' = executed
      \/ /\ push[u] >= 0 /\ push[u] = seq
         /\ Respond("accepted", source) /\ push' = [push EXCEPT ![u] = push[u] + 1] /\ executed' = done
      \/ /\ push[u] >= 0 /\ push[u] = seq
         /\ Respond("error", source) /\ push' = [push EXCEPT ![u] = -1] /\ executed' \in {executed, done}
  <2>1. push[u] < 0 \/ push[u] >= 0
    BY <1>1, <1>2
  <2> QED
    BY <2>1 DEF ServeItem, done
<1> HIDE DEF u, seq
<1>9. CASE Respond("error", source) /\ push' = push /\ executed' = executed
  <2>1. push'[u] = -1 \/ push[u] >= 0
    BY <1>3, <1>4, <1>9
  <2> QED
    BY <1>1, <1>2, <1>3, <1>9, <2>1, PushServed DEF What, u
<1>10. CASE /\ push[u] >= 0 /\ push[u] = seq
            /\ Respond("accepted", source) /\ push' = [push EXCEPT ![u] = push[u] + 1] /\ executed' = done
  <2>1. /\ push' \in [Pusher -> Int] /\ push'[u] = push[u] + 1
        /\ \A i \in Pusher : i # u => push'[i] = push[i]
    BY <1>1, <1>2, <1>10
  <2>2. push'[u] = Len(executed'[u])
    BY <2>1, <1>7, <1>10
  <2>3. /\ \A i \in 1 .. Len(executed'[u]) : executed'[u][i] = i - 1
        /\ user[u].accepted < Len(executed'[u]) /\ user[u].accepted <= Len(executed'[u])
        /\ executed' \in [Pusher -> Seq(Int)]
        /\ \A i \in Pusher : i # u => executed'[i] = executed[i]
    BY <1>2, <1>4, <1>6, <1>7, <1>10
  <2> QED
    BY <1>1, <1>10, <2>1, <2>2, <2>3, PushServed DEF What, u
<1>11. CASE /\ push[u] >= 0 /\ push[u] = seq
            /\ Respond("error", source) /\ push' = [push EXCEPT ![u] = -1] /\ executed' \in {executed, done}
  <2>1. /\ push' \in [Pusher -> Int] /\ push'[u] = -1
        /\ \A i \in Pusher : i # u => push'[i] = push[i]
    BY <1>1, <1>2, <1>11
  <2>2. /\ \A i \in 1 .. Len(executed'[u]) : executed'[u][i] = i - 1
        /\ user[u].accepted <= Len(executed'[u])
        /\ executed' \in [Pusher -> Seq(Int)]
        /\ \A i \in Pusher : i # u => executed'[i] = executed[i]
    <3>1. CASE executed' = executed
      BY <3>1, <1>2, <1>3
    <3>2. CASE executed' = done
      BY <3>2, <1>2, <1>4, <1>6, <1>7, <1>11
    <3> QED
      BY <3>1, <3>2, <1>11
  <2> QED
    BY <1>1, <1>11, <2>1, <2>2, PushServed DEF What, u
<1> QED
  BY <1>8, <1>9, <1>10, <1>11

(* A push is closed.                                                       *)
LEMMA ServePushCloseKept ==
    ASSUME IInv, ServePushClose
    PROVE  IInv'
<1> DEFINE u == Head(requests).key
<1>1. /\ u \in Pusher /\ u \in User /\ up /\ requests # <<>> /\ Asked(u)
  BY HeadKey DEF ServePushClose
<1>2. /\ push \in [Pusher -> Int] /\ executed \in [Pusher -> Seq(Int)] /\ PushOK(u)
      /\ executed' = executed /\ push' = [push EXCEPT ![u] = -1]
  BY <1>1 DEF IInv, Types, OK, ServePushClose
<1>3. PICK what \in {"closed", "error"} : Respond(what, source)
  BY DEF ServePushClose
<1>4. /\ push' \in [Pusher -> Int] /\ push'[u] = -1 /\ \A i \in Pusher : i # u => push'[i] = push[i]
  BY <1>1, <1>2
<1>5. /\ \A i \in 1 .. Len(executed[u]) : executed[u][i] = i - 1
      /\ user[u].accepted <= Len(executed[u])
  BY <1>2 DEF PushOK
<1> HIDE DEF u
<1> QED
  BY <1>1, <1>2, <1>3, <1>4, <1>5, PushServed DEF What, u

(* A call is answered.                                                     *)
LEMMA AnswerCallKept ==
    ASSUME IInv, NEW u \in User, AnswerCall(u)
    PROVE  IInv'
<1>1. /\ u \in Caller /\ u \notin Watcher /\ u \notin Pusher
      /\ calls' \subseteq Caller /\ requests' = requests
      /\ replies' = [replies EXCEPT ![u] = Append(replies[u], Message("answer", 0))]
      /\ UNCHANGED <<user, pending, watches, failure, up, source, push, executed, got>>
  BY LinkAssumption DEF IInv, Types, AnswerCall, client, session
<1>2. replies \in [User -> Seq(Reply)] /\ Message("answer", 0) \in Reply
  BY DEF IInv, Types, Message, Reply, What
<1>3. Append(replies[u], Message("answer", 0)) \in Seq(Reply)
  BY <1>2
<1>4. replies' \in [User -> Seq(Reply)] /\ \A v \in User : v # u => replies'[v] = replies[v]
  BY <1>1, <1>2, <1>3
<1>5. Types'
  BY <1>1, <1>4 DEF IInv, Types
<1>6. ASSUME NEW v \in User, v # u PROVE OK(v)'
  <2>1. Same(v) /\ Ends
    BY <1>1, <1>4, <1>6, SameRequests DEF Same, Ends, IInv, Types
  <2> QED
    BY <2>1, FrameKept DEF IInv
<1>7. UserOK(u)'
  BY <1>1 DEF IInv, OK, UserOK
<1> QED
  BY <1>1, <1>5, <1>6, <1>7 DEF IInv, OK

(* The session ends with its carrier.                                      *)
LEMMA StopKept ==
    ASSUME IInv, Stop
    PROVE  IInv'
<1>1. /\ ~up /\ requests' = <<>> /\ calls' = {} /\ push' = [i \in Pusher |-> -1]
      /\ source' = [i \in Watcher |-> [source[i] EXCEPT !.open = FALSE]]
      /\ UNCHANGED <<user, pending, watches, failure, up, replies, got, executed>>
  BY DEF Stop, client
<1>2. \A i \in Watcher : source[i] \in Source
  BY DEF IInv, Types
<1>3. \A i \in Watcher :
         /\ source'[i] \in Source /\ ~source'[i].open
         /\ source'[i].made = source[i].made /\ source'[i].sent = source[i].sent
         /\ source'[i].state = source[i].state
  BY <1>1, <1>2 DEF Source
<1>4. \A v : ~Asked(v)' /\ ~Opening(v)' /\ ~Closing(v)' /\ Sole(v)'
  BY <1>1 DEF Asked, Opening, Closing, Sole
<1>5. Types'
  <2>1. source' \in [Watcher -> Source]
    BY <1>1, <1>3
  <2>2. requests' \in Seq(Request) /\ push' \in [Pusher -> Int]
    BY <1>1
  <2> QED
    BY <1>1, <2>1, <2>2 DEF IInv, Types
<1>6. ASSUME NEW v \in User PROVE OK(v)'
  <2>1. OK(v)
    BY DEF IInv
  <2>2. Fresh(v)' <=> Fresh(v)
    BY <1>1 DEF Fresh
  <2>3. UserOK(v)'
    BY <1>1, <2>1 DEF OK, UserOK
  <2>4. ASSUME v \in Pusher PROVE PushOK(v)' /\ PushHeld(v)'
    <3>1. push'[v] = -1
      BY <1>1, <2>4
    <3>2. Out(v)' => Out(v)
      BY <1>1, <1>4 DEF Out
    <3>3. PushOK(v)'
      BY <1>1, <1>4, <2>1, <2>2, <2>4, <3>1, <3>2 DEF OK, PushOK
    <3>4. PushHeld(v)'
      BY <1>1 DEF PushHeld
    <3> QED
      BY <3>3, <3>4
  <2>5. ASSUME v \in Watcher PROVE WatchOK(v)' /\ WatchHeld(v)'
    <3>1. source[v] = Closed => source'[v] = Closed
      <4> SUFFICES ASSUME source[v] = Closed PROVE source'[v] = Closed
        OBVIOUS
      <4> DEFINE r == source'[v]
      <4>1. r \in Source /\ r.open = FALSE /\ r.made = 0 /\ r.sent = 0 /\ r.state = "live"
        BY <1>3, <2>5 DEF Closed, Source
      <4> HIDE DEF r
      <4>2. r = [open |-> r.open, made |-> r.made, sent |-> r.sent, state |-> r.state]
        BY <4>1 DEF Source
      <4>3. r = Closed
        BY <4>1, <4>2 DEF Closed
      <4> QED
        BY <4>3 DEF r
    <3>2. InOrder(replies[v], source[v], got[v]) => InOrder(replies'[v], source'[v], got'[v])
      BY <1>1, <1>3, <2>5 DEF InOrder
    <3>3. WatchOK(v)'
      BY <1>1, <1>3, <1>4, <2>1, <2>2, <2>5, <3>1, <3>2 DEF OK, WatchOK
    <3>4. WatchHeld(v)'
      BY <1>1 DEF WatchHeld
    <3> QED
      BY <3>3, <3>4
  <2> QED
    BY <2>3, <2>4, <2>5 DEF OK
<1> QED
  BY <1>5, <1>6 DEF IInv

(* A source makes an event, or comes to its end.                           *)
LEMMA SourceKept ==
    ASSUME IInv, NEW i \in Watcher, Emit(i) \/ SourceEnds(i)
    PROVE  IInv'
<1>1. PICK s :
         /\ source' = [source EXCEPT ![i] = s] /\ s \in Source /\ s.open
         /\ s.sent = source[i].sent /\ source[i].made <= s.made /\ s.made \in Nat
  <2>1. source \in [Watcher -> Source] /\ source[i] \in Source
    BY DEF IInv, Types
  <2>2. CASE Emit(i)
    <3> DEFINE s == [source[i] EXCEPT !.made = source[i].made + 1]
    <3>1. /\ s \in Source /\ s.open = source[i].open /\ s.sent = source[i].sent
          /\ source[i].made <= s.made /\ s.made \in Nat
      BY <2>1 DEF Source
    <3>2. source' = [source EXCEPT ![i] = s] /\ source[i].open
      BY <2>1, <2>2 DEF Emit
    <3> HIDE DEF s
    <3> QED
      BY <3>1, <3>2
  <2>3. CASE SourceEnds(i)
    <3>1. PICK state \in {"ended", "faulted"} : source' = [source EXCEPT ![i] = [source[i] EXCEPT !.state = state]]
      BY <2>1, <2>3 DEF SourceEnds
    <3> DEFINE s == [source[i] EXCEPT !.state = state]
    <3>2. /\ s \in Source /\ s.open = source[i].open /\ s.sent = source[i].sent
          /\ source[i].made <= s.made /\ s.made \in Nat
      BY <2>1 DEF Source
    <3>3. source' = [source EXCEPT ![i] = s] /\ source[i].open
      BY <3>1, <2>3 DEF SourceEnds
    <3> HIDE DEF s
    <3> QED
      BY <3>2, <3>3
  <2> QED
    BY <2>2, <2>3
<1>2. /\ source[i].open /\ requests' = requests
      /\ UNCHANGED <<user, pending, watches, failure, up, calls, replies, push, executed, got>>
  BY DEF Emit, SourceEnds, client
<1>3. source' \in [Watcher -> Source] /\ source'[i] = s /\ \A v \in Watcher : v # i => source'[v] = source[v]
  BY <1>1 DEF IInv, Types
<1>4. Types'
  BY <1>2, <1>3 DEF IInv, Types
<1>5. ASSUME NEW v \in User, v # i PROVE OK(v)'
  <2>1. Same(v) /\ Ends
    BY <1>2, <1>3, <1>5, SameRequests DEF Same, Ends, IInv, Types
  <2> QED
    BY <2>1, FrameKept DEF IInv
<1>6. OK(i)'
  <2>1. OK(i) /\ i \notin Pusher /\ source[i] \in Source /\ got[i] \in Seq(Nat)
    BY LinkAssumption DEF IInv, Types, User
  <2>2. WatchOK(i) /\ WatchHeld(i) /\ UserOK(i)
    BY <2>1 DEF OK
  <2>3. source[i] # Closed
    BY <1>2 DEF Closed
  <2>4. ~Fresh(i) /\ ~Opening(i)
    BY <2>2, <2>3 DEF WatchOK
  <2>5. ~Fresh(i)' /\ ~Opening(i)' /\ (Closing(i)' <=> Closing(i))
    BY <1>2, <2>4, SameRequests DEF Fresh
  <2>6. InOrder(replies[i], source[i], got[i]) => InOrder(replies'[i], source'[i], got'[i])
    BY <1>1, <1>2, <1>3 DEF InOrder
  <2>7. source'[i].sent <= source'[i].made /\ Len(got'[i]) <= source'[i].sent
    <3>1. source[i].sent <= source[i].made /\ Len(got[i]) <= source[i].sent
      BY <2>2 DEF WatchOK
    <3>2. s.sent <= s.made
      <4>1. source[i].sent \in Nat /\ source[i].made \in Nat
        BY <2>1 DEF Source
      <4> QED
        BY <4>1, <3>1, <1>1
    <3> QED
      BY <3>1, <3>2, <1>1, <1>2, <1>3
  <2>8. UserOK(i)'
    BY <1>2, <2>2 DEF UserOK
  <2>9. WatchOK(i)'
    BY <1>2, <2>2, <2>5, <2>6, <2>7 DEF WatchOK
  <2>10. WatchHeld(i)'
    BY <1>2, <2>2, <2>5 DEF WatchHeld, Opened
  <2> QED
    BY <2>1, <2>8, <2>9, <2>10 DEF OK
<1> QED
  BY <1>4, <1>5, <1>6 DEF IInv

-----------------------------------------------------------------------------
(* The invariant                                                           *)

(* The invariant holds at first,                                           *)
LEMMA Initial ==
    ASSUME Init
    PROVE  IInv
<1>1. PICK scene \in Scenarios :
         user = [u \in User |->
                   [pc |-> IF u \in scene.users THEN "new" ELSE "done", act |-> "none", handle |-> FALSE,
                    next |-> 0, accepted |-> 0, reply |-> "none", cancelled |-> FALSE]]
  BY DEF Init
<1>2. /\ pending = {} /\ watches = {} /\ failure = "no" /\ up = TRUE /\ requests = <<>> /\ calls = {}
      /\ replies = [u \in User |-> <<>>] /\ source = [i \in Watcher |-> Closed]
      /\ push = [i \in Pusher |-> -1] /\ got = [u \in Watcher |-> <<>>] /\ executed = [i \in Pusher |-> <<>>]
  BY DEF Init
<1>3. \A u \in User :
         /\ user[u] \in UserState /\ user[u].pc \in {"new", "done"} /\ user[u].act = "none"
         /\ ~user[u].handle /\ user[u].accepted = 0 /\ user[u].reply = "none" /\ ~user[u].cancelled
  BY <1>1 DEF UserState, Pc, Act
<1>4. Closed \in Source /\ Closed.made = 0 /\ Closed.sent = 0 /\ ~Closed.open
  BY DEF Closed, Source
<1>5. \A v : ~Asked(v) /\ ~Opening(v) /\ ~Closing(v) /\ Sole(v)
  BY <1>2 DEF Asked, Opening, Closing, Sole
<1>6. Types
  <2>1. user \in [User -> UserState]
    BY <1>1, <1>3
  <2>2. replies \in [User -> Seq(Reply)] /\ requests \in Seq(Request)
    BY <1>2
  <2>3. source \in [Watcher -> Source] /\ push \in [Pusher -> Int]
    BY <1>2, <1>4
  <2>4. got \in [Watcher -> Seq(Nat)] /\ executed \in [Pusher -> Seq(Int)]
    BY <1>2
  <2> QED
    BY <1>2, <2>1, <2>2, <2>3, <2>4 DEF Types
<1>7. ASSUME NEW u \in User PROVE OK(u)
  <2>1. replies[u] = <<>> /\ Len(replies[u]) = 0 /\ ~Out(u)
    BY <1>2, <1>5 DEF Out
  <2>2. UserOK(u)
    BY <1>2, <1>3 DEF UserOK
  <2>3. ASSUME u \in Pusher PROVE PushOK(u) /\ PushHeld(u)
    <3>1. push[u] = -1 /\ executed[u] = <<>> /\ Len(executed[u]) = 0
      BY <1>2, <2>3
    <3>2. PushOK(u)
      BY <1>2, <1>3, <1>5, <2>1, <3>1 DEF PushOK
    <3>3. PushHeld(u)
      BY <1>5, <3>1 DEF PushHeld
    <3> QED
      BY <3>2, <3>3
  <2>4. ASSUME u \in Watcher PROVE WatchOK(u) /\ WatchHeld(u)
    <3>1. source[u] = Closed /\ got[u] = <<>> /\ Len(got[u]) = 0
      BY <1>2, <2>4
    <3>2. WatchOK(u)
      BY <1>2, <1>3, <1>4, <1>5, <2>1, <3>1 DEF WatchOK
    <3>3. WatchHeld(u)
      BY <1>4, <1>5, <3>1 DEF WatchHeld
    <3> QED
      BY <3>2, <3>3
  <2> QED
    BY <2>2, <2>3, <2>4 DEF OK
<1> QED
  BY <1>6, <1>7 DEF IInv

(* and every step keeps it.                                                *)
LEMMA Step ==
    ASSUME IInv, [Next]_vars
    PROVE  IInv'
<1>1. CASE UNCHANGED vars
  <2>1. Ends
    BY <1>1 DEF vars, Ends, IInv, Types
  <2> QED
    BY <1>1, <2>1, EndsKept DEF vars, session
<1>2. ASSUME NEW u \in User, UserStarts(u) PROVE IInv'
  <2>1. CASE Call(u)
    <3>1. u \notin Watcher
      BY <2>1, LinkAssumption DEF Call
    <3> QED
      BY <2>1, <3>1, BeginKept DEF Call
  <2>2. CASE OpenWatch(u)
    BY <2>2, OpenWatchKept
  <2>3. CASE OpenPush(u) \/ PushItem(u) \/ ClosePush(u)
    <3>1. u \notin Watcher
      BY <2>3, LinkAssumption DEF OpenPush, PushItem, ClosePush, Pushing
    <3> QED
      BY <2>3, <3>1, BeginKept DEF OpenPush, PushItem, ClosePush, Pushing
  <2>4. CASE DropStream(u)
    BY <2>4, DropStreamKept
  <2>5. CASE Cancel(u)
    BY <2>5, CancelKept
  <2>6. CASE DropUnclosed(u)
    BY <2>6, DropUnclosedKept
  <2> QED
    BY <1>2, <2>1, <2>2, <2>3, <2>4, <2>5, <2>6 DEF UserStarts
<1>3. ASSUME NEW u \in User, ExchangeStep(u) PROVE IInv'
  BY <1>3, CloseWatchKept, InsertKept, CheckKept, WriteKept, WriteFailsKept, TakeBackKept, ResumeKept
     DEF ExchangeStep
<1>4. ASSUME NEW u \in User, AnswerCall(u) \/ Read(u) PROVE IInv'
  BY <1>4, AnswerCallKept, ReadKept
<1>5. CASE Break \/ ReaderStops
  <2>1. up \in BOOLEAN
    BY DEF IInv, Types
  <2>2. Ends
    <3>1. CASE Break
      BY <3>1, <2>1 DEF Break, Ends, client
    <3>2. CASE ReaderStops
      <4>1. failure = "no" /\ failure' = "set" /\ up' = up
        BY <3>2 DEF ReaderStops
      <4> QED
        BY <4>1, <2>1 DEF Ends
    <3> QED
      BY <1>5, <3>1, <3>2
  <2>3. UNCHANGED <<user, pending, watches, requests, calls, replies, session, got>>
    BY <1>5 DEF Break, ReaderStops, client
  <2> QED
    BY <2>2, <2>3, EndsKept
<1>6. CASE DrainPending \/ ClearWatches
  BY <1>6, DrainPendingKept, ClearWatchesKept
<1>7. CASE Serve
  BY <1>7, ServeWatchOpenKept, ServeWatchCloseKept, ServePushOpenKept, ServeItemKept, ServePushCloseKept DEF Serve
<1>8. CASE Flush \/ Stop
  BY <1>8, FlushKept, StopKept
<1>9. ASSUME NEW i \in Watcher, Emit(i) \/ SourceEnds(i) PROVE IInv'
  BY <1>9, SourceKept
<1> QED
  BY <1>1, <1>2, <1>3, <1>4, <1>5, <1>6, <1>7, <1>8, <1>9 DEF Next

(* So it always holds.                                                     *)
LEMMA Invariance == Spec => []IInv
<1>1. Init => IInv
  BY Initial
<1>2. IInv /\ [Next]_vars => IInv'
  BY Step
<1> QED
  BY <1>1, <1>2, PTL DEF Spec

-----------------------------------------------------------------------------
(* Theorems                                                                *)

(* dispatchResponse and nextWatchBatch: whatever other users, faults and   *)
(* dropped exchanges do, the stream of a watch has the events of its       *)
(* source in order and without a gap, and all of them when it ended with   *)
(* its source.                                                             *)
THEOREM WatchesAreInOrder == Spec => []WatchInOrder
<1>1. IInv => WatchInOrder
  <2> SUFFICES ASSUME IInv, NEW u \in Watcher
               PROVE  /\ got[u] = [n \in 1 .. Len(got[u]) |-> n]
                      /\ Len(got[u]) <= source[u].made
                      /\ user[u].handle /\ u \notin watches /\ failure = "no" => Len(got[u]) = source[u].made
    BY DEF WatchInOrder
  <2>1. WatchOK(u) /\ got[u] \in Seq(Nat) /\ source[u] \in Source
    BY DEF IInv, Types, OK, User
  <2>2. /\ source[u].sent <= source[u].made /\ Len(got[u]) <= source[u].sent
        /\ \A i \in 1 .. Len(got[u]) : got[u][i] = i
        /\ user[u].handle /\ u \notin watches /\ failure = "no" => Len(got[u]) = source[u].made
    BY <2>1 DEF WatchOK
  <2>3. Len(got[u]) <= source[u].made
    <3>1. Len(got[u]) \in Nat /\ source[u].sent \in Nat /\ source[u].made \in Nat
      BY <2>1 DEF Source
    <3> QED
      BY <2>2, <3>1
  <2>4. got[u] = [n \in 1 .. Len(got[u]) |-> n]
    BY <2>1, <2>2
  <2> QED
    BY <2>2, <2>3, <2>4
<1> QED
  BY <1>1, Invariance, PTL

(* CoreLinkSession::push: the service is given the items of a push in      *)
(* order, none twice and none left out, and every item its pusher knows to *)
(* be accepted, also when an item was dropped, refused or retried.         *)
THEOREM PushesAreInOrder == Spec => []PushInOrder
<1>1. IInv => PushInOrder
  <2> SUFFICES ASSUME IInv, NEW u \in Pusher
               PROVE  /\ executed[u] = [n \in 1 .. Len(executed[u]) |-> n - 1]
                      /\ user[u].accepted <= Len(executed[u])
    BY DEF PushInOrder
  <2>1. PushOK(u) /\ executed[u] \in Seq(Int)
    BY DEF IInv, Types, OK, User
  <2>2. /\ \A i \in 1 .. Len(executed[u]) : executed[u][i] = i - 1
        /\ user[u].accepted <= Len(executed[u])
    BY <2>1 DEF PushOK
  <2>3. executed[u] = [n \in 1 .. Len(executed[u]) |-> n - 1]
    BY <2>1, <2>2, SMTT(30)
  <2> QED
    BY <2>2, <2>3
<1> QED
  BY <1>1, Invariance, PTL

(* exchange, terminate, closeWatch: when nothing is under way, and before  *)
(* or after the end of the channel, what is left of a user on either node  *)
(* is left for a handle that will close it, whichever thread ended the     *)
(* channel, unless an exchange of the user was dropped while it waited or, *)
(* for an open push, the host refused the task that closes it.             *)
THEOREM NothingStaysBehind == Spec => []NothingLeftBehind
<1>1. IInv => NothingLeftBehind
  <2> SUFFICES ASSUME IInv, requests = <<>>, \A v \in User : AtRest(v) /\ replies[v] = <<>>,
                      failure = "cleared" \/ (failure = "no" /\ up), NEW u \in User, ~user[u].cancelled
               PROVE  /\ u \notin pending
                      /\ u \in watches => user[u].handle /\ failure = "no"
                      /\ u \in Watcher => (source[u].open /\ up => user[u].handle)
                      /\ u \in Pusher => (push[u] >= 0 /\ up => user[u].handle \/ user[u].pc = "unclosed")
    BY DEF NothingLeftBehind
  <2>1. /\ user[u].pc \in {"new", "rest", "done", "unclosed"} /\ replies[u] = <<>> /\ OK(u)
        /\ failure = "cleared" => ~up
    BY DEF AtRest, IInv, Types
  <2>2. ~Asked(u) /\ ~Closing(u)
    BY DEF Asked, Closing
  <2>3. user[u].act = "none"
    BY <2>1 DEF OK, UserOK
  <2>4. u \notin pending /\ (u \in watches => user[u].handle /\ failure = "no")
    BY <2>1, <2>3 DEF OK, UserOK
  <2>5. u \in Watcher => (source[u].open /\ up => user[u].handle)
    BY <2>1, <2>2, <2>3 DEF OK, WatchHeld, Opened
  <2>6. u \in Pusher => (push[u] >= 0 /\ up => user[u].handle \/ user[u].pc = "unclosed")
    BY <2>1, <2>2, <2>3 DEF OK, PushHeld, Opened
  <2> QED
    BY <2>4, <2>5, <2>6
<1> QED
  BY <1>1, Invariance, PTL
=============================================================================
