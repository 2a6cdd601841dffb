----------------------------- MODULE ThreadFeed -----------------------------
(***************************************************************************)
(* A thread that is open in a client: the events its writers append, their *)
(* announcement through the realtime fanout of an API process, the stream  *)
(* that follows the thread there, and the client, which puts together      *)
(* snapshots it has asked for and events of the stream. An event is its    *)
(* seq; it is that of a message, or of a clear of the thread.              *)
(*   packages/db/src/events.ts (append, clear, follow, ChangeLatch)        *)
(*   packages/adapters/src/realtime.ts (PostgresRealtimeFanout)            *)
(*   apps/api/src/thread-target.ts (threadHead, threadSnapshot)            *)
(*   packages/core/src/thread-subscription.ts                              *)
(*   apps/web/src/lib/thread-events.ts, apps/web/src/pages/Shell.tsx       *)
(***************************************************************************)
EXTENDS Integers, FiniteSetsExt

CONSTANTS
  Writers,           \* transactions that write to the thread
  EVENT_BATCH_SIZE,
  Feeds              \* what may happen, see FeedAssumption

ASSUME FeedAssumption ==
  /\ EVENT_BATCH_SIZE \in Nat \ {0}
  /\ Feeds \subseteq
       [opened : BOOLEAN,  \* a client opens the thread
        messages : Nat, clears : Nat,
        push : BOOLEAN,    \* a fanout is configured
        refreshes : Nat,   \* snapshots the client asks for of its own accord
        lost : Nat,        \* announcements that are lost
        drops : Nat,       \* connections of the listener that end or fail
        cuts : Nat]        \* requests and streams of the client that fail

VARIABLES
  feed,      \* which of these this is
  thread,    \* nextEventSeq, the seqs of events that are in the table, those of messages,
             \* and those of clears so far
  writer,    \* a transaction: how far it is, and the seq it has taken
  listener,  \* PostgresRealtimeFanout
  wire,      \* notifications on their way to it
  stream,    \* followThreadEvents, with its latch
  sub,       \* runThreadSubscription
  view,      \* the client's snapshot
  req,       \* the refresh in progress
  count      \* of what the feed bounds

feedVars == <<feed, thread, writer, listener, wire, stream, sub, view, req, count>>

NONE == -1
LastOf(seqs) == Max(seqs \cup {NONE})

FeedTypeOK ==
  /\ thread.next \in Nat /\ thread.messages \subseteq thread.events
  /\ \A w \in Writers : writer[w].pc \in {"idle", "open", "notify"}
  /\ listener.pc \in {"none", "connect", "listen", "heard", "dispose"}
  /\ \A f \in {"client", "valid", "timer"} : listener[f] \in BOOLEAN
  /\ wire \in Nat
  /\ stream.pc \in {"out", "query", "yield", "wait"} /\ stream.changed \in BOOLEAN
  /\ sub.pc \in {"load", "head", "run"} /\ sub.ready \in BOOLEAN /\ (sub.ready => view.have)
  /\ req.pc \in {"none", "lock", "messages", "cursor", "back"}
  /\ \A c \in {"refreshes", "lost", "drops", "cuts"} : count[c] <= feed[c]

Fetch(by) == [pc |-> "lock", by |-> by, messages |-> {}, cursor |-> NONE, stale |-> FALSE]
Resting == [pc |-> "idle", seq |-> NONE, clears |-> FALSE]
Idle == [Fetch("client") EXCEPT !.pc = "none"]

FeedInit ==
  /\ feed \in Feeds
  /\ thread = [next |-> 0, events |-> {}, messages |-> {}, clears |-> {}]
  /\ writer = [w \in Writers |-> Resting]
  /\ listener = [client |-> FALSE, pc |-> "none", valid |-> FALSE, timer |-> FALSE]
  /\ wire = 0
  /\ stream = [pc |-> "out", got |-> {}, full |-> FALSE, changed |-> FALSE]
  /\ sub = [pc |-> "load", cursor |-> NONE, ready |-> FALSE, pending |-> {}]
  /\ view = [have |-> FALSE, cursor |-> NONE, messages |-> {}]
  /\ req = IF feed.opened THEN Fetch("load") ELSE Idle
  /\ count = [refreshes |-> 0, lost |-> 0, drops |-> 0, cuts |-> 0]

Counted(c) ==
  /\ count[c] < feed[c]
  /\ count' = [count EXCEPT ![c] = @ + 1]

notThread == <<feed, thread, writer>>
notClient == <<sub, view, req>>

-----------------------------------------------------------------------------
(* Writers. The increment of nextEventSeq locks the row of the thread until *)
(* the transaction ends, and a snapshot that is being read locks it FOR    *)
(* SHARE.                                                                  *)

Shared == req.pc \in {"messages", "cursor"}
Opened == \E w \in Writers : writer[w].pc = "open"

open(w, clears) ==
  /\ writer[w].pc = "idle" /\ ~Opened /\ ~Shared
  /\ IF clears THEN Cardinality(thread.clears) < feed.clears
     ELSE thread.next - Cardinality(thread.clears) < feed.messages
  /\ thread' = [thread EXCEPT !.next = @ + 1]
  /\ writer' = [writer EXCEPT ![w] = [pc |-> "open", seq |-> thread.next, clears |-> clears]]
  /\ UNCHANGED <<feed, listener, wire, stream, notClient, count>>

(* Of a clear, its event is all that is left. *)
commit(w) ==
  LET e == writer[w].seq IN
  /\ writer[w].pc = "open"
  /\ thread' = IF writer[w].clears
               THEN [thread EXCEPT !.events = {e}, !.messages = {}, !.clears = @ \cup {e}]
               ELSE [thread EXCEPT !.events = @ \cup {e}, !.messages = @ \cup {e}]
  /\ writer' = [writer EXCEPT ![w] = IF feed.push THEN [@ EXCEPT !.pc = "notify"] ELSE Resting]
  /\ UNCHANGED <<feed, listener, wire, stream, notClient, count>>

(* RunHistoryWriteError, or a statement that fails. *)
rollback(w) ==
  /\ writer[w].pc = "open"
  /\ thread' = [thread EXCEPT !.next = writer[w].seq]
  /\ writer' = [writer EXCEPT ![w] = Resting]
  /\ UNCHANGED <<feed, listener, wire, stream, notClient, count>>

(* The sessions that listen when the NOTIFY commits hear of it. *)
Hears == listener.client \/ (listener.pc = "heard" /\ listener.valid)
notifyRealtime(w) ==
  /\ writer[w].pc = "notify"
  /\ writer' = [writer EXCEPT ![w] = Resting]
  /\ \/ /\ wire' = IF Hears THEN wire + 1 ELSE wire
        /\ UNCHANGED count
     \/ Counted("lost") /\ UNCHANGED wire
  /\ UNCHANGED <<feed, thread, listener, stream, notClient>>

-----------------------------------------------------------------------------
(* The fanout *)

Subscribers == feed.push /\ stream.pc # "out"
Ensured(l) == IF l.client \/ l.pc # "none" THEN l ELSE [l EXCEPT !.pc = "connect", !.valid = TRUE]
Scheduled(l) == [l EXCEPT !.timer = @ \/ Subscribers]

(* ChangeLatch.notify. Mutant: a generation that nobody waits for is not   *)
(* counted.                                                                *)
NotifiedIfWaiting(s) == IF s.pc = "wait" THEN [s EXCEPT !.pc = "query"] ELSE s
Notified(s) ==
  CASE s.pc = "out" -> s
    [] s.pc = "wait" -> [s EXCEPT !.pc = "query", !.changed = FALSE]
    [] OTHER -> [s EXCEPT !.changed = TRUE]

connects ==
  /\ listener.pc \in {"connect", "listen"}
  /\ listener' = [listener EXCEPT !.pc = IF @ = "connect" THEN "listen" ELSE "heard"]
  /\ UNCHANGED <<notThread, wire, stream, notClient, count>>

(* LISTEN has returned: the client is used, unless it is not wanted or has *)
(* ended meanwhile, and everybody catches up.                              *)
connected ==
  LET used == Subscribers /\ listener.valid IN
  /\ listener.pc = "heard"
  /\ listener' = IF used THEN [listener EXCEPT !.pc = "none", !.client = TRUE, !.valid = FALSE]
                 ELSE [listener EXCEPT !.pc = "dispose"]
  /\ wire' = IF used THEN wire ELSE 0
  /\ stream' = IF used THEN Notified(stream) ELSE stream
  /\ UNCHANGED <<notThread, notClient, count>>

disposed ==
  /\ listener.pc = "dispose"
  /\ listener' = Scheduled([listener EXCEPT !.pc = "none", !.valid = FALSE])
  /\ UNCHANGED <<notThread, wire, stream, notClient, count>>

(* The connection ends, or the candidate cannot connect or listen. *)
handleDisconnect ==
  /\ Counted("drops") /\ wire' = 0
  /\ \/ listener.client /\ listener' = Scheduled([listener EXCEPT !.client = FALSE])
     \/ /\ listener.pc \in {"connect", "listen", "heard"} /\ listener.valid
        /\ LET ended == [listener EXCEPT !.valid = FALSE]
               failed == [ended EXCEPT !.pc = "dispose"] IN
           listener' \in IF listener.pc = "heard" THEN {Scheduled(ended)}
                         ELSE {failed, Scheduled(failed)}
  /\ UNCHANGED <<notThread, stream, notClient>>

reconnects ==
  /\ listener.timer
  /\ listener' = LET due == [listener EXCEPT !.timer = FALSE] IN
                 IF Subscribers THEN Ensured(due) ELSE due
  /\ UNCHANGED <<notThread, wire, stream, notClient, count>>

handleNotification ==
  /\ wire > 0 /\ wire' = wire - 1
  /\ stream' = Notified(stream)
  /\ UNCHANGED <<notThread, listener, notClient, count>>

-----------------------------------------------------------------------------
(* followThreadEvents. The client's cursor stands for that of the stream:  *)
(* what is under way when it breaks is sent again.                         *)

subscribe ==
  /\ stream.pc = "out" /\ sub.pc = "run" /\ ~(req.pc # "none" /\ req.by = "stream")
  /\ stream' = [stream EXCEPT !.pc = "query", !.changed = FALSE]
  /\ listener' = IF feed.push THEN Ensured(listener) ELSE listener
  /\ UNCHANGED <<notThread, wire, notClient, count>>

eventsAfter ==
  LET after == {e \in thread.events : e > sub.cursor}
      got == {e \in after : Cardinality({d \in after : d < e}) < EVENT_BATCH_SIZE} IN
  /\ stream.pc = "query"
  /\ stream' = [stream EXCEPT !.pc = "yield", !.got = got,
                             !.full = Cardinality(got) = EVENT_BATCH_SIZE]
  /\ UNCHANGED <<notThread, listener, wire, notClient, count>>

(* Another batch, or waitForChange, after which the next turn of the loop  *)
(* reads the generation.                                                   *)
waitForChange ==
  /\ stream.pc = "yield" /\ stream.got = {}
  /\ stream' = IF stream.full \/ stream.changed
               THEN [stream EXCEPT !.pc = "query", !.changed = stream.full /\ @]
               ELSE [stream EXCEPT !.pc = "wait"]
  /\ UNCHANGED <<notThread, listener, wire, notClient, count>>

catchUp ==
  /\ stream.pc = "wait"
  /\ stream' = [stream EXCEPT !.pc = "query"]
  /\ UNCHANGED <<notThread, listener, wire, notClient, count>>

-----------------------------------------------------------------------------
(* The client *)

(* reduceThreadSnapshot, for events in the order of their seqs. *)
Applied(v, es) ==
  LET last == LastOf(es \cap thread.clears) IN
  IF es = {} THEN v
  ELSE [v EXCEPT !.cursor = Max(es),
                 !.messages = (IF last = NONE THEN @ ELSE {}) \cup {e \in es : e > last}]

(* An event arrives. That of a clear moves historyEpoch on, so that the    *)
(* answer to a refresh is not looked at.                                   *)
deliver ==
  LET e == Min(stream.got) IN
  /\ stream.pc = "yield" /\ stream.got # {}
  /\ stream' = [stream EXCEPT !.got = @ \ {e}]
  /\ IF sub.ready
     THEN view' = Applied(view, {e}) /\ sub' = [sub EXCEPT !.cursor = Max({@, e})]
     ELSE /\ sub' = [sub EXCEPT !.cursor = Max({@, e}), !.pending = @ \cup {e}]
          /\ UNCHANGED view
  /\ req' = [req EXCEPT !.stale = @ \/ (req.pc # "none" /\ e \in thread.clears)]
  /\ UNCHANGED <<notThread, listener, wire, count>>

(* The stream breaks: a refresh, and after it the next one. *)
streamEnds ==
  /\ stream.pc # "out" /\ Counted("cuts")
  /\ stream' = [stream EXCEPT !.pc = "out", !.got = {}, !.full = FALSE, !.changed = FALSE]
  /\ req' = Fetch("stream")
  /\ UNCHANGED <<notThread, listener, wire, sub, view>>

loadHead ==
  /\ sub.pc = "head"
  /\ sub' = [sub EXCEPT !.pc = "run", !.cursor = LastOf(thread.events), !.ready = view.have]
  /\ UNCHANGED <<notThread, listener, wire, stream, view, req, count>>

(* A refresh of the client, which takes the place of one in progress. *)
refresh ==
  /\ sub.pc = "run" /\ Counted("refreshes")
  /\ req' = Fetch("client")
  /\ UNCHANGED <<notThread, listener, wire, stream, sub, view>>

(* The loop that looks for a snapshot when the head is all there is. *)
retrySnapshot ==
  /\ sub.pc = "run" /\ ~sub.ready /\ req.pc = "none"
  /\ req' = Fetch("retry")
  /\ UNCHANGED <<notThread, listener, wire, stream, sub, view, count>>

(* threadSnapshot: one transaction, whose statements see what is committed *)
(* when they begin.                                                        *)
lockThread ==
  /\ req.pc = "lock" /\ ~Opened
  /\ req' = [req EXCEPT !.pc = "messages"]
  /\ UNCHANGED <<notThread, listener, wire, stream, sub, view, count>>
loadMessagePage ==
  /\ req.pc = "messages"
  /\ req' = [req EXCEPT !.pc = "cursor", !.messages = thread.messages]
  /\ UNCHANGED <<notThread, listener, wire, stream, sub, view, count>>
findLast ==
  /\ req.pc = "cursor"
  /\ req' = [req EXCEPT !.pc = "back", !.cursor = LastOf(thread.events)]
  /\ UNCHANGED <<notThread, listener, wire, stream, sub, view, count>>

(* mergeThreadSnapshot. Mutant: the answer is taken as it comes. *)
SupersedesAlways == TRUE
Supersedes == view.have => req.cursor >= view.cursor

(* What the subscription does with the end of a refresh it has waited for. *)
Resumed(v) ==
  CASE req.by = "load" /\ req.pc = "back" ->
         [sub EXCEPT !.pc = "run", !.cursor = req.cursor, !.ready = v.have]
    [] req.by = "load" /\ req.pc # "back" -> [sub EXCEPT !.pc = "head"]
    [] req.by = "retry" /\ v.have -> [sub EXCEPT !.ready = TRUE, !.pending = {}]
    [] OTHER -> sub
Flushed(v) ==
  IF req.by = "retry" /\ v.have THEN Applied(v, {e \in sub.pending : e > v.cursor}) ELSE v

reconcileRefreshedThread ==
  LET v == IF ~req.stale /\ Supersedes
           THEN [have |-> TRUE, cursor |-> req.cursor, messages |-> req.messages] ELSE view IN
  /\ req.pc = "back"
  /\ sub' = Resumed(v) /\ view' = Flushed(v) /\ req' = Idle
  /\ UNCHANGED <<notThread, listener, wire, stream, count>>

refreshFails ==
  /\ req.pc # "none" /\ Counted("cuts")
  /\ sub' = [Resumed(view) EXCEPT !.pc = IF req.by = "load" THEN "head" ELSE @]
  /\ view' = Flushed(view) /\ req' = Idle
  /\ UNCHANGED <<notThread, listener, wire, stream>>

-----------------------------------------------------------------------------
Writes(w) == commit(w) \/ notifyRealtime(w)
Listens == connects \/ connected \/ disposed \/ reconnects \/ handleNotification
Loads == lockThread \/ loadMessagePage \/ findLast \/ reconcileRefreshedThread

FeedNext ==
  \/ \E w \in Writers : Writes(w) \/ rollback(w) \/ \E clears \in BOOLEAN : open(w, clears)
  \/ Listens \/ handleDisconnect
  \/ subscribe \/ eventsAfter \/ deliver \/ waitForChange \/ catchUp \/ streamEnds
  \/ loadHead \/ refresh \/ retrySnapshot \/ Loads \/ refreshFails

(* The catch-up poll is relied on where nothing is pushed, and where an    *)
(* announcement was lost.                                                  *)
FeedFairness ==
  /\ \A w \in Writers : WF_feedVars(Writes(w))
  /\ WF_feedVars(connects \/ connected \/ disposed) /\ WF_feedVars(reconnects)
  /\ WF_feedVars(handleNotification)
  /\ WF_feedVars(subscribe) /\ WF_feedVars(eventsAfter \/ deliver \/ waitForChange)
  /\ WF_feedVars(catchUp /\ (feed.push => count.lost > 0))
  /\ WF_feedVars(loadHead) /\ WF_feedVars(retrySnapshot) /\ SF_feedVars(lockThread)
  /\ WF_feedVars(loadMessagePage \/ findLast \/ reconcileRefreshedThread)

FeedSpec == FeedInit /\ [][FeedNext]_feedVars /\ FeedFairness

-----------------------------------------------------------------------------
(* Properties *)

(* A client that has a snapshot shows every message up to the event it has *)
(* come to, and one that was cleared only until it comes to the clear: no  *)
(* answer that comes late, no torn snapshot ("advance the client cursor    *)
(* past thread.message.created while the ask message page still omits it", *)
(* thread-target.ts:316) and no event that was applied before takes any-   *)
(* thing away.                                                             *)
ViewIsWhole ==
  sub.ready =>
    /\ \A m \in thread.messages : m <= sub.cursor => m \in view.messages
    /\ \A m \in view.messages \ thread.messages : \E c \in thread.clears : c > m /\ c > sub.cursor

(* When writers leave it the time, the client shows what the thread is. As *)
(* long as no announcement is lost it need not wait for the catch-up poll: *)
(* no notification is slept through ("does not lose a notification that    *)
(* arrives while querying", events.test.ts), and a connection of the       *)
(* listener that ends is made up for by the next one.                      *)
ViewConverges == []<>(feed.opened => view.have /\ view.messages = thread.messages)
=============================================================================
