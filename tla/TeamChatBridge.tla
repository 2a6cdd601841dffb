--------------------------- MODULE TeamChatBridge ---------------------------
(***************************************************************************)
(* One message of a team chat: the row that says who answers it, a routine *)
(* of the bot or the bot itself; the deliveries of its webhook, which may  *)
(* wake a routine; and the bridges of the API processes, which queue a run *)
(* for it and post the reply. Every action is one SQL statement, one       *)
(* transaction or one call of the chat provider.                           *)
(*   apps/api/src/team-chat-bridge.ts                                      *)
(*   apps/api/src/app.ts (handleTeamChatInbound)                           *)
(*   apps/api/src/messaging-inbound.ts (wakeMessageRoutines)               *)
(***************************************************************************)
EXTENDS Naturals, FiniteSets

CONSTANTS
  Bridges,     \* API processes, each with a bridge
  Deliveries,  \* deliveries of the message's webhook
  Chats        \* what may happen to the message, see ChatAssumption

ASSUME ChatAssumption ==
  Chats \subseteq
    [ambient : BOOLEAN,             \* not addressed to the bot: the judge decides
     wakes : BOOLEAN,               \* teamChatSenderCanWakeMessageRoutines
     routine : SUBSET BOOLEAN,      \* whether a message routine is found active
     home : [Deliveries -> Bridges],
     bridges : SUBSET Bridges,
     deliveries : SUBSET Deliveries,
     faults : Nat,                  \* statements and calls of the provider that fail
     renewals : BOOLEAN,            \* renewals of a reservation may be among them
     stalls : BOOLEAN,              \* and handlers that outlast their reservation
     crashes : Nat]

VARIABLES
  chat,    \* which of the chats this is
  ext,     \* the row of external_messages
  late,    \* bridges whose `now` is not before the row's nextAttemptAt
  woken,   \* the message with the wake's nonce exists, and so does its run
  agent,   \* the run of the nonce teamchat:..., and how it ended
  hand,    \* a delivery: its handler, and wakeMessageRoutines within it
  pass,    \* a bridge: how far its reconcile is, and what it has read of the row
  posts,   \* replies the provider has accepted
  trouble  \* faults and crashes so far

chatVars == <<chat, ext, late, woken, agent, hand, pass, posts, trouble>>

Reasons == {"none", "routing", "agent", "judge", "wake"}
Settled == {"delivered", "ignored"}
(* nextAttemptAt: null, in minutes, in MESSAGE_ROUTING_RESERVATION_MS, past. *)
Times == {"null", "soon", "held", "past"}
Acting == {"race", "rehold", "held", "await", "own", "release"}
Queueing == {"queue", "giveway", "claim", "claimed", "barrier", "lastLook", "create", "recheck",
             "cancel", "abandon", "link", "enqueue"}
Delivering == {"reserve", "posted", "unconfirm", "check", "send", "store", "finish", "silence"}

ChatTypeOK ==
  /\ ext.status \in Settled \cup {"absent", "deferred", "received", "observed", "queueing",
                                   "running", "delivering"}
  /\ ext.reason \in Reasons /\ ext.at \in Times /\ ext.linked \in BOOLEAN
  /\ ext.handle \in {"none", "posted", "silent", "unconfirmed"}
  /\ late \subseteq Bridges /\ woken \in BOOLEAN /\ posts \in 0..Cardinality(Bridges)
  /\ agent \in {"none", "active", "replied", "quiet", "failed", "cancelled"}
  /\ \A d \in Deliveries :
       /\ hand[d].pc \in Acting \cup {"none", "receive", "reclaim", "hold", "done", "dead"}
       /\ hand[d].wake \in {"none", "find", "reserve", "deliver", "true", "false", "threw"}
  /\ \A b \in Bridges :
       pass[b].pc \in Queueing \cup Delivering \cup
         {"down", "idle", "expired", "lookup", "yield", "free", "promote", "requeue", "judge",
          "engage", "ignore", "received", "running", "retry", "retried"}
  /\ trouble.faults <= chat.faults /\ trouble.crashes <= chat.crashes

ChatInit ==
  /\ chat \in Chats
  /\ ext = [status |-> "absent", reason |-> "none", at |-> "null", linked |-> FALSE,
            handle |-> "none"]
  /\ late = {} /\ woken = FALSE /\ agent = "none" /\ posts = 0
  /\ hand = [d \in Deliveries |-> [pc |-> "none", wake |-> "none"]]
  /\ pass = [b \in Bridges |-> [pc |-> "idle", was |-> "none"]]
  /\ trouble = [faults |-> 0, crashes |-> 0]

-----------------------------------------------------------------------------
(* Writes of the row. A write of nextAttemptAt puts it after the `now` of  *)
(* every pass in progress.                                                 *)
Write(status, reason, at) ==
  /\ ext' = [ext EXCEPT !.status = status, !.reason = reason, !.at = at]
  /\ late' = {}
(* updateMany with a condition. *)
WriteIf(cond, status, reason, at) ==
  IF cond THEN Write(status, reason, at) ELSE UNCHANGED <<ext, late>>
(* nextAttemptAt is set to the `now` of a bridge. *)
WriteNow(b, status, reason) ==
  /\ ext' = [ext EXCEPT !.status = status, !.reason = reason, !.at = "past"]
  /\ \E others \in SUBSET Bridges : late' = others \cup {b}

Waiting(status) == status \in {"received", "observed"}
Open == IF chat.ambient THEN "observed" ELSE "received"
(* Either of the two reasons that say a routine's wake owns the row. *)
isRoutingOwnershipReason(reason) == reason = "routing"
Unowned(reason) == reason \notin {"routing", "agent"}

(* A statement fails before it has an effect. *)
ChatFault ==
  /\ trouble.faults < chat.faults
  /\ trouble' = [trouble EXCEPT !.faults = @ + 1]

HandTo(d, pc) == hand' = [hand EXCEPT ![d].pc = pc]
WakeTo(d, w) == hand' = [hand EXCEPT ![d].wake = w]
Has(b, pc, was) == pass' = [pass EXCEPT ![b] = [pc |-> pc, was |-> was]]
Goes(b, pc) == Has(b, pc, "none")
Up(b) == pass[b].pc # "down"

notRow == <<chat, woken, agent, posts, trouble>>

-----------------------------------------------------------------------------
(* handleTeamChatInbound: a delivery of the webhook *)

arrives(d) ==
  /\ d \in chat.deliveries /\ hand[d].pc = "none" /\ Up(chat.home[d])
  /\ HandTo(d, "receive")
  /\ UNCHANGED <<ext, late, pass, notRow>>

(* receive: the upsert; with routines in play the new row is deferred. *)
receive(d) ==
  /\ hand[d].pc = "receive"
  /\ IF ext.status = "absent"
     THEN IF chat.wakes THEN Write("deferred", "none", "soon") /\ HandTo(d, "hold")
          ELSE Write(Open, "none", "null") /\ HandTo(d, "done")
     ELSE HandTo(d, IF chat.wakes THEN "reclaim" ELSE "done") /\ UNCHANGED <<ext, late>>
  /\ UNCHANGED <<pass, notRow>>

Reclaimable == Waiting(ext.status) \/ (ext.status = "deferred" /\ ext.at = "past")

reclaim(d) ==
  /\ hand[d].pc = "reclaim"
  /\ WriteIf(Reclaimable, "deferred", ext.reason, "soon")
  /\ HandTo(d, IF Reclaimable THEN "hold" ELSE "done")
  /\ UNCHANGED <<pass, notRow>>

(* extendDeferredReservation *)
Extend == WriteIf(ext.status = "deferred", "deferred", "routing", "held")

(* startDeferredReservationHeartbeat, then the wake is started. *)
hold(d) ==
  /\ hand[d].pc = "hold"
  /\ Extend
  /\ hand' = [hand EXCEPT ![d] =
       IF ext.status = "deferred" THEN [pc |-> "race", wake |-> "find"]
       ELSE [pc |-> "done", wake |-> "none"]]
  /\ UNCHANGED <<pass, notRow>>

renew(d) ==
  /\ hand[d].pc \in {"race", "held"}
  /\ Extend
  /\ IF ext.status = "deferred" THEN UNCHANGED hand
     ELSE HandTo(d, IF hand[d].pc = "race" THEN "rehold" ELSE "await")
  /\ UNCHANGED <<pass, notRow>>

(* The renewal throws: `lost` rejects with its error, and the handler      *)
(* gives the message to the agent without waiting for the wake.            *)
renewFails(d) ==
  /\ hand[d].pc \in {"race", "held"} /\ chat.renewals /\ ChatFault
  /\ HandTo(d, IF hand[d].pc = "race" THEN "release" ELSE "await")
  /\ UNCHANGED <<chat, ext, late, woken, agent, pass, posts>>

rehold(d) ==
  /\ hand[d].pc = "rehold"
  /\ Extend
  /\ HandTo(d, IF ext.status = "deferred" THEN "held" ELSE "await")
  /\ UNCHANGED <<pass, notRow>>

wakeEnds(d) ==
  /\ hand[d].pc \in {"race", "held", "await"} /\ hand[d].wake \in {"true", "false", "threw"}
  /\ HandTo(d, IF hand[d].wake = "true" THEN "own" ELSE "release")
  /\ UNCHANGED <<ext, late, pass, notRow>>

(* resolveDeferredMessage, and the end of the handler. *)
(* Mutant: a routine takes a deferred row only. *)
OwnableDeferred == ext.status = "deferred"
Ownable == ext.status = "deferred" \/ Waiting(ext.status)
resolveRoutine(d) ==
  /\ hand[d].pc = "own"
  /\ WriteIf(Ownable, "ignored", "wake", "null") /\ HandTo(d, "done")
  /\ UNCHANGED <<pass, notRow>>
resolveAgent(d) ==
  /\ hand[d].pc = "release"
  /\ WriteIf(ext.status = "deferred", Open, "none", "null") /\ HandTo(d, "done")
  /\ UNCHANGED <<pass, notRow>>

handlerFails(d) ==
  /\ hand[d].pc \in {"receive", "reclaim", "hold", "own", "release"} /\ ChatFault
  /\ HandTo(d, "done")
  /\ UNCHANGED <<chat, ext, late, woken, agent, pass, posts>>

-----------------------------------------------------------------------------
(* wakeMessageRoutines, which goes on when its handler does not wait *)

findRoutines(d) ==
  /\ hand[d].wake = "find"
  /\ \E found \in chat.routine : WakeTo(d, IF found THEN "reserve" ELSE "false")
  /\ UNCHANGED <<ext, late, pass, notRow>>

(* Mutant: the agent's ownership is not looked at. *)
ReservableAny == ext.status \in {"deferred", "queueing"} \/ Waiting(ext.status)
Reservable ==
  /\ ext.status = "deferred" \/ Waiting(ext.status)
  /\ ext.reason = "none" \/ isRoutingOwnershipReason(ext.reason)
reserveWake(d) ==
  /\ hand[d].wake = "reserve"
  /\ WriteIf(Reservable, ext.status, "routing", "held")
  /\ WakeTo(d, IF Reservable THEN "deliver" ELSE "false")
  /\ UNCHANGED <<pass, notRow>>

(* deliverWebhookEvent: the nonce makes a second one a replay. *)
deliverWake(d) ==
  /\ hand[d].wake = "deliver"
  /\ woken' = TRUE /\ WakeTo(d, "true")
  /\ UNCHANGED <<chat, ext, late, agent, pass, posts, trouble>>

wakeThrows(d) ==
  /\ hand[d].wake \in {"find", "reserve", "deliver"} /\ ChatFault
  /\ WakeTo(d, "threw")
  /\ UNCHANGED <<chat, ext, late, woken, agent, pass, posts>>

-----------------------------------------------------------------------------
(* reconcile: expired reservations *)

reconcileBegins(b) ==
  /\ pass[b].pc = "idle" /\ b \in chat.bridges /\ ext.status \notin Settled \cup {"absent"}
  /\ Goes(b, "expired")
  /\ late' = IF ext.at = "past" THEN late \cup {b} ELSE late \ {b}
  /\ UNCHANGED <<ext, hand, notRow>>

listExpired(b) ==
  /\ pass[b].pc = "expired"
  /\ IF ext.status = "deferred" /\ b \in late THEN Has(b, "lookup", ext.reason)
     ELSE Goes(b, "requeue")
  /\ UNCHANGED <<ext, late, hand, notRow>>

inFlightRoutineWakes(b) == \E d \in Deliveries : chat.home[d] = b /\ hand[d].pc \in Acting

lookupWake(b) ==
  /\ pass[b].pc = "lookup"
  /\ Goes(b, CASE woken -> "yield"
               [] ~woken /\ isRoutingOwnershipReason(pass[b].was) ->
                    IF inFlightRoutineWakes(b) THEN "requeue" ELSE "free"
               [] OTHER -> "promote")
  /\ UNCHANGED <<ext, late, hand, notRow>>

(* The three ends of recoverExpiredDeferredMessages. *)
recoverExpired(b) ==
  LET expired == ext.status = "deferred" /\ b \in late IN
  /\ CASE pass[b].pc = "yield" -> WriteIf(expired, "ignored", "wake", "null")
       [] pass[b].pc = "free" ->
            IF expired /\ isRoutingOwnershipReason(ext.reason)
            THEN WriteNow(b, "deferred", "none") ELSE UNCHANGED <<ext, late>>
       [] pass[b].pc = "promote" ->
            WriteIf(expired /\ Unowned(ext.reason), Open, "none", "null")
       [] OTHER -> FALSE
  /\ Goes(b, "requeue")
  /\ UNCHANGED <<hand, notRow>>

(* A queue that did not end in QUEUE_RESERVATION_MS. *)
requeueExpired(b) ==
  /\ pass[b].pc = "requeue"
  /\ WriteIf(ext.status = "queueing" /\ b \in late, "received", "none", "null")
  /\ Goes(b, "judge")
  /\ UNCHANGED <<hand, notRow>>

-----------------------------------------------------------------------------
(* evaluateAmbient: the judge, once the debounce or the rollup is over. The *)
(* message is the trigger of its batch, or it is ignored: because nobody is *)
(* to act, or because another message is the trigger.                      *)
evaluateAmbient(b) ==
  /\ pass[b].pc = "judge" /\ ext.status = "observed"
  /\ \E decision \in {"engage", "ignore"} : Goes(b, decision)
  /\ UNCHANGED <<ext, late, hand, notRow>>
nothingToJudge(b) ==
  /\ pass[b].pc = "judge"
  /\ Goes(b, "received")
  /\ UNCHANGED <<ext, late, hand, notRow>>

(* promoteAmbientTrigger leaves nextAttemptAt alone. *)
promoteAmbient(b) ==
  /\ pass[b].pc = "engage"
  /\ ext' = IF ext.status = "observed"
            THEN [ext EXCEPT !.status = "received", !.reason = "judge"] ELSE ext
  /\ Goes(b, "received")
  /\ UNCHANGED <<late, hand, notRow>>

markAmbientIgnored(b) ==
  /\ pass[b].pc = "ignore"
  /\ ext' = IF ext.status = "observed" THEN [ext EXCEPT !.status = "ignored"] ELSE ext
  /\ Goes(b, "received")
  /\ UNCHANGED <<late, hand, notRow>>

-----------------------------------------------------------------------------
(* queue: a run of the bot for a received message *)

Due(b) == ext.at = "null" \/ b \in late

listReceived(b) ==
  /\ pass[b].pc = "received"
  /\ IF ext.status = "received" /\ Due(b) /\ ~isRoutingOwnershipReason(ext.reason)
     THEN Goes(b, "queue") ELSE Goes(b, "running")
  /\ UNCHANGED <<ext, late, hand, notRow>>

(* findWake, before and after the claim, and at the last barrier. *)
findWake(b) ==
  /\ \/ pass[b].pc = "queue" /\ Goes(b, IF woken THEN "giveway" ELSE "claim")
     \/ pass[b].pc = "claimed" /\ Goes(b, IF woken THEN "abandon" ELSE "barrier")
     \/ pass[b].pc = "lastLook" /\ Goes(b, IF woken THEN "abandon" ELSE "create")
  /\ UNCHANGED <<ext, late, hand, notRow>>

abandonForRoutine(b) ==
  /\ \/ pass[b].pc = "giveway" /\ WriteIf(ext.status = "received", "ignored", "wake", "null")
     \/ pass[b].pc = "abandon"
          /\ WriteIf(ext.status = "queueing" /\ ~ext.linked, "ignored", "wake", "null")
  /\ Goes(b, "running")
  /\ UNCHANGED <<hand, notRow>>

Claimable == ext.status = "received" /\ Unowned(ext.reason)
claimQueueing(b) ==
  /\ pass[b].pc = "claim"
  /\ WriteIf(Claimable, "queueing", "agent", "soon")
  /\ Goes(b, IF Claimable THEN "claimed" ELSE "running")
  /\ UNCHANGED <<hand, notRow>>

barrier(b) ==
  /\ pass[b].pc = "barrier"
  /\ Goes(b, IF ext.status = "queueing" /\ ext.reason = "agent" THEN "lastLook" ELSE "abandon")
  /\ UNCHANGED <<ext, late, hand, notRow>>

(* sendUserMessage: under its nonce a second one is a replay. *)
createRun(b) ==
  /\ pass[b].pc = "create"
  /\ agent' = IF agent = "none" THEN "active" ELSE agent
  /\ Goes(b, "recheck")
  /\ UNCHANGED <<chat, ext, late, woken, hand, posts, trouble>>

(* The nonce is looked for once more after the run was created. *)
recheckWake(b) ==
  /\ pass[b].pc = "recheck"
  /\ Goes(b, IF woken THEN "cancel" ELSE "link")
  /\ UNCHANGED <<ext, late, hand, notRow>>

cancelFallback(b) ==
  /\ pass[b].pc = "cancel"
  /\ agent' = IF agent = "active" THEN "cancelled" ELSE agent
  /\ Goes(b, "abandon")
  /\ UNCHANGED <<chat, ext, late, woken, hand, posts, trouble>>

linkRun(b) ==
  LET ours == ext.status = "queueing" /\ ext.reason = "agent" IN
  /\ pass[b].pc = "link"
  /\ IF ours THEN ext' = [ext EXCEPT !.status = "running", !.at = "null", !.linked = TRUE] /\ late' = {}
     ELSE UNCHANGED <<ext, late>>
  /\ Goes(b, IF ours THEN "enqueue" ELSE "retry")
  /\ UNCHANGED <<hand, notRow>>

(* The job; without it the job reconciler has the run executed. *)
enqueueRun(b) ==
  /\ pass[b].pc = "enqueue"
  /\ Goes(b, "running")
  /\ UNCHANGED <<ext, late, hand, notRow>>

-----------------------------------------------------------------------------
(* deliverCompletion and deliverFailure *)

listRunning(b) ==
  /\ pass[b].pc = "running"
  /\ IF ext.status \in {"running", "delivering"} /\ Due(b) /\ agent \notin {"none", "active"}
     THEN Goes(b, IF chat.ambient /\ agent # "replied" THEN "silence" ELSE "reserve")
     ELSE Goes(b, "idle")
  /\ UNCHANGED <<ext, late, hand, notRow>>

(* Mutant: a message that is being delivered may be reserved again. *)
MayReserveAgain == ext.status \in {"running", "delivering"} /\ ext.handle = "none"
MayReserve == ext.status = "running" /\ ext.handle = "none"
reserveDelivery(b) ==
  /\ pass[b].pc = "reserve"
  /\ WriteIf(MayReserve, "delivering", ext.reason, "soon")
  /\ Goes(b, IF MayReserve THEN "check" ELSE "posted")
  /\ UNCHANGED <<hand, notRow>>

findPosted(b) ==
  /\ pass[b].pc = "posted"
  /\ IF ext.status = "delivering" /\ ext.handle # "none" THEN Has(b, "finish", ext.handle)
     ELSE Goes(b, "unconfirm")
  /\ UNCHANGED <<ext, late, hand, notRow>>

(* A reply that may be lost rather than one that is posted twice. *)
unconfirm(b) ==
  LET expired == ext.status = "delivering" /\ ext.handle = "none" /\ ext.at \in {"null", "past"} IN
  /\ pass[b].pc = "unconfirm"
  /\ IF expired
     THEN /\ ext' = [ext EXCEPT !.status = "delivered", !.handle = "unconfirmed", !.at = "null"]
          /\ late' = {}
     ELSE UNCHANGED <<ext, late>>
  /\ Goes(b, "idle")
  /\ UNCHANGED <<hand, notRow>>

checkHandle(b) ==
  /\ pass[b].pc = "check"
  /\ IF ext.handle # "none" THEN Has(b, "finish", ext.handle) ELSE Goes(b, "send")
  /\ UNCHANGED <<ext, late, hand, notRow>>

(* The provider accepts the reply. Its answer may be lost. *)
sendReply(b) ==
  /\ pass[b].pc = "send"
  /\ posts' = posts + 1
  /\ \/ Goes(b, "store") /\ UNCHANGED trouble
     \/ ChatFault /\ Goes(b, "retry")
  /\ UNCHANGED <<chat, ext, late, woken, agent, hand>>

storeHandle(b) ==
  /\ pass[b].pc = "store"
  /\ ext' = [ext EXCEPT !.handle = "posted"]
  /\ Has(b, "finish", "posted")
  /\ UNCHANGED <<late, hand, notRow>>

markDelivered(b) ==
  /\ pass[b].pc \in {"finish", "silence"}
  /\ ext' = [ext EXCEPT !.status = "delivered", !.at = "null",
                        !.handle = IF pass[b].pc = "silence" THEN "silent" ELSE pass[b].was]
  /\ late' = {} /\ Goes(b, "idle")
  /\ UNCHANGED <<hand, notRow>>

-----------------------------------------------------------------------------
(* retry: what has failed in queue or in a delivery *)

retry(b) ==
  /\ pass[b].pc = "retry"
  /\ CASE ext.handle # "none" /\ ext.status # "delivered" -> Has(b, "finish", ext.handle)
       [] ext.status = "delivered" -> Goes(b, "idle")
       [] OTHER -> Has(b, "retried", ext.status)
  /\ UNCHANGED <<ext, late, hand, notRow>>

BackFrom(was) == IF was = "queueing" THEN "received" ELSE was
retryWrites(b) ==
  /\ pass[b].pc = "retried"
  /\ WriteIf(ext.handle = "none" /\ ext.status = pass[b].was, BackFrom(pass[b].was),
             IF pass[b].was = "queueing" THEN "none" ELSE ext.reason, "soon")
  /\ Goes(b, "running")
  /\ UNCHANGED <<hand, notRow>>

(* A statement of the pass fails. *)
passFails(b) ==
  /\ pass[b].pc \notin {"down", "idle"} /\ ChatFault
  /\ Goes(b, IF pass[b].pc \in Queueing \cup Delivering THEN "retry" ELSE "idle")
  /\ UNCHANGED <<chat, ext, late, woken, agent, hand, posts>>

-----------------------------------------------------------------------------
(* The run, the clock, and processes that die *)

runEnds ==
  /\ agent = "active"
  /\ agent' \in IF chat.ambient THEN {"replied", "quiet", "failed", "cancelled"}
                ELSE {"replied", "failed", "cancelled"}
  /\ UNCHANGED <<chat, ext, late, woken, hand, pass, posts, trouble>>

(* A reservation is used by whoever is between its statements: to stall    *)
(* for longer than one is a fault. The transaction of the wake is not      *)
(* taken to last for MESSAGE_ROUTING_RESERVATION_MS.                       *)
Waking == \E d \in Deliveries : hand[d].wake = "deliver"
Handling == \E d \in Deliveries : hand[d].pc \in Acting \cup {"hold"}
Bridging == \E b \in Bridges : pass[b].pc \in Queueing \cup Delivering \cup {"retry", "retried"}
timePasses ==
  /\ ext.at \in {"soon", "held"} /\ ~Waking /\ (Handling => chat.stalls)
  /\ IF Handling \/ Bridging THEN ChatFault ELSE UNCHANGED trouble
  /\ ext' = [ext EXCEPT !.at = "past"]
  /\ UNCHANGED <<chat, late, woken, agent, hand, pass, posts>>

bridgeDies(b) ==
  /\ trouble.crashes < chat.crashes /\ b \in chat.bridges /\ Up(b)
  /\ trouble' = [trouble EXCEPT !.crashes = @ + 1]
  /\ pass' = [pass EXCEPT ![b] = [pc |-> "down", was |-> "none"]]
  /\ hand' = [d \in Deliveries |->
       IF chat.home[d] = b /\ hand[d].pc # "none" THEN [pc |-> "dead", wake |-> "none"] ELSE hand[d]]
  /\ UNCHANGED <<chat, ext, late, woken, agent, posts>>

(* start: recoverInterruptedRoutineRoutes *)
bridgeStarts(b) ==
  /\ pass[b].pc = "down"
  /\ IF ext.status = "deferred" /\ isRoutingOwnershipReason(ext.reason) /\ ext.at = "past"
     THEN WriteNow(b, "deferred", "none") ELSE UNCHANGED <<ext, late>>
  /\ Goes(b, "idle")
  /\ UNCHANGED <<hand, notRow>>

-----------------------------------------------------------------------------
Handles(d) ==
  \/ receive(d) \/ reclaim(d) \/ hold(d) \/ rehold(d)
  \/ wakeEnds(d) \/ resolveRoutine(d) \/ resolveAgent(d)
Wakes(d) == findRoutines(d) \/ reserveWake(d) \/ deliverWake(d)
Reconciles(b) ==
  \/ listExpired(b) \/ lookupWake(b) \/ recoverExpired(b) \/ requeueExpired(b)
  \/ evaluateAmbient(b) \/ nothingToJudge(b) \/ promoteAmbient(b) \/ markAmbientIgnored(b)
  \/ listReceived(b) \/ findWake(b) \/ abandonForRoutine(b) \/ claimQueueing(b) \/ barrier(b)
  \/ createRun(b) \/ recheckWake(b) \/ cancelFallback(b) \/ linkRun(b) \/ enqueueRun(b)
  \/ listRunning(b) \/ reserveDelivery(b) \/ findPosted(b) \/ unconfirm(b) \/ checkHandle(b)
  \/ sendReply(b) \/ storeHandle(b) \/ markDelivered(b) \/ retry(b) \/ retryWrites(b)

ChatNext ==
  \/ \E d \in Deliveries :
       arrives(d) \/ renew(d) \/ renewFails(d) \/ handlerFails(d) \/ wakeThrows(d)
         \/ Handles(d) \/ Wakes(d)
  \/ \E b \in Bridges :
       reconcileBegins(b) \/ Reconciles(b) \/ passFails(b) \/ bridgeDies(b) \/ bridgeStarts(b)
  \/ runEnds \/ timePasses

(* Handlers and passes take their next statement, the bridges' timers come *)
(* round, the clock goes on, runs end, and a dead process is started again. *)
ChatFairness ==
  /\ \A d \in Deliveries : WF_chatVars(Handles(d)) /\ WF_chatVars(Wakes(d))
  /\ \A b \in Bridges :
       /\ WF_chatVars(Reconciles(b) \/ reconcileBegins(b) \/ bridgeStarts(b))
       /\ SF_chatVars(evaluateAmbient(b))
  /\ WF_chatVars(runEnds) /\ WF_chatVars(timePasses)

ChatSpec == ChatInit /\ [][ChatNext]_chatVars /\ ChatFairness

-----------------------------------------------------------------------------
(* Properties *)

(* A message is answered by a routine or by the bot, not by both: where    *)
(* the wake exists, a run of the bot is cancelled before anything is       *)
(* linked to it ("Wake may commit between the pre-claim check and this     *)
(* reservation", team-chat-bridge.ts:1029).                                *)
OneAnswers ==
  woken =>
    \/ agent \in {"none", "cancelled"}
    \/ \E b \in Bridges : pass[b].pc \in {"recheck", "cancel"}

(* What is settled about the reply. *)
Answer ==
  CASE ext.status = "ignored" \/ ext.handle = "silent" -> "refused"
    [] ext.status # "ignored" /\ ext.handle = "posted" -> "done"
    [] OTHER -> "open"

ReplyPromise == INSTANCE EffectPromise WITH
  Effects <- {"reply"}, ran <- [e \in {"reply"} |-> posts], verdict <- [e \in {"reply"} |-> Answer],
  told <- [e \in {"reply"} |-> IF ext.status \in Settled /\ Answer # "open" THEN {Answer} ELSE {}]
(* Whatever dies or fails between the reservation, the post and its        *)
(* record, the reply is posted at most once, never after the row was       *)
(* ignored or delivered without one, and the row says of it in the end     *)
(* what is so.                                                             *)
ReplyKeepsPromise == ReplyPromise!PromiseSpec

(* However deliveries, bridges, routines and failures meet, the message    *)
(* has one answer, unless a renewal throws and gives the message away      *)
(* beside a wake in flight (README, Disagreements); and its reply keeps    *)
(* the promise.                                                            *)
AnsweredOnce == [](~chat.renewals => OneAnswers) /\ ReplyKeepsPromise

(* A message that was received is settled in the end: a webhook that is    *)
(* not delivered again, a process that dies and a statement that fails     *)
(* leave it to a bridge.                                                   *)
MessageSettles == ~chat.renewals => (ext.status # "absent") ~> (ext.status \in Settled)
=============================================================================
