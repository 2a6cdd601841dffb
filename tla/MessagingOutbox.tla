--------------------------- MODULE MessagingOutbox ---------------------------
(***************************************************************************)
(* The outbox of the messaging surface: rows written by the mirror of a    *)
(* run's replies and by connection requests, drains that claim and send    *)
(* them, the provider that accepts or refuses, and the agent connection an *)
(* invite is about. Drains run concurrently (their jobs are keyed by run)  *)
(* and an action is one statement, transaction or call of the provider.    *)
(*   packages/adapters/src/messaging-delivery.ts, agent-connections.ts;    *)
(*   apps/api/src/router.ts, messaging-inbound.ts                          *)
(***************************************************************************)
EXTENDS Naturals, FiniteSets

CONSTANTS
  Drains,       \* executions of the messaging.deliver job
  Direct,       \* mirrored replies that go to the owner's conversation
  Group,        \* mirrored replies that go to a group
  Invites,      \* rows for the connection's invite, one for each cycle
  Capped,       \* the provider caps consecutive messages (sendblue)
  Cap,          \* MESSAGING_DM_OUTBOUND_CAP
  MaxAttempts,  \* MESSAGING_OUTBOUND_MAX_ATTEMPTS
  MaxFaults,    \* bound: statements and calls that fail, answers that are lost
  MaxCrashes,   \* bound: drains that die
  MaxTimeouts,  \* bound: invite transactions that run out of time
  NoDrain, NoRow

ASSUME OutboxAssumption ==
  /\ Direct \cap Group = {} /\ Invites \cap (Direct \cup Group) = {}
  /\ NoRow \notin Direct \cup Group \cup Invites /\ NoDrain \notin Drains
  /\ Capped \in BOOLEAN /\ Cap \in Nat /\ MaxAttempts \in Nat \ {0}
  /\ MaxFaults \in Nat /\ MaxCrashes \in Nat /\ MaxTimeouts \in Nat

(* The worker runs some number of jobs at once. *)
ASSUME DrainsAssumption == IsFiniteSet(Drains) /\ Drains # {}

VARIABLES
  row,     \* messaging_outbound; due: nextAttemptAt is null or past
  conn,    \* the agent connection's status
  locked,  \* the drain whose transaction holds the connection row
  streak,  \* outboundSinceInbound
  job,     \* the messaging.deliver job under the drain key
  drain,   \* the drains' local state
  sent,    \* history: how often the provider accepted a row
  spent    \* faults, crashes and timeouts so far

vars == <<row, conn, locked, streak, job, drain, sent, spent>>

Mirrored == Direct \cup Group
Rows == Mirrored \cup Invites

Outbound ==
  [status : {"absent", "pending", "sent", "failed", "deleted"},
   attempts : 0 .. MaxAttempts, due : BOOLEAN, handle : BOOLEAN]
DrainState ==
  [pc : {"idle", "read", "next", "identity", "release", "send", "record", "count", "fail",
         "enqueue", "lock", "invite", "commit"},
   list : SUBSET Rows, row : Rows \cup {NoRow}, seen : [Rows -> 0 .. MaxAttempts]]

TypeOK ==
  /\ row \in [Rows -> Outbound]
  /\ conn \in {"none", "pending", "approved", "declined", "revoked"}
  /\ locked \in Drains \cup {NoDrain}
  /\ streak \in Nat
  /\ job \in {"none", "now", "later"}
  /\ drain \in [Drains -> DrainState]
  /\ sent \in [Rows -> Nat]
  /\ spent \in [faults : 0 .. MaxFaults, crashes : 0 .. MaxCrashes,
                timeouts : 0 .. MaxTimeouts]

Absent == [status |-> "absent", attempts |-> 0, due |-> TRUE, handle |-> FALSE]
Fresh == [Absent EXCEPT !.status = "pending"]
Idle == [pc |-> "idle", list |-> {}, row |-> NoRow, seen |-> [r \in Rows |-> 0]]

Init ==
  /\ row = [r \in Rows |-> Absent]
  /\ conn = "none" /\ locked = NoDrain /\ streak = 0 /\ job = "none"
  /\ drain = [d \in Drains |-> Idle]
  /\ sent = [r \in Rows |-> 0]
  /\ spent = [faults |-> 0, crashes |-> 0, timeouts |-> 0]

Exists(r) == row[r].status \notin {"absent", "deleted"}
Fault == spent.faults < MaxFaults /\ spent' = [spent EXCEPT !.faults = @ + 1]
NoFault == UNCHANGED spent
Goes(d, pc) ==
  drain' = [drain EXCEPT ![d].pc = pc, ![d].row = IF pc = "next" THEN NoRow ELSE @]
Enqueue(at) == job' = at
Update(r, status) == row' = IF Exists(r) THEN [row EXCEPT ![r].status = status] ELSE row

-----------------------------------------------------------------------------
(* Who writes rows *)

(* The run's replies that have no row yet get one, and a drain is asked    *)
(* for; a handler that cannot enqueue it drains by itself.                 *)
mirrorMessagingOutbound ==
  /\ \E S \in SUBSET {r \in Mirrored : row[r].status = "absent"} :
       /\ S # {}
       /\ row' = [r \in Rows |-> IF r \in S THEN Fresh ELSE row[r]]
  /\ \/ Enqueue("now") /\ NoFault /\ UNCHANGED drain
     \/ \E d \in Drains :
          /\ drain[d].pc = "idle"
          /\ Fault /\ Goes(d, "read") /\ UNCHANGED job
  /\ UNCHANGED <<conn, locked, streak, sent>>

(* connectAgent: a request that is pending or approved already is left as  *)
(* it is; any other starts a cycle with an invite row of its own.          *)
connectAgent ==
  /\ locked = NoDrain
  /\ conn \notin {"approved", "pending"}
  /\ conn' = "pending"
  /\ \E new \in Invites :
       /\ row[new].status = "absent"
       /\ row' = [r \in Rows |-> IF r = new THEN Fresh
                                 ELSE IF r \in Invites /\ Exists(r)
                                      THEN [row[r] EXCEPT !.status = "deleted"]
                                      ELSE row[r]]
  /\ \/ Enqueue("now") /\ NoFault
     \/ Fault /\ UNCHANGED job
  /\ UNCHANGED <<locked, streak, drain, sent>>

Answered == locked = NoDrain /\ conn = "pending" /\ conn' \in {"approved", "declined"}

(* The target's bot answers, or its owner in the app. *)
respondAgentConnection ==
  /\ Answered
  /\ UNCHANGED <<row, locked, streak, job, drain, sent, spent>>

(* The owner's YES or NO is confirmed in their own conversation. *)
applyOwnerCommand ==
  /\ Answered
  /\ \E r \in Direct :
       /\ row[r].status = "absent"
       /\ row' = [row EXCEPT ![r] = Fresh]
  /\ \/ Enqueue("now") /\ NoFault
     \/ Fault /\ UNCHANGED job
  /\ UNCHANGED <<locked, streak, drain, sent>>

Undelivered(r) ==
  \/ row[r].status = "pending"
  \/ row[r].status = "sent" /\ ~row[r].handle

revoke ==
  /\ locked = NoDrain /\ conn # "none"
  /\ conn' = "revoked"
  /\ row' = [r \in Rows |-> IF r \in Invites /\ Undelivered(r)
                            THEN [row[r] EXCEPT !.status = "deleted"] ELSE row[r]]
  /\ UNCHANGED <<locked, streak, job, drain, sent, spent>>

(* handleDirectEvent: any message of the owner ends the streak. *)
Inbound ==
  /\ streak' = 0
  /\ UNCHANGED <<row, conn, locked, job, drain, sent, spent>>

applyMessagingOutboundStatus(r) ==
  /\ row[r].handle /\ Exists(r)
  /\ \E status \in {"sent", "failed"} : row' = [row EXCEPT ![r].status = status]
  /\ UNCHANGED <<conn, locked, streak, job, drain, sent, spent>>

-----------------------------------------------------------------------------
(* drain *)

Keep == UNCHANGED <<conn, streak, sent>>

drainBegins(d) ==
  /\ drain[d].pc = "idle" /\ job = "now"
  /\ Enqueue("none") /\ Goes(d, "read")
  /\ Keep /\ UNCHANGED <<row, locked, spent>>

drainReads(d) ==
  /\ drain[d].pc = "read"
  /\ drain' = [drain EXCEPT ![d] =
       [Idle EXCEPT !.pc = "next",
                    !.list = {r \in Rows : row[r].status = "pending" /\ row[r].due},
                    !.seen = [r \in Rows |-> row[r].attempts]]]
  /\ Keep /\ UNCHANGED <<row, locked, job, spent>>

(* Mutant: the claim does not ask for the status. *)
ClaimMatchesAny(r) == Exists(r)
ClaimMatches(r) == row[r].status = "pending"
Claimed(r) == [row[r] EXCEPT !.status = "sent", !.due = TRUE]

Claim(d, r) ==
  /\ drain[d].pc = "next" /\ r \in drain[d].list
  /\ \/ /\ ClaimMatches(r)
        /\ row' = [row EXCEPT ![r] = Claimed(r)]
        /\ drain' = [drain EXCEPT ![d].list = @ \ {r}, ![d].row = r,
                                  ![d].pc = IF r \in Group THEN "send" ELSE "identity"]
     \/ /\ ~ClaimMatches(r) /\ UNCHANGED row
        /\ drain' = [drain EXCEPT ![d].list = @ \ {r}]
  /\ Keep /\ UNCHANGED <<locked, job, spent>>

drainEnds(d) ==
  /\ drain[d].pc = "next" /\ drain[d].list = {}
  /\ drain' = [drain EXCEPT ![d] = Idle]
  /\ Keep /\ UNCHANGED <<row, locked, job, spent>>

(* Mutant: the cap is one too high. *)
AtCapLate == Capped /\ streak > Cap
AtCap == Capped /\ streak >= Cap

(* The identity's cap, then its thread: resolveDirectThread *)
Identity(d) ==
  LET r == drain[d].row IN
  /\ drain[d].pc = "identity"
  /\ \/ NoFault /\ Goes(d, IF AtCap THEN "release"
                           ELSE IF r \in Invites THEN "lock" ELSE "send")
     \/ Fault /\ Goes(d, "fail")
  /\ Keep /\ UNCHANGED <<row, locked, job>>

Release(d) ==
  LET r == drain[d].row IN
  /\ drain[d].pc = "release"
  /\ Update(r, "pending")
  /\ Goes(d, IF Exists(r) THEN "next" ELSE "fail")
  /\ Keep /\ UNCHANGED <<locked, job, spent>>

Accepts(r) == sent' = [sent EXCEPT ![r] = @ + 1]

(* The provider accepts, refuses, or accepts and its answer is lost. *)
Send(d) ==
  LET r == drain[d].row IN
  /\ drain[d].pc = "send"
  /\ \/ Accepts(r) /\ NoFault /\ Goes(d, "record")
     \/ (Accepts(r) \/ UNCHANGED sent) /\ Fault /\ Goes(d, "fail")
  /\ UNCHANGED <<row, conn, locked, streak, job>>

Record(d) ==
  LET r == drain[d].row IN
  /\ drain[d].pc = "record"
  /\ \/ /\ row' = IF Exists(r) THEN [row EXCEPT ![r].handle = TRUE] ELSE row
        /\ NoFault /\ Goes(d, IF r \in Group THEN "next" ELSE "count")
     \/ UNCHANGED row /\ Fault /\ Goes(d, "fail")
  /\ Keep /\ UNCHANGED <<locked, job>>

Count(d) ==
  /\ drain[d].pc = "count"
  /\ \/ streak' = streak + 1 /\ NoFault /\ Goes(d, "next")
     \/ UNCHANGED streak /\ Fault /\ Goes(d, "fail")
  /\ UNCHANGED <<row, conn, locked, job, sent>>

(* Mutant: the last attempt is not counted as the last. *)
ExhaustedLate(attempts) == attempts > MaxAttempts
Exhausted(attempts) == attempts >= MaxAttempts

(* The attempt count is the one the drain read, plus one. *)
Fail(d) ==
  LET r == drain[d].row
      attempts == drain[d].seen[r] + 1
      done == Exhausted(attempts)
  IN
  /\ drain[d].pc = "fail"
  /\ row' = IF Exists(r)
            THEN [row EXCEPT ![r].attempts = attempts, ![r].due = done,
                             ![r].status = IF done THEN "failed" ELSE "pending"]
            ELSE row
  /\ Goes(d, IF done THEN "next" ELSE "enqueue")
  /\ Keep /\ UNCHANGED <<locked, job, spent>>

Again == [Idle EXCEPT !.pc = "read"]

(* A retry replaces the job under the drain key; when that fails the       *)
(* drain's own job fails, and the queue runs it again.                     *)
EnqueueRetry(d) ==
  /\ drain[d].pc = "enqueue"
  /\ \/ Enqueue("later") /\ NoFault /\ Goes(d, "next")
     \/ Fault /\ UNCHANGED job /\ drain' = [drain EXCEPT ![d] = Again]
  /\ Keep /\ UNCHANGED <<row, locked>>

-----------------------------------------------------------------------------
(* sendConnectInvite, in a transaction that holds the connection's row *)

(* Mutant: the connection's status is not looked at. *)
InviteStandsUnasked(r) == Exists(r)
InviteStands(r) == conn = "pending" /\ Exists(r)

Lock(d) ==
  LET r == drain[d].row IN
  /\ drain[d].pc = "lock" /\ locked = NoDrain
  /\ \/ /\ InviteStands(r)
        /\ locked' = d /\ Goes(d, "invite") /\ UNCHANGED row
     \/ /\ ~InviteStands(r)
        /\ IF conn = "pending" THEN UNCHANGED row ELSE Update(r, "failed")
        /\ Goes(d, "next") /\ UNCHANGED locked
  /\ Keep /\ UNCHANGED <<job, spent>>

Unlock(d) == locked' = IF locked = d THEN NoDrain ELSE locked

(* Every failure from here on is "held": the row stays claimed. *)
InviteSend(d) ==
  LET r == drain[d].row IN
  /\ drain[d].pc = "invite"
  /\ \/ Accepts(r) /\ NoFault /\ UNCHANGED locked /\ Goes(d, "commit")
     \/ (Accepts(r) \/ UNCHANGED sent) /\ Fault /\ Unlock(d) /\ Goes(d, "next")
  /\ UNCHANGED <<row, conn, streak, job>>

InviteCommit(d) ==
  LET r == drain[d].row IN
  /\ drain[d].pc = "commit"
  /\ \/ /\ locked = d /\ NoFault
        /\ row' = IF Exists(r) THEN [row EXCEPT ![r].handle = TRUE] ELSE row
        /\ Goes(d, "count")
     \/ locked = d /\ Fault /\ UNCHANGED row /\ Goes(d, "next")
     \/ locked # d /\ NoFault /\ UNCHANGED row /\ Goes(d, "next")
  /\ Unlock(d) /\ Keep /\ UNCHANGED job

TransactionTimesOut(d) ==
  /\ locked = d /\ spent.timeouts < MaxTimeouts
  /\ spent' = [spent EXCEPT !.timeouts = @ + 1]
  /\ locked' = NoDrain
  /\ Keep /\ UNCHANGED <<row, job, drain>>

-----------------------------------------------------------------------------
(* Time, the queue and the reconciler *)

BackoffEnds(r) ==
  /\ ~row[r].due
  /\ row' = [row EXCEPT ![r].due = TRUE]
  /\ Keep /\ UNCHANGED <<locked, job, drain, spent>>

RetryIsDue ==
  /\ job = "later" /\ Enqueue("now")
  /\ Keep /\ UNCHANGED <<row, locked, drain, spent>>

(* Mutant: the reconciler does not look at the outbox. *)
reconcileRunsOnly == FALSE /\ UNCHANGED vars
reconcileOnce ==
  /\ \E r \in Rows : row[r].status = "pending" /\ row[r].due
  /\ Enqueue("now")
  /\ Keep /\ UNCHANGED <<row, locked, drain, spent>>

(* The process dies; the queue runs its job again. *)
Crash(d) ==
  /\ drain[d].pc \notin {"idle", "read"} /\ spent.crashes < MaxCrashes
  /\ spent' = [spent EXCEPT !.crashes = @ + 1]
  /\ drain' = [drain EXCEPT ![d] = Again]
  /\ Unlock(d)
  /\ Keep /\ UNCHANGED <<row, job>>

-----------------------------------------------------------------------------
Step(d) ==
  \/ drainBegins(d) \/ drainReads(d) \/ (\E r \in Rows : Claim(d, r)) \/ drainEnds(d) \/ Identity(d)
  \/ Release(d) \/ Send(d) \/ Record(d) \/ Count(d) \/ Fail(d) \/ EnqueueRetry(d)
  \/ Lock(d) \/ InviteSend(d) \/ InviteCommit(d)

Next ==
  \/ mirrorMessagingOutbound \/ connectAgent \/ respondAgentConnection
  \/ applyOwnerCommand \/ revoke \/ Inbound
  \/ \E d \in Drains : Step(d) \/ TransactionTimesOut(d) \/ Crash(d)
  \/ \E r \in Rows : applyMessagingOutboundStatus(r) \/ BackoffEnds(r)
  \/ RetryIsDue \/ reconcileOnce

Spec == Init /\ [][Next]_vars

(* A drain that started takes its next statement, the queue runs what is   *)
(* due, the clock moves and the reconciler's interval comes round.         *)
Fairness ==
  /\ \A d \in Drains : WF_vars(Step(d))
  /\ \A r \in Rows : WF_vars(BackoffEnds(r))
  /\ WF_vars(RetryIsDue) /\ WF_vars(reconcileOnce)

LiveSpec == Spec /\ Fairness

-----------------------------------------------------------------------------
(* Properties *)

Working(d, r) == drain[d].row = r /\ drain[d].pc # "enqueue"

(* Two drains never hold one row: the claim passes it to one of them, and  *)
(* only its holder gives it back ("concurrent drains (job keys are per     *)
(* runId) ... must never deliver the same message twice").                 *)
OneHolder ==
  \A d, e \in Drains : \A r \in Rows : Working(d, r) /\ Working(e, r) => d = e

(* The provider is given a message at most once. It holds for drains that  *)
(* race and drains that die, since the claim comes before the send; with a *)
(* failed statement or a lost answer the row goes back to pending          *)
(* ("crash retries must never deliver the same message twice").            *)
AcceptedOnce == \A r \in Rows : sent[r] <= 1

(* What is settled about a row: it has its handle, or it is out of the     *)
(* question before the provider has had it.                                *)
Fate(r) ==
  CASE row[r].handle -> "done"
    [] ~row[r].handle /\ row[r].status \in {"failed", "deleted"} /\ sent[r] = 0 -> "refused"
    [] OTHER -> "open"

OutboxPromise == INSTANCE EffectPromise WITH
  Effects <- Rows, ran <- sent,
  verdict <- [r \in Rows |-> Fate(r)],
  told <- [r \in Rows |-> IF row[r].handle THEN {"done"} ELSE {}]
(* Where no statement or call fails and no transaction runs out of time, a *)
(* row is accepted at most once, never after it was failed or deleted, and *)
(* gets its handle only then.                                              *)
RowsKeepPromise == OutboxPromise!PromiseSpec

(* An invite goes out only while its connection is pending and its own     *)
(* cycle lasts, whatever revokes and requests come between the claim and   *)
(* the send ("Revoke's status update blocks behind this lock, so it cannot *)
(* commit ... between the pending check and the send").                    *)
InviteIsCurrent ==
  [][\A r \in Invites : sent'[r] # sent[r] => conn = "pending" /\ Exists(r)]_vars

(* A drain never adds to a streak that is at the cap, and drains that race *)
(* for the last places overshoot by no more than one message each: the cap *)
(* is a "margin under vendor consecutive-outbound caps".                   *)
CapMargin == Capped => streak < Cap + Cardinality(Drains)

(* A pending row is settled, with no drain working on it, or its owner is  *)
(* at the cap: neither a lost enqueue, nor a failed send, nor a retry that *)
(* replaced the drain's job strands it.                                    *)
Settled(r) ==
  /\ row[r].status \in {"sent", "failed", "deleted"}
  /\ \A d \in Drains : ~Working(d, r)
PendingIsSettled ==
  \A r \in Rows : (row[r].status = "pending") ~> (Settled(r) \/ AtCap)

(* "A lost invite is fine; reconnect starts a fresh cycle"                 *)
(* (messaging-delivery.ts): while the requester keeps asking, a request is *)
(* delivered or answered in the end.                                       *)
Asks == WF_vars(connectAgent)
LiveAskingSpec == LiveSpec /\ Asks
ReconnectAsksAgain ==
  (conn = "pending") ~> (conn # "pending" \/ \E r \in Invites : Exists(r) /\ sent[r] > 0)

=============================================================================
