--------------------------- MODULE ExternalEffect ---------------------------
(***************************************************************************)
(* The consequential tool requests of one run: the external_effects rows,  *)
(* the turns of continueRun that make them, the calls of tools in flight,  *)
(* and the user, who answers an approval, sets rules or stops the run. A   *)
(* turn has the fence of its claim for its name. A call is a promise of    *)
(* the turn's process: it goes on when the turn pauses or loses its lease  *)
(* and ends only with the process. An action is one statement, one         *)
(* transaction or the call of the provider.                                *)
(*   packages/adapters/src/executor.ts, approval-effect.ts;                *)
(*   packages/db/src/events.ts; packages/core/src/action-approval.ts,      *)
(*   approval-effect-key.ts                                                *)
(***************************************************************************)
EXTENDS Naturals

CONSTANTS
  Effects,   \* requests, told apart by their idempotency key (run, tool, arguments)
  Tools,     \* the tools they are made to
  ToolOf,    \* the tool of a request
  Slots,     \* bound: calls in flight
  MaxTurns,  \* bound: turns of the run
  Settings,  \* what the environment may do, see EffectAssumption
  NoEffect

ASSUME EffectAssumption ==
  /\ ToolOf \in [Effects -> Tools] /\ NoEffect \notin Effects /\ MaxTurns \in Nat
  /\ Settings \subseteq
       [calls : SUBSET Effects,  \* what the model may ask for
        turns : 0 .. MaxTurns,   \* claims of the run
        slots : SUBSET Slots,    \* calls of one process in flight at a time
        rule : {"none", "require", "always"},  \* the user's rule at the start
        judge : BOOLEAN,         \* Auto Review is on and its checker configured
        edits : BOOLEAN,         \* the user edits rules while the run goes on
        faults : SUBSET {"death", "lapse", "throw", "schema"}]

VARIABLES
  effect,  \* the rows: status, and the decision of the review
  older,   \* the order of the rows' creation, a relation
  run,     \* the run's status and fence, and whether its lease is live
  ask,     \* the request on the pending card, or NoEffect
  turn,    \* the turns: the approved requests left to replay, the rules once loaded
  call,    \* the calls in flight
  rule,    \* the user's rules for each tool
  ran,     \* the requests whose execution has been started, with their number
  told,    \* what the model has been told of each request
  env      \* which of the settings this is

vars == <<effect, older, run, ask, turn, call, rule, ran, told, env>>

Turns == 1 .. MaxTurns
Rules == {"none", "require", "always"}
NoRule == [k \in {} |-> "none"]
Status == {"none", "intended", "approved", "denied", "executing", "uncertain", "completed"}
Reviews == {"none", "pass", "ask", "error"}

EffectRow == [status : Status, review : Reviews]
RunRow == [status : {"queued", "running", "waiting", "completed", "failed", "cancelled"},
           fence : 0 .. MaxTurns, live : BOOLEAN]
Turn == [state : {"none", "active", "over"}, queue : SUBSET Effects,
         rule : [Tools -> Rules] \cup {NoRule}]
Pcs == {"idle", "find", "create", "plan", "review", "gate", "claim", "reread",
        "settle", "renew", "pause", "execute", "finish"}
Call == [pc : Pcs, turn : 0 .. MaxTurns, effect : Effects \cup {NoEffect}, dup : BOOLEAN,
         seen : Status, review : Reviews, asks : BOOLEAN]

TypeOK ==
  /\ effect \in [Effects -> EffectRow]
  /\ older \subseteq Effects \X Effects
  /\ run \in RunRow
  /\ ask \in Effects \cup {NoEffect}
  /\ turn \in [Turns -> Turn]
  /\ call \in [Slots -> Call]
  /\ rule \in [Tools -> Rules]
  /\ ran \in [Effects -> Nat]
  /\ told \in [Effects -> SUBSET {"done", "refused", "unknown"}]
  /\ env \in Settings

NoCall == [pc |-> "idle", turn |-> 0, effect |-> NoEffect, dup |-> FALSE, seen |-> "none",
           review |-> "none", asks |-> FALSE]

Init ==
  /\ env \in Settings
  /\ effect = [e \in Effects |-> [status |-> "none", review |-> "none"]]
  /\ older = {}
  /\ run = [status |-> "queued", fence |-> 0, live |-> FALSE]
  /\ ask = NoEffect
  /\ turn = [t \in Turns |-> [state |-> "none", queue |-> {}, rule |-> NoRule]]
  /\ call = [c \in Slots |-> NoCall]
  /\ rule = [k \in Tools |-> env.rule]
  /\ ran = [e \in Effects |-> 0]
  /\ told = [e \in Effects |-> {}]

At(c, pc) == call[c].pc = pc
Of(c) == call[c].effect
Row(c) == effect[call[c].effect]
Goes(c, pc) == call' = [call EXCEPT ![c].pc = pc]
Returns(c) == call' = [call EXCEPT ![c] = NoCall]
Tells(c, what) == Returns(c) /\ told' = [told EXCEPT ![Of(c)] = @ \cup {what}]
SetStatus(e, status) == effect' = [effect EXCEPT ![e].status = status]

(* The WHERE clause of renewRunLease, pauseRunForInput and finalizeRun. *)
Fenced(t) == run.status = "running" /\ run.fence = t
Over(t) == turn' = [turn EXCEPT ![t] = [state |-> "over", queue |-> {}, rule |-> NoRule]]

-----------------------------------------------------------------------------
(* The turn *)

(* Mutant: the requests are not loaded again when the run resumes. *)
ApprovedNone == {}
Approved == {e \in Effects : effect[e].status = "approved"}

turnBegins ==
  LET t == run.fence + 1 IN
  /\ t <= env.turns
  /\ run.status = "queued" \/ (run.status = "running" /\ ~run.live)
  /\ run' = [status |-> "running", fence |-> t, live |-> TRUE]
  /\ turn' = [turn EXCEPT ![t] = [state |-> "active", queue |-> Approved, rule |-> NoRule]]
  /\ UNCHANGED <<effect, older, ask, call, rule, ran, told, env>>

(* The model calls a tool. While an approved request waits for its replay  *)
(* every other tool is answered with an error, and a call of its own tool  *)
(* stands for that request, whatever its arguments.                        *)
Oldest(queue) == {e \in queue : \A d \in queue : <<d, e>> \notin older}
Replayed(t, e) ==
  IF turn[t].queue = {} THEN {e}
  ELSE {d \in Oldest(turn[t].queue) : ToolOf[d] = ToolOf[e]}

applyTool(c, t, e) ==
  /\ At(c, "idle") /\ c \in env.slots /\ e \in env.calls
  /\ turn[t].state = "active"
  /\ \E d \in Replayed(t, e) :
       /\ turn' = [turn EXCEPT
            ![t].queue = @ \ {d},
            ![t].rule = IF @ = NoRule THEN rule ELSE @]
       /\ call' = [call EXCEPT ![c] = [NoCall EXCEPT !.pc = "find", !.turn = t, !.effect = d]]
  /\ UNCHANGED <<effect, older, run, ask, rule, ran, told, env>>

(* The replayed arguments do not pass the live schema: the queue has lost  *)
(* the request, and its row stays approved.                                *)
replayRejected(t) ==
  /\ turn[t].state = "active" /\ turn[t].queue # {}
  /\ \E d \in Oldest(turn[t].queue) : turn' = [turn EXCEPT ![t].queue = @ \ {d}]
  /\ "schema" \in env.faults
  /\ UNCHANGED <<effect, older, run, ask, call, rule, ran, told, env>>

(* assertDrained throws: the run fails. *)
turnEnds(t) ==
  /\ turn[t].state = "active"
  /\ \A c \in Slots : call[c].turn # t
  /\ run' = IF Fenced(t)
            THEN [run EXCEPT !.status = IF turn[t].queue = {} THEN "completed" ELSE "failed"]
            ELSE run
  /\ Over(t)
  /\ UNCHANGED <<effect, older, ask, call, rule, ran, told, env>>

(* The check between two events finds that the run is another's. *)
leaseIsLost(t) ==
  /\ turn[t].state = "active" /\ ~Fenced(t)
  /\ Over(t)
  /\ UNCHANGED <<effect, older, run, ask, call, rule, ran, told, env>>

-----------------------------------------------------------------------------
(* recordEffect *)

(* The row of (run, key), with the decision of an earlier review. *)
recordFinds(c) ==
  /\ At(c, "find")
  /\ call' = [call EXCEPT ![c].pc = IF Row(c).status = "none" THEN "create" ELSE "plan",
                          ![c].dup = Row(c).status # "none",
                          ![c].seen = Row(c).status, ![c].review = Row(c).review]
  /\ UNCHANGED <<effect, older, run, ask, turn, rule, ran, told, env>>

Made == {e \in Effects : effect[e].status # "none"}

(* The key is unique: the second of two racing creations throws. *)
recordCreates(c) ==
  /\ At(c, "create")
  /\ IF Row(c).status = "none"
     THEN /\ SetStatus(Of(c), "intended") /\ older' = older \cup (Made \X {Of(c)})
          /\ call' = [call EXCEPT ![c].pc = "plan", ![c].seen = "intended"]
     ELSE Returns(c) /\ UNCHANGED <<effect, older>>
  /\ UNCHANGED <<run, ask, turn, rule, ran, told, env>>

-----------------------------------------------------------------------------
(* The gate *)

RuleOf(c) == LET t == turn[call[c].turn] IN
  IF t.rule = NoRule THEN rule[ToolOf[Of(c)]] ELSE t.rule[ToolOf[Of(c)]]

planActionGate(c) ==
  CASE RuleOf(c) = "require" -> "ask"
    [] RuleOf(c) = "always" -> "allow"
    [] OTHER -> IF env.judge THEN "judge" ELSE "allow"

plan(c) ==
  /\ At(c, "plan")
  /\ call' = [call EXCEPT
       ![c].pc = IF planActionGate(c) = "judge" /\ call[c].review = "none"
                 THEN "review" ELSE "gate",
       ![c].asks = \/ planActionGate(c) = "ask"
                   \/ planActionGate(c) = "judge" /\ call[c].review \in {"ask", "error"}]
  /\ UNCHANGED <<effect, older, run, ask, turn, rule, ran, told, env>>

(* Only a pass lets the call through. *)
runAutoReview(c) ==
  /\ At(c, "review")
  /\ \E d \in Reviews \ {"none"} :
       /\ effect' = [effect EXCEPT ![Of(c)].review = d]
       /\ call' = [call EXCEPT ![c].pc = "gate", ![c].asks = d # "pass"]
  /\ UNCHANGED <<older, run, ask, turn, rule, ran, told, env>>

Verdict(status) ==
  CASE status = "completed" -> "done"
    [] status = "denied" -> "refused"
    [] status = "uncertain" -> "unknown"
    [] OTHER -> "open"

(* Mutant: a request that waits for its approval is answered as settled. *)
resolveDuplicateEffectGateAnswering(status) ==
  CASE status = "executing" -> "uncertain"
    [] status = "approved" -> "execute"
    [] OTHER -> "return"
(* Mutant: a request found executing is executed again. *)
resolveDuplicateEffectGateRetrying(status) ==
  CASE Verdict(status) # "open" -> "return"
    [] status \in {"executing", "approved"} -> "execute"
    [] OTHER -> "paused"
resolveDuplicateEffectGate(status) ==
  CASE Verdict(status) # "open" -> "return"
    [] status = "executing" -> "uncertain"
    [] status = "approved" -> "execute"
    [] OTHER -> "paused"

gate(c) ==
  LET action == IF call[c].dup THEN resolveDuplicateEffectGate(call[c].seen) ELSE "paused" IN
  /\ At(c, "gate")
  /\ CASE action = "return" -> Tells(c, Verdict(call[c].seen))
       [] action = "uncertain" -> Goes(c, "settle") /\ UNCHANGED told
       [] action = "execute" -> Goes(c, "claim") /\ UNCHANGED told
       [] action = "paused" /\ ~call[c].asks -> Goes(c, "claim") /\ UNCHANGED told
       [] OTHER -> Goes(c, "renew") /\ UNCHANGED told
  /\ UNCHANGED <<effect, older, run, ask, turn, rule, ran, env>>

(* Mutant: the claim asks for the row only. *)
ClaimableAny(c) == TRUE
(* claimApprovedEffect or claimIntendedEffect, by the status that was read *)
Claimable(c) == Row(c).status = call[c].seen

claimEffect(c) ==
  /\ At(c, "claim")
  /\ IF Claimable(c) THEN SetStatus(Of(c), "executing") /\ Goes(c, "execute")
     ELSE UNCHANGED effect /\ Goes(c, "reread")
  /\ UNCHANGED <<older, run, ask, turn, rule, ran, told, env>>

(* The claim was lost: the status decides, or an error is thrown. *)
claimRereads(c) ==
  /\ At(c, "reread")
  /\ CASE Verdict(Row(c).status) # "open" -> Tells(c, Verdict(Row(c).status))
       [] Row(c).status = "executing" -> Goes(c, "settle") /\ UNCHANGED told
       [] OTHER -> Returns(c) /\ UNCHANGED told
  /\ UNCHANGED <<effect, older, run, ask, turn, rule, ran, env>>

Settles(c) == Row(c).status = "executing"

(* The update, and the read that follows when it matches nothing: no       *)
(* status but a settled one can be read there.                             *)
settleUncertainEffect(c) ==
  /\ At(c, "settle")
  /\ IF Settles(c) THEN SetStatus(Of(c), "uncertain") /\ Tells(c, "unknown")
     ELSE /\ UNCHANGED effect
          /\ Tells(c, IF Verdict(Row(c).status) = "open" THEN "unknown"
                      ELSE Verdict(Row(c).status))
  /\ UNCHANGED <<older, run, ask, turn, rule, ran, env>>

(* requestApproval. Whoever finds the run waiting, or lost, leaves it. *)
renewRunLease(c) ==
  LET t == call[c].turn IN
  /\ At(c, "renew")
  /\ IF Fenced(t) THEN Goes(c, "pause") /\ run' = [run EXCEPT !.live = TRUE] /\ UNCHANGED turn
     ELSE Returns(c) /\ Over(t) /\ UNCHANGED run
  /\ UNCHANGED <<effect, older, ask, rule, ran, told, env>>

(* Mutant: the update that pauses asks for nothing, although the run was   *)
(* renewed before.                                                         *)
PausesAny(t) == TRUE
(* The WHERE clause of the pause. *)
Pauses(t) == Fenced(t)

(* A pause that misses the run throws. *)
pauseRunForInput(c) ==
  LET t == call[c].turn IN
  /\ At(c, "pause")
  /\ IF Pauses(t)
     THEN run' = [run EXCEPT !.status = "waiting", !.live = FALSE] /\ ask' = Of(c) /\ Over(t)
     ELSE UNCHANGED <<run, ask, turn>>
  /\ Returns(c)
  /\ UNCHANGED <<effect, older, rule, ran, told, env>>

-----------------------------------------------------------------------------
(* The execution *)

execute(c) ==
  /\ At(c, "execute")
  /\ ran' = [ran EXCEPT ![Of(c)] = @ + 1]
  /\ Goes(c, "finish")
  /\ UNCHANGED <<effect, older, run, ask, turn, rule, told, env>>

Completes(c) == Row(c).status = "executing"

completeExternalEffect(c) ==
  /\ At(c, "finish")
  /\ IF Completes(c) THEN SetStatus(Of(c), "completed") /\ Tells(c, "done")
     ELSE UNCHANGED effect /\ Tells(c, "unknown")
  /\ UNCHANGED <<older, run, ask, turn, rule, ran, env>>

toolThrows(c) ==
  /\ At(c, "finish")
  /\ Returns(c) /\ "throw" \in env.faults
  /\ UNCHANGED <<effect, older, run, ask, turn, rule, ran, told, env>>

-----------------------------------------------------------------------------
(* The user *)

Answerable == ask # NoEffect /\ effect[ask].status = "intended"

answerAsk(answer) ==
  /\ run.status = "waiting" /\ Answerable
  /\ run' = [run EXCEPT !.status = "queued"]
  /\ SetStatus(ask, IF answer = "deny" THEN "denied" ELSE "approved")
  /\ rule' = IF answer = "always" /\ rule[ToolOf[ask]] # "require"
             THEN [rule EXCEPT ![ToolOf[ask]] = "always"] ELSE rule
  /\ ask' = NoEffect
  /\ UNCHANGED <<older, turn, call, ran, told, env>>

setRule(k) ==
  /\ env.edits /\ \E e \in env.calls : ToolOf[e] = k
  /\ \E r \in Rules \ {rule[k]} : rule' = [rule EXCEPT ![k] = r]
  /\ UNCHANGED <<effect, older, run, ask, turn, call, ran, told, env>>

stop ==
  /\ run.status \in {"queued", "running", "waiting"}
  /\ run' = [run EXCEPT !.status = "cancelled", !.live = FALSE]
  /\ UNCHANGED <<effect, older, ask, turn, call, rule, ran, told, env>>

-----------------------------------------------------------------------------
(* Time and failures *)

leaseLapses ==
  /\ run.status = "running" /\ run.live
  /\ turn[run.fence].state = "active" => "lapse" \in env.faults
  /\ run' = [run EXCEPT !.live = FALSE]
  /\ UNCHANGED <<effect, older, ask, turn, call, rule, ran, told, env>>

Crash(t) ==
  /\ "death" \in env.faults
  /\ turn[t].state = "active" \/ \E c \in Slots : call[c].turn = t
  /\ Over(t)
  /\ call' = [c \in Slots |-> IF call[c].turn = t THEN NoCall ELSE call[c]]
  /\ UNCHANGED <<effect, older, run, ask, rule, ran, told, env>>

-----------------------------------------------------------------------------
Proceed(c) ==
  \/ recordFinds(c) \/ recordCreates(c) \/ plan(c) \/ runAutoReview(c) \/ gate(c)
  \/ claimEffect(c) \/ claimRereads(c) \/ settleUncertainEffect(c)
  \/ renewRunLease(c) \/ pauseRunForInput(c)
  \/ execute(c) \/ completeExternalEffect(c)

Next ==
  \/ turnBegins
  \/ \E t \in Turns : \/ \E c \in Slots, e \in Effects : applyTool(c, t, e)
                      \/ replayRejected(t) \/ turnEnds(t) \/ leaseIsLost(t) \/ Crash(t)
  \/ \E c \in Slots : Proceed(c) \/ toolThrows(c)
  \/ \E answer \in {"allow", "always", "deny"} : answerAsk(answer)
  \/ \E k \in Tools : setRule(k)
  \/ stop \/ leaseLapses

Spec == Init /\ [][Next]_vars

(* What is queued or lapsed is claimed, a process that lives takes its     *)
(* next statement, and a turn that calls tools again and again ends.       *)
Fairness ==
  /\ WF_vars(turnBegins) /\ WF_vars(leaseLapses)
  /\ \A c \in Slots : WF_vars(Proceed(c))
  /\ \A t \in Turns : SF_vars(turnEnds(t)) /\ WF_vars(leaseIsLost(t))

LiveSpec == Spec /\ Fairness

-----------------------------------------------------------------------------
(* Properties *)

(* The rows, the turns and the calls implement the promise: a request is   *)
(* executed at most once although turns crash, lose their lease and repeat *)
(* their calls, never after the user has denied it, and "completed",       *)
(* "denied" and "uncertain" never give way to one another: nobody is told  *)
(* two things about one request (approval-effect.ts).                      *)
Promise == INSTANCE EffectPromise WITH
  verdict <- [e \in Effects |-> Verdict(effect[e].status)]
KeepsPromise == Promise!PromiseSpec

(* A run that waits shows a card that can be answered: the request on it   *)
(* is still intended, which answerAsk asks for (events.ts). (With a review *)
(* or an edited rule two calls of one request may be decided differently:  *)
(* README, Disagreements.)                                                 *)
AskIsAnswerable ==
  run.status = "waiting" /\ ~env.judge /\ ~env.edits => Answerable

(* What the user has approved is done: the run comes back, loads the       *)
(* request again and settles it, through deaths, lapsed leases and errors  *)
(* of the tool, or it fails aloud (assertDrained), or is stopped; it does  *)
(* not complete and forget it. Not where a changed schema rejects it, nor  *)
(* beyond the bound on turns.                                              *)
ApprovedIsReplayed ==
  (\E e \in Effects : effect[e].status = "approved") ~>
    \/ \A e \in Effects : effect[e].status # "approved"
    \/ run.status \in {"failed", "cancelled"} \/ run.fence = env.turns
    \/ "schema" \in env.faults
=============================================================================
