------------------------ MODULE ExternalEffectProofs ------------------------
(***************************************************************************)
(* The rows, turns and calls of ExternalEffect implement EffectPromise,    *)
(* for any number of requests, calls, turns and failures. The invariant    *)
(* says who may still execute a request: the one call that claimed it,     *)
(* while the row is executing or has been called uncertain.                *)
(***************************************************************************)
EXTENDS ExternalEffect, TLAPS

-----------------------------------------------------------------------------
(* The inductive invariant *)

(* A call in flight names its request and its turn. *)
Named(v) == v.pc # "idle" => v.effect \in Effects /\ v.turn \in Turns
Names == \A c \in Slots : Named(call[c])

(* The call that has claimed a request is alone with it, and its row is    *)
(* settled by nobody but it, except as uncertain.                          *)
Holding(v) == v.pc \in {"execute", "finish"}
HoldersClaimed ==
  \A c \in Slots : Holding(call[c]) =>
    /\ effect[call[c].effect].status \in {"executing", "uncertain"}
    /\ call[c].pc = "execute" => ran[call[c].effect] = 0
    /\ call[c].pc = "finish" => ran[call[c].effect] = 1
HolderIsAlone ==
  \A c, d \in Slots :
    Holding(call[c]) /\ Holding(call[d]) /\ call[c].effect = call[d].effect => c = d

(* What a row says of the execution. *)
RanAsRecorded ==
  \A e \in Effects :
    /\ effect[e].status \in {"none", "intended", "approved", "denied"} => ran[e] = 0
    /\ effect[e].status = "completed" => ran[e] = 1

(* What a call has read of its row is true, or out of date in one          *)
(* direction only.                                                         *)
Begun == {"executing", "uncertain", "completed"}
Settled == {"completed", "denied", "uncertain"}
Past(v, status) ==
  /\ v.pc \in {"plan", "review", "gate"} =>
       /\ v.seen # "none"
       /\ ~v.dup => v.seen = "intended"
       /\ v.seen \in Settled => status = v.seen
       /\ v.seen = "executing" => status \in Begun
  /\ v.pc = "claim" => v.seen \in {"intended", "approved"}
  /\ v.pc = "settle" => status \in Begun
SeenIsPast == \A c \in Slots : Past(call[c], effect[call[c].effect].status)

(* The agent was told nothing, or what the row says for good. *)
ToldIsTrue ==
  \A e \in Effects :
    told[e] # {} => effect[e].status \in Settled /\ told[e] = {Verdict(effect[e].status)}

IInv ==
  /\ TypeOK /\ Names /\ HoldersClaimed /\ HolderIsAlone /\ RanAsRecorded
  /\ SeenIsPast /\ ToldIsTrue

-----------------------------------------------------------------------------
(* Facts about single values *)

LEMMA Bound == MaxTurns \in Nat
BY EffectAssumption DEF EffectAssumption

(* The verdicts, one by one. *)
LEMMA Verdicts ==
  /\ Verdict("completed") = "done" /\ Verdict("denied") = "refused"
  /\ Verdict("uncertain") = "unknown"
  /\ \A s \in Status \ Settled : Verdict(s) = "open"
  /\ \A s \in Settled : Verdict(s) \in {"done", "refused", "unknown"}
<1>1. /\ Verdict("completed") = "done" /\ Verdict("denied") = "refused"
      /\ Verdict("uncertain") = "unknown"
  BY Zenon DEF Verdict
<1>2. \A s \in Status \ Settled : Verdict(s) = "open"
  BY Zenon DEF Verdict, Status, Settled
<1> QED
  BY <1>1, <1>2, SMT DEF Status, Settled

(* No call is a call, and one that asks for nothing. *)
LEMMA NoCallFacts ==
  NoCall \in Call /\ Named(NoCall) /\ ~Holding(NoCall) /\ \A s : Past(NoCall, s)
BY Bound DEF NoCall, Call, Pcs, Status, Reviews, Named, Holding, Past

(* What a call is that begins, and what its turn becomes. *)
Beginning(t, d) == [NoCall EXCEPT !.pc = "find", !.turn = t, !.effect = d]
LEMMA BeginningFacts ==
  ASSUME NEW t \in Turns, NEW d \in Effects
  PROVE  /\ Beginning(t, d) \in Call /\ Named(Beginning(t, d)) /\ ~Holding(Beginning(t, d))
         /\ \A s : Past(Beginning(t, d), s)
<1>1. ASSUME NEW v \in Call, NEW u \in 0 .. MaxTurns
      PROVE  [v EXCEPT !.pc = "find", !.turn = u, !.effect = d] \in Call
  BY DEF Call, Pcs
<1>2. t \in 0 .. MaxTurns
  BY DEF Turns
<1>3. Beginning(t, d) \in Call
  BY <1>1, <1>2, NoCallFacts DEF Beginning
<1>4. /\ Beginning(t, d).pc = "find" /\ Beginning(t, d).turn = t
      /\ Beginning(t, d).effect = d
  BY DEF Beginning, NoCall
<1> QED
  BY <1>3, <1>4 DEF Named, Holding, Past
LEMMA TurnFacts ==
  ASSUME NEW old \in Turn, NEW queue \in SUBSET Effects, NEW r \in [Tools -> Rules] \cup {NoRule}
  PROVE  [old EXCEPT !.queue = queue, !.rule = r] \in Turn
BY DEF Turn

(* What the call of c becomes when it goes on. *)
LEMMA GoesFacts ==
  ASSUME TypeOK, Names, NEW c \in Slots, NEW pc \in Pcs, Goes(c, pc), ~At(c, "idle")
  PROVE  LET v == [call[c] EXCEPT !.pc = pc] IN
         /\ v \in Call /\ Named(v) /\ call' = [call EXCEPT ![c] = v]
         /\ v.pc = pc /\ v.effect = call[c].effect /\ v.turn = call[c].turn
         /\ v.seen = call[c].seen /\ v.dup = call[c].dup
<1>1. call[c] \in Call
  BY DEF TypeOK
<1> QED
  BY <1>1 DEF Goes, Call, Named, Names, At

(* A turn is over. *)
LEMMA OverFacts ==
  ASSUME TypeOK, NEW t \in Turns, Over(t)
  PROVE  turn' \in [Turns -> Turn]
BY DEF TypeOK, Over, Turn, NoRule

(* The status of one row is set. *)
LEMMA SetStatusFacts ==
  ASSUME TypeOK, NEW e \in Effects, NEW s \in Status, SetStatus(e, s)
  PROVE  /\ effect' \in [Effects -> EffectRow]
         /\ effect'[e].status = s
         /\ \A d \in Effects \ {e} : effect'[d].status = effect[d].status
BY DEF TypeOK, SetStatus, EffectRow

-----------------------------------------------------------------------------
LEMMA InitInv == Init => IInv
BY EffectAssumption, Verdicts DEF EffectAssumption, Init, IInv, TypeOK, Names, Named, HoldersClaimed, HolderIsAlone, RanAsRecorded,
   SeenIsPast, Past, ToldIsTrue, Holding, At, NoCall, Turns, Rules, Status, Reviews, NoRule,
   EffectRow, RunRow, Turn, Pcs, Call

(* Steps at which no row changes its status, nothing is executed and no    *)
(* call claims anything: calls are unchanged, gone, or go on with what     *)
(* they know.                                                              *)
SameRows == \A e \in Effects : effect'[e].status = effect[e].status
LEMMA Quiet ==
  ASSUME IInv, TypeOK', SameRows, ran' = ran, ToldIsTrue',
         \A c \in Slots : \/ call'[c] = call[c]
                          \/ /\ Named(call'[c]) /\ ~Holding(call'[c])
                             /\ Past(call'[c], effect[call'[c].effect].status)
  PROVE  IInv'
<1>1. Names'
  BY DEF IInv, Names, Named
<1>2. HoldersClaimed' /\ HolderIsAlone'
  BY DEF IInv, HoldersClaimed, HolderIsAlone, Holding, SameRows, Names, Named
<1>3. RanAsRecorded'
  BY DEF IInv, RanAsRecorded, SameRows
<1>4. SeenIsPast'
  BY DEF IInv, SeenIsPast, Past, SameRows, Names, Named
<1> QED
  BY <1>1, <1>2, <1>3, <1>4 DEF IInv

(* What every step does: it keeps the invariant, and it is a step of the   *)
(* promise or none.                                                        *)
Kept == IInv' /\ [Promise!PromiseNext]_(Promise!promiseVars)

LEMMA QuietKept ==
  ASSUME IInv, TypeOK', SameRows, ran' = ran, told' = told,
         \A c \in Slots : \/ call'[c] = call[c]
                          \/ /\ Named(call'[c]) /\ ~Holding(call'[c])
                             /\ Past(call'[c], effect[call'[c].effect].status)
  PROVE  Kept
<1>1. ToldIsTrue'
  BY DEF IInv, ToldIsTrue, SameRows
<1>2. IInv'
  BY <1>1, Quiet
<1>3. UNCHANGED Promise!promiseVars
  BY DEF Promise!promiseVars, SameRows
<1> QED
  BY <1>2, <1>3 DEF Kept

(* A call returns, and tells what its row says for good. *)
LEMMA TellKept ==
  ASSUME IInv, NEW c \in Slots, ~At(c, "idle"), Row(c).status \in Settled,
         Tells(c, Verdict(Row(c).status)), UNCHANGED <<effect, older, run, ask, turn, rule, ran, env>>
  PROVE  Kept
<1> DEFINE e == Of(c)
<1>1. e \in Effects /\ effect[e].status \in Settled /\ effect[e].status \in Status
  BY DEF IInv, Names, Named, At, Of, Row, TypeOK, EffectRow
<1>2. told' = [told EXCEPT ![e] = {Verdict(effect[e].status)}]
  BY <1>1 DEF Tells, IInv, ToldIsTrue, TypeOK, Row, Of
<1>3. TypeOK'
  BY <1>1, <1>2, Verdicts, NoCallFacts DEF IInv, TypeOK, Tells, Returns
<1>4. ToldIsTrue'
  BY <1>1, <1>2 DEF IInv, ToldIsTrue, TypeOK
<1>5. IInv'
  BY <1>3, <1>4, Quiet, NoCallFacts DEF Tells, Returns, IInv, TypeOK, SameRows
<1>6. Promise!Tell(e)
  <2>1. Verdict(effect[e].status) # "open"
    BY <1>1, Verdicts
  <2> QED
    BY <1>1, <1>2, <2>1 DEF Promise!Tell
<1> QED
  BY <1>1, <1>5, <1>6 DEF Kept, Promise!PromiseNext

-----------------------------------------------------------------------------
(* The actions that touch no row *)

LEMMA TurnSteps ==
  ASSUME IInv,
         \/ turnBegins \/ stop \/ leaseLapses
         \/ \E t \in Turns : replayRejected(t) \/ turnEnds(t) \/ leaseIsLost(t) \/ Crash(t)
         \/ \E k \in Tools : setRule(k)
  PROVE  Kept
<1> USE DEF IInv, TypeOK
<1>1. CASE turnBegins
  <2>1. run.fence + 1 \in Turns
    BY <1>1, EffectAssumption DEF EffectAssumption, turnBegins, RunRow, Turns
  <2>2. TypeOK'
    BY <1>1, <2>1 DEF turnBegins, Approved, Turn, RunRow, NoRule, Turns
  <2> QED
    BY <1>1, <2>2, QuietKept DEF turnBegins, SameRows
<1>2. CASE stop
  <2>1. TypeOK'
    BY <1>2 DEF stop, RunRow
  <2> QED
    BY <1>2, <2>1, QuietKept DEF stop, SameRows
<1>3. CASE leaseLapses
  <2>1. TypeOK'
    BY <1>3 DEF leaseLapses, RunRow
  <2> QED
    BY <1>3, <2>1, QuietKept DEF leaseLapses, SameRows
<1>4. ASSUME NEW t \in Turns, replayRejected(t) PROVE Kept
  <2>1. TypeOK'
    BY <1>4 DEF replayRejected, Turn, Oldest
  <2> QED
    BY <1>4, <2>1, QuietKept DEF replayRejected, SameRows
<1>5. ASSUME NEW t \in Turns, turnEnds(t) PROVE Kept
  <2>1. TypeOK'
    BY <1>5, OverFacts DEF turnEnds, RunRow
  <2> QED
    BY <1>5, <2>1, QuietKept DEF turnEnds, SameRows
<1>6. ASSUME NEW t \in Turns, leaseIsLost(t) PROVE Kept
  <2>1. TypeOK'
    BY <1>6, OverFacts DEF leaseIsLost
  <2> QED
    BY <1>6, <2>1, QuietKept DEF leaseIsLost, SameRows
<1>7. ASSUME NEW t \in Turns, Crash(t) PROVE Kept
  <2>1. TypeOK'
    BY <1>7, OverFacts, NoCallFacts DEF Crash
  <2> QED
    BY <1>7, <2>1, QuietKept, NoCallFacts DEF Crash, SameRows
<1>8. ASSUME NEW k \in Tools, setRule(k) PROVE Kept
  <2>1. TypeOK'
    BY <1>8 DEF setRule, Rules
  <2> QED
    BY <1>8, <2>1, QuietKept DEF setRule, SameRows
<1> QED
  BY <1>1, <1>2, <1>3, <1>4, <1>5, <1>6, <1>7, <1>8

-----------------------------------------------------------------------------
(* The calls up to the claim *)

LEMMA CallBegins ==
  ASSUME IInv, NEW t \in Turns, NEW c \in Slots, NEW e \in Effects, applyTool(c, t, e)
  PROVE  Kept
<1> USE DEF IInv, TypeOK
<1>1. PICK d \in Replayed(t, e) :
        /\ turn' = [turn EXCEPT ![t].queue = @ \ {d}, ![t].rule = IF @ = NoRule THEN rule ELSE @]
        /\ call' = [call EXCEPT ![c] =
                      [NoCall EXCEPT !.pc = "find", !.turn = t, !.effect = d]]
  BY DEF applyTool
<1>2. d \in Effects
  BY <1>1 DEF Replayed, Oldest, Turn
<1> DEFINE old == turn[t]
           r == IF old.rule = NoRule THEN rule ELSE old.rule
<1>3. old \in Turn /\ old.queue \ {d} \in SUBSET Effects /\ r \in [Tools -> Rules] \cup {NoRule}
  <2>1. old \in Turn
    OBVIOUS
  <2> QED
    BY <2>1 DEF Turn
<1>4. TypeOK'
  <2>1. turn' = [turn EXCEPT ![t] = [old EXCEPT !.queue = old.queue \ {d}, !.rule = r]]
    BY <1>1
  <2>2. turn' \in [Turns -> Turn]
    BY <2>1, <1>3, TurnFacts
  <2>3. call' \in [Slots -> Call]
    BY <1>1, <1>2, BeginningFacts DEF Beginning
  <2> QED
    BY <2>2, <2>3 DEF applyTool
<1>5. \A b \in Slots \ {c} : call'[b] = call[b]
  BY <1>1
<1>6. call'[c] = Beginning(t, d)
  BY <1>1 DEF Beginning
<1>7. SameRows /\ ran' = ran /\ told' = told
  BY DEF applyTool, SameRows
<1> QED
  BY <1>2, <1>4, <1>5, <1>6, <1>7, BeginningFacts, QuietKept

(* A call goes on: it becomes v. *)
LEMMA GoesOnKept ==
  ASSUME IInv, NEW c \in Slots, NEW v \in Call, call' = [call EXCEPT ![c] = v],
         Named(v), ~Holding(v), Past(v, effect[v.effect].status),
         effect' \in [Effects -> EffectRow], SameRows, run' \in RunRow,
         ask' \in Effects \cup {NoEffect}, turn' \in [Turns -> Turn],
         UNCHANGED <<older, rule, ran, told, env>>
  PROVE  Kept
<1>1. TypeOK'
  BY DEF IInv, TypeOK
<1>2. \A b \in Slots \ {c} : call'[b] = call[b]
  BY DEF IInv, TypeOK
<1>3. call'[c] = v
  BY DEF IInv, TypeOK
<1> QED
  BY <1>1, <1>2, <1>3, QuietKept

LEMMA RecordFinds ==
  ASSUME IInv, NEW c \in Slots, recordFinds(c)
  PROVE  Kept
<1> DEFINE status == effect[call[c].effect].status
           v == [call[c] EXCEPT !.pc = IF status = "none" THEN "create" ELSE "plan",
                                !.dup = status # "none", !.seen = status,
                                !.review = effect[call[c].effect].review]
<1>1. /\ call[c] \in Call /\ call[c].effect \in Effects /\ call[c].turn \in Turns
      /\ status \in Status /\ effect[call[c].effect].review \in Reviews
  BY DEF IInv, TypeOK, Names, Named, recordFinds, At, EffectRow
<1>2. v \in Call /\ Named(v) /\ ~Holding(v) /\ v.effect = call[c].effect
  BY <1>1 DEF Call, Pcs, Named, Holding
<1>3. Past(v, status)
  BY <1>1 DEF Past, Call, Begun, Settled
<1>4. call' = [call EXCEPT ![c] = v]
  BY <1>1 DEF recordFinds, Row, IInv, TypeOK
<1>5. Past(v, effect[v.effect].status)
  BY <1>2, <1>3
<1> HIDE DEF v
<1> QED
  BY <1>2, <1>5, <1>4, GoesOnKept DEF recordFinds, SameRows, IInv, TypeOK

(* The calls that only move on, with the same request and what they saw. *)
LEMMA MovesKept ==
  ASSUME IInv, NEW c \in Slots, NEW pc \in Pcs, Goes(c, pc), ~At(c, "idle"),
         pc \notin {"execute", "finish"},
         Past([call[c] EXCEPT !.pc = pc], effect[call[c].effect].status),
         run' \in RunRow, turn' \in [Turns -> Turn],
         UNCHANGED <<effect, older, ask, rule, ran, told, env>>
  PROVE  Kept
<1> DEFINE v == [call[c] EXCEPT !.pc = pc]
<1>1. /\ v \in Call /\ Named(v) /\ call' = [call EXCEPT ![c] = v]
      /\ v.pc = pc /\ v.effect = call[c].effect
  BY GoesFacts DEF IInv
<1>2. Past(v, effect[v.effect].status)
  BY <1>1
<1>3. ~Holding(v)
  BY <1>1 DEF Holding
<1> HIDE DEF v
<1> QED
  BY <1>1, <1>2, <1>3, GoesOnKept DEF IInv, TypeOK, SameRows

LEMMA ReturnsKept ==
  ASSUME IInv, NEW c \in Slots, Returns(c),
         run' \in RunRow, ask' \in Effects \cup {NoEffect}, turn' \in [Turns -> Turn],
         UNCHANGED <<effect, older, rule, ran, told, env>>
  PROVE  Kept
BY NoCallFacts, GoesOnKept DEF Returns, SameRows, IInv, TypeOK

LEMMA Plans == ASSUME IInv, NEW c \in Slots, plan(c) PROVE Kept
<1> DEFINE pc == IF planActionGate(c) = "judge" /\ call[c].review = "none"
                 THEN "review" ELSE "gate"
           asks == \/ planActionGate(c) = "ask"
                   \/ planActionGate(c) = "judge" /\ call[c].review \in {"ask", "error"}
           v == [call[c] EXCEPT !.pc = pc, !.asks = asks]
<1>1. call[c] \in Call /\ call[c].effect \in Effects /\ call[c].turn \in Turns
  BY DEF IInv, TypeOK, Names, Named, plan, At
<1>2. call' = [call EXCEPT ![c] = v]
  BY DEF plan
<1>3. pc \in {"review", "gate"} /\ asks \in BOOLEAN
  OBVIOUS
<1> HIDE DEF pc, asks
<1>4. v \in Call /\ Named(v) /\ ~Holding(v)
  BY <1>1, <1>3 DEF Call, Pcs, Named, Holding
<1>5. v.pc = pc /\ v.seen = call[c].seen /\ v.dup = call[c].dup /\ v.effect = call[c].effect
  BY <1>1 DEF Call
<1> HIDE DEF v
<1>6. Past(v, effect[v.effect].status)
  BY <1>3, <1>5 DEF Past, IInv, SeenIsPast, plan, At
<1> QED
  BY <1>2, <1>4, <1>6, GoesOnKept DEF plan, SameRows, IInv, TypeOK

LEMMA AutoReviews == ASSUME IInv, NEW c \in Slots, runAutoReview(c) PROVE Kept
<1>1. PICK d \in Reviews \ {"none"} :
        /\ effect' = [effect EXCEPT ![Of(c)].review = d]
        /\ call' = [call EXCEPT ![c].pc = "gate", ![c].asks = d # "pass"]
  BY DEF runAutoReview
<1> DEFINE v == [call[c] EXCEPT !.pc = "gate", !.asks = d # "pass"]
<1>2. call[c] \in Call /\ call[c].effect \in Effects /\ call[c].turn \in Turns
  BY DEF IInv, TypeOK, Names, Named, runAutoReview, At
<1>3. call' = [call EXCEPT ![c] = v]
  BY <1>1
<1>4. v \in Call /\ Named(v) /\ ~Holding(v)
  BY <1>2 DEF Call, Pcs, Named, Holding
<1>5. v.pc = "gate" /\ v.seen = call[c].seen /\ v.dup = call[c].dup /\ v.effect = call[c].effect
  BY <1>2 DEF Call
<1> HIDE DEF v
<1>6. Past(v, effect[v.effect].status)
  BY <1>5 DEF Past, IInv, SeenIsPast, runAutoReview, At
<1>7. effect' \in [Effects -> EffectRow] /\ SameRows
  BY <1>1, <1>2 DEF Of, SameRows, IInv, TypeOK, EffectRow
<1> QED
  BY <1>3, <1>4, <1>6, <1>7, GoesOnKept DEF runAutoReview, IInv, TypeOK

(* What the gate does follows from what the call has read. *)
LEMMA GateReads ==
  ASSUME IInv, NEW c \in Slots, gate(c)
  PROVE  LET seen == call[c].seen
             action == IF call[c].dup THEN resolveDuplicateEffectGate(seen) ELSE "paused"
         IN  /\ action \in {"return", "uncertain", "execute", "paused"}
             /\ action = "return" => seen \in Settled
             /\ action = "uncertain" => seen = "executing"
             /\ action = "execute" => seen = "approved"
             /\ action = "paused" => seen = "intended"
<1> DEFINE seen == call[c].seen
<1>1. seen \in Status /\ Past(call[c], effect[call[c].effect].status) /\ call[c].pc = "gate"
  BY DEF IInv, TypeOK, gate, At, Call, SeenIsPast
<1>2. /\ seen \in Settled => resolveDuplicateEffectGate(seen) = "return"
      /\ seen = "executing" => resolveDuplicateEffectGate(seen) = "uncertain"
      /\ seen = "approved" => resolveDuplicateEffectGate(seen) = "execute"
      /\ seen \in {"none", "intended"} => resolveDuplicateEffectGate(seen) = "paused"
  <2>1. seen \in Settled <=> Verdict(seen) # "open"
    BY <1>1, Verdicts, SMT
  <2>2. seen \in Settled => seen \notin {"executing", "approved", "none", "intended"}
    BY DEF Settled
  <2> QED
    BY <2>1, <2>2, Zenon DEF resolveDuplicateEffectGate
<1>3. seen # "none" /\ (~call[c].dup => seen = "intended")
  BY <1>1 DEF Past
<1>4. seen \in Settled \cup {"executing", "approved", "none", "intended"}
  BY <1>1 DEF Status, Settled
<1> QED
  BY <1>2, <1>3, <1>4

LEMMA Gates == ASSUME IInv, NEW c \in Slots, gate(c) PROVE Kept
<1> DEFINE seen == call[c].seen
           action == IF call[c].dup THEN resolveDuplicateEffectGate(seen) ELSE "paused"
           status == effect[call[c].effect].status
<1>1. /\ call[c].effect \in Effects /\ call[c].turn \in Turns /\ call[c].pc = "gate"
      /\ seen \in Status /\ Past(call[c], status) /\ call[c] \in Call
  BY DEF IInv, TypeOK, Names, Named, gate, At, Call, SeenIsPast
<1>2. /\ action = "return" => seen \in Settled
      /\ action = "uncertain" => seen = "executing"
      /\ action = "execute" => seen = "approved"
      /\ action = "paused" => seen = "intended"
  BY GateReads
<1>3. \/ action = "return" /\ Tells(c, Verdict(seen))
      \/ action = "uncertain" /\ Goes(c, "settle") /\ told' = told
      \/ action \in {"execute", "paused"} /\ Goes(c, "claim") /\ told' = told
      \/ Goes(c, "renew") /\ told' = told
  BY Zenon DEF gate
<1>4. UNCHANGED <<effect, older, run, ask, turn, rule, ran, env>> /\ ~At(c, "idle")
  BY DEF gate, At
<1> HIDE DEF action
<1>5. CASE action = "return" /\ Tells(c, Verdict(seen))
  <2>1. Row(c).status = seen /\ seen \in Settled
    BY <1>1, <1>2, <1>5 DEF Past, Row, Of
  <2> QED
    BY <1>4, <1>5, <2>1, TellKept
<1>6. ASSUME NEW pc \in {"settle", "claim", "renew"}, Goes(c, pc), told' = told,
             pc = "settle" => seen = "executing",
             pc = "claim" => seen \in {"approved", "intended"}
      PROVE  Kept
  <2>1. /\ [call[c] EXCEPT !.pc = pc].pc = pc /\ [call[c] EXCEPT !.pc = pc].seen = seen
        /\ pc \in Pcs
    BY <1>1, <1>6 DEF Call, Pcs
  <2>2. Past([call[c] EXCEPT !.pc = pc], status)
    BY <1>1, <1>6, <2>1 DEF Past
  <2> QED
    BY <1>4, <1>6, <2>1, <2>2, MovesKept DEF IInv, TypeOK
<1> QED
  BY <1>2, <1>3, <1>5, <1>6

LEMMA Rereads == ASSUME IInv, NEW c \in Slots, claimRereads(c) PROVE Kept
<1> DEFINE status == effect[call[c].effect].status
<1>1. /\ call[c].effect \in Effects /\ status \in Status /\ call[c] \in Call
      /\ call[c].pc = "reread" /\ Row(c).status = status
  BY DEF IInv, TypeOK, Names, Named, claimRereads, At, EffectRow, Row, Of
<1>2. status \in Settled <=> Verdict(status) # "open"
  BY <1>1, Verdicts
<1>3. \/ Verdict(status) # "open" /\ Tells(c, Verdict(status))
      \/ status = "executing" /\ Goes(c, "settle") /\ told' = told
      \/ Returns(c) /\ told' = told
  BY <1>1, Zenon DEF claimRereads
<1>4. UNCHANGED <<effect, older, run, ask, turn, rule, ran, env>> /\ ~At(c, "idle")
  BY DEF claimRereads, At
<1>5. CASE status = "executing" /\ Goes(c, "settle") /\ told' = told
  <2>1. [call[c] EXCEPT !.pc = "settle"].pc = "settle" /\ "settle" \in Pcs
    BY <1>1 DEF Call, Pcs
  <2>2. Past([call[c] EXCEPT !.pc = "settle"], status)
    BY <1>5, <2>1 DEF Past, Begun
  <2> QED
    BY <1>4, <1>5, <2>1, <2>2, MovesKept DEF IInv, TypeOK
<1> QED
  BY <1>1, <1>2, <1>3, <1>4, <1>5, TellKept, ReturnsKept DEF IInv, TypeOK

LEMMA Asks ==
  ASSUME IInv, NEW c \in Slots, renewRunLease(c) \/ pauseRunForInput(c)
  PROVE  Kept
<1>1. call[c].turn \in Turns /\ call[c].effect \in Effects /\ ~At(c, "idle") /\ call[c] \in Call
  BY DEF IInv, TypeOK, Names, Named, renewRunLease, pauseRunForInput, At
<1>2. Over(call[c].turn) => turn' \in [Turns -> Turn]
  BY <1>1, OverFacts DEF IInv
<1>3. CASE pauseRunForInput(c)
  BY <1>1, <1>2, <1>3, ReturnsKept DEF pauseRunForInput, IInv, TypeOK, RunRow, Of
<1>4. CASE renewRunLease(c) /\ Fenced(call[c].turn)
  <2>1. [call[c] EXCEPT !.pc = "pause"].pc = "pause" /\ "pause" \in Pcs
    BY <1>1 DEF Call, Pcs
  <2>2. Past([call[c] EXCEPT !.pc = "pause"], effect[call[c].effect].status)
    BY <2>1 DEF Past
  <2> QED
    BY <1>1, <1>4, <2>1, <2>2, MovesKept DEF renewRunLease, IInv, TypeOK, RunRow
<1>5. CASE renewRunLease(c) /\ ~Fenced(call[c].turn)
  BY <1>1, <1>2, <1>5, ReturnsKept DEF renewRunLease, IInv, TypeOK
<1> QED
  BY <1>3, <1>4, <1>5

LEMMA Throws == ASSUME IInv, NEW c \in Slots, toolThrows(c) PROVE Kept
BY ReturnsKept DEF toolThrows, IInv, TypeOK

-----------------------------------------------------------------------------
(* The actions that move a row on *)

(* What was seen of a row stays true when the row moves on. *)
MovesOn(old, new) ==
  /\ old \notin Settled
  /\ old = "executing" => new \in Begun
  /\ old # "executing" => new \in {"intended", "approved", "denied", "executing"}

LEMMA PastFacts ==
  ASSUME NEW v, NEW old, NEW new, MovesOn(old, new) \/ new = old, Past(v, old)
  PROVE  Past(v, new)
BY DEF MovesOn, Past, Begun, Settled

(* A row is set, as far as what is executed does not matter. *)
LEMMA RowKept ==
  ASSUME IInv, TypeOK', NEW e \in Effects, NEW s \in Status \ {"executing"}, SetStatus(e, s),
         MovesOn(effect[e].status, s), ran' = ran, s = "completed" => ran[e] = 1,
         \/ told' = told
         \/ s \in Settled /\ told' = [told EXCEPT ![e] = @ \cup {Verdict(s)}],
         \A c \in Slots :
           \/ call'[c] = call[c] /\ (call[c].effect = e /\ Holding(call[c]) => s = "uncertain")
           \/ /\ Named(call'[c]) /\ ~Holding(call'[c])
              /\ Past(call'[c], effect'[call'[c].effect].status)
  PROVE  Kept
<1> DEFINE old == effect[e].status
<1>1. /\ effect'[e].status = s /\ old \in Status
      /\ \A d \in Effects \ {e} : effect'[d].status = effect[d].status
  BY SetStatusFacts DEF IInv, TypeOK, EffectRow
<1>2. Names'
  BY DEF IInv, Names, Named
<1>3. HoldersClaimed' /\ HolderIsAlone'
  BY <1>1 DEF IInv, HoldersClaimed, HolderIsAlone, Holding, Names, Named
<1>4. RanAsRecorded'
  BY <1>1 DEF IInv, RanAsRecorded, MovesOn, Begun, Settled, Status
<1>5. SeenIsPast'
  <2> SUFFICES ASSUME NEW c \in Slots PROVE Past(call'[c], effect'[call'[c].effect].status)
    BY DEF SeenIsPast
  <2>1. CASE call'[c] = call[c] /\ call[c].pc # "idle"
    <3>1. call[c].effect \in Effects /\ Past(call[c], effect[call[c].effect].status)
      BY <2>1 DEF IInv, SeenIsPast, Names, Named
    <3> QED
      BY <1>1, <2>1, <3>1, PastFacts
  <2>2. CASE call'[c] = call[c] /\ call[c].pc = "idle"
    BY <2>2 DEF Past
  <2> QED
    BY <2>1, <2>2
<1>6. told[e] = {}
  BY DEF IInv, ToldIsTrue, MovesOn
<1>7. told' = told \/ (s \in Settled /\ told' = [told EXCEPT ![e] = {Verdict(s)}])
  BY <1>6 DEF IInv, TypeOK
<1>8. ToldIsTrue'
  BY <1>1, <1>6, <1>7 DEF IInv, ToldIsTrue, TypeOK
<1>9. IInv'
  BY <1>2, <1>3, <1>4, <1>5, <1>8 DEF IInv
<1> DEFINE verdict == [d \in Effects |-> Verdict(effect[d].status)]
           next == [d \in Effects |-> Verdict(effect'[d].status)]
<1>a. Verdict(old) = "open"
  BY <1>1, Verdicts DEF MovesOn
<1>b. CASE s \notin Settled
  <2>1. Verdict(s) = "open"
    BY <1>b, Verdicts
  <2>2. next = verdict
    BY <1>1, <1>a, <2>1
  <2>3. UNCHANGED Promise!promiseVars
    BY <1>7, <1>b, <2>2 DEF Promise!promiseVars
  <2> QED
    BY <1>9, <2>3 DEF Kept
<1>c. CASE s \in Settled
  <2>1. next = [verdict EXCEPT ![e] = Verdict(s)]
    BY <1>1
  <2>2. /\ Verdict(s) \in {"done", "refused", "unknown"}
        /\ Verdict(s) = "done" => s = "completed"
        /\ Verdict(s) = "refused" => s = "denied"
    BY <1>c, Verdicts DEF Settled
  <2>3. Verdict(s) = "refused" => ran[e] = 0
    BY <1>1, <1>4, <2>2 DEF RanAsRecorded
  <2>4. Promise!Settle(e)
    <3>1. verdict[e] = "open"
      BY <1>a
    <3>2. told' \in {told, [told EXCEPT ![e] = {Verdict(s)}]}
      BY <1>7
    <3>3. Verdict(s) = "done" => ran[e] = 1
      BY <2>2
    <3> HIDE DEF verdict, next
    <3>4. next = [verdict EXCEPT ![e] = Verdict(s)] /\ ran' = ran
      BY <2>1
    <3>5. \E v \in {"done", "refused", "unknown"} :
            /\ v = "done" => ran[e] = 1
            /\ v = "refused" => ran[e] = 0
            /\ next = [verdict EXCEPT ![e] = v]
            /\ told' \in {told, [told EXCEPT ![e] = {v}]}
      BY <2>2, <2>3, <3>2, <3>3, <3>4
    <3> QED
      BY <3>1, <3>4, <3>5 DEF Promise!Settle, Promise!Verdicts, verdict, next
  <2> QED
    BY <1>9, <2>4 DEF Kept, Promise!PromiseNext
<1> QED
  BY <1>b, <1>c

LEMMA Creates == ASSUME IInv, NEW c \in Slots, recordCreates(c) PROVE Kept
<1> DEFINE e == call[c].effect
           v == [call[c] EXCEPT !.pc = "plan", !.seen = "intended"]
<1>1. e \in Effects /\ call[c] \in Call /\ call[c].turn \in Turns /\ ~At(c, "idle")
  BY DEF IInv, TypeOK, Names, Named, recordCreates, At
<1>2. CASE effect[e].status # "none"
  BY <1>2, ReturnsKept DEF recordCreates, Row, IInv, TypeOK
<1>3. CASE effect[e].status = "none"
  <2>1. /\ SetStatus(e, "intended") /\ older' = older \cup (Made \X {e})
        /\ call' = [call EXCEPT ![c] = v]
    BY <1>3 DEF recordCreates, Row, Of
  <2>2. v \in Call /\ Named(v) /\ ~Holding(v)
    BY <1>1 DEF Call, Pcs, Status, Named, Holding
  <2>3. v.pc = "plan" /\ v.seen = "intended" /\ v.effect = e
    BY <1>1 DEF Call
  <2>4. \A st : Past(v, st)
    BY <2>3 DEF Past, Settled
  <2>5. "intended" \in Status \ {"executing"} /\ MovesOn(effect[e].status, "intended")
    BY <1>3 DEF MovesOn, Status, Settled, Begun
  <2> HIDE DEF v
  <2>6. TypeOK'
    <3>1. older' \subseteq Effects \X Effects
      BY <1>1, <2>1 DEF Made, IInv, TypeOK
    <3>2. effect' \in [Effects -> EffectRow] /\ call' \in [Slots -> Call]
      BY <1>1, <2>1, <2>2, <2>5, SetStatusFacts DEF IInv, TypeOK
    <3> QED
      BY <3>1, <3>2 DEF recordCreates, IInv, TypeOK
  <2>7. call'[c] = v /\ \A d \in Slots \ {c} : call'[d] = call[d]
    BY <2>1 DEF IInv, TypeOK
  <2>8. \A d \in Slots : Holding(call[d]) => call[d].effect # e
    BY <1>3 DEF IInv, HoldersClaimed
  <2> QED
    BY <1>1, <2>1, <2>2, <2>4, <2>5, <2>6, <2>7, <2>8, RowKept DEF recordCreates
<1> QED
  BY <1>2, <1>3

LEMMA SettlesUncertain == ASSUME IInv, NEW c \in Slots, settleUncertainEffect(c) PROVE Kept
<1> DEFINE e == call[c].effect
<1>1. /\ e \in Effects /\ ~At(c, "idle") /\ effect[e].status \in Begun
      /\ Row(c).status = effect[e].status
  BY DEF IInv, Names, Named, settleUncertainEffect, At, SeenIsPast, Past, Row, Of
<1>2. CASE effect[e].status # "executing"
  <2>1. effect[e].status \in Settled /\ Verdict(effect[e].status) # "open"
    BY <1>1, <1>2, Verdicts DEF Begun, Settled
  <2> QED
    BY <1>1, <1>2, <2>1, TellKept DEF settleUncertainEffect, Settles
<1>3. CASE effect[e].status = "executing"
  <2>1. SetStatus(e, "uncertain") /\ Tells(c, Verdict("uncertain"))
    BY <1>1, <1>3, Verdicts DEF settleUncertainEffect, Settles, Of
  <2>2. /\ "uncertain" \in Status \ {"executing"} /\ "uncertain" \in Settled
        /\ MovesOn(effect[e].status, "uncertain")
    BY <1>3 DEF MovesOn, Status, Settled, Begun
  <2>3. call' = [call EXCEPT ![c] = NoCall] /\ told' = [told EXCEPT ![e] = @ \cup {Verdict("uncertain")}]
    BY <2>1 DEF Tells, Returns, Of
  <2>4. TypeOK'
    <3>1. effect' \in [Effects -> EffectRow]
      BY <1>1, <2>1, <2>2, SetStatusFacts DEF IInv
    <3>2. call' \in [Slots -> Call]
      BY <2>3, NoCallFacts DEF IInv, TypeOK
    <3>3. told' \in [Effects -> SUBSET {"done", "refused", "unknown"}]
      BY <1>1, <2>2, <2>3, Verdicts DEF IInv, TypeOK
    <3> QED
      BY <3>1, <3>2, <3>3 DEF settleUncertainEffect, IInv, TypeOK
  <2>5. call'[c] = NoCall /\ \A d \in Slots \ {c} : call'[d] = call[d]
    BY <2>3 DEF IInv, TypeOK
  <2>6. \A d \in Slots :
         \/ call'[d] = call[d] /\ (call[d].effect = e /\ Holding(call[d]) => "uncertain" = "uncertain")
         \/ /\ Named(call'[d]) /\ ~Holding(call'[d])
            /\ Past(call'[d], effect'[call'[d].effect].status)
    BY <2>5, NoCallFacts
  <2>7. ran' = ran
    BY DEF settleUncertainEffect
  <2> QED
    BY <1>1, <2>1, <2>2, <2>3, <2>4, <2>6, <2>7, RowKept
<1> QED
  BY <1>2, <1>3

LEMMA CompletesEffect == ASSUME IInv, NEW c \in Slots, completeExternalEffect(c) PROVE Kept
<1> DEFINE e == call[c].effect
<1>1. /\ e \in Effects /\ ~At(c, "idle") /\ effect[e].status \in {"executing", "uncertain"}
      /\ Row(c).status = effect[e].status /\ ran[e] = 1 /\ Holding(call[c])
  BY DEF IInv, Names, Named, completeExternalEffect, At, HoldersClaimed, Holding, Row, Of
<1>2. CASE effect[e].status = "uncertain"
  <2>1. effect[e].status \in Settled /\ Verdict(effect[e].status) = "unknown"
    BY <1>2, Verdicts DEF Settled
  <2> QED
    BY <1>1, <1>2, <2>1, TellKept DEF completeExternalEffect, Completes
<1>3. CASE effect[e].status = "executing"
  <2>1. SetStatus(e, "completed") /\ Tells(c, Verdict("completed"))
    BY <1>1, <1>3, Verdicts DEF completeExternalEffect, Completes, Of
  <2>2. /\ "completed" \in Status \ {"executing"} /\ "completed" \in Settled
        /\ MovesOn(effect[e].status, "completed")
    BY <1>3 DEF MovesOn, Status, Settled, Begun
  <2>3. call' = [call EXCEPT ![c] = NoCall] /\ told' = [told EXCEPT ![e] = @ \cup {Verdict("completed")}]
    BY <2>1 DEF Tells, Returns, Of
  <2>4. TypeOK'
    <3>1. effect' \in [Effects -> EffectRow]
      BY <1>1, <2>1, <2>2, SetStatusFacts DEF IInv
    <3>2. call' \in [Slots -> Call]
      BY <2>3, NoCallFacts DEF IInv, TypeOK
    <3>3. told' \in [Effects -> SUBSET {"done", "refused", "unknown"}]
      BY <1>1, <2>2, <2>3, Verdicts DEF IInv, TypeOK
    <3> QED
      BY <3>1, <3>2, <3>3 DEF completeExternalEffect, IInv, TypeOK
  <2>5. call'[c] = NoCall /\ \A d \in Slots \ {c} : call'[d] = call[d]
    BY <2>3 DEF IInv, TypeOK
  <2>6. \A d \in Slots \ {c} : ~(call[d].effect = e /\ Holding(call[d]))
    BY <1>1 DEF IInv, HolderIsAlone
  <2>7. \A d \in Slots :
         \/ call'[d] = call[d] /\ (call[d].effect = e /\ Holding(call[d]) => "completed" = "uncertain")
         \/ /\ Named(call'[d]) /\ ~Holding(call'[d])
            /\ Past(call'[d], effect'[call'[d].effect].status)
    BY <2>5, <2>6, NoCallFacts
  <2>8. ran' = ran
    BY DEF completeExternalEffect
  <2> QED
    BY <1>1, <2>1, <2>2, <2>3, <2>4, <2>7, <2>8, RowKept
<1> QED
  BY <1>1, <1>2, <1>3

LEMMA Answers ==
  ASSUME IInv, NEW answer \in {"allow", "always", "deny"}, answerAsk(answer)
  PROVE  Kept
<1> DEFINE s == IF answer = "deny" THEN "denied" ELSE "approved"
<1>1. ask \in Effects /\ effect[ask].status = "intended" /\ SetStatus(ask, s)
  BY DEF answerAsk, Answerable, IInv, TypeOK
<1>2. s \in Status \ {"executing"} /\ s # "completed" /\ MovesOn(effect[ask].status, s)
  BY <1>1 DEF MovesOn, Status, Settled
<1>3. TypeOK'
  <2>1. effect' \in [Effects -> EffectRow]
    BY <1>1, <1>2, SetStatusFacts DEF IInv
  <2>2. run' \in RunRow /\ rule' \in [Tools -> Rules]
    BY DEF answerAsk, IInv, TypeOK, RunRow, Rules
  <2> QED
    BY <2>1, <2>2 DEF answerAsk, IInv, TypeOK
<1>4. \A d \in Slots : Holding(call[d]) => call[d].effect # ask
  BY <1>1 DEF IInv, HoldersClaimed
<1> HIDE DEF s
<1> QED
  BY <1>1, <1>2, <1>3, <1>4, RowKept DEF answerAsk

-----------------------------------------------------------------------------
(* The claim and the execution *)

LEMMA ClaimsEffect == ASSUME IInv, NEW c \in Slots, claimEffect(c) PROVE Kept
<1> DEFINE e == call[c].effect
           v == [call[c] EXCEPT !.pc = "execute"]
<1>1. /\ e \in Effects /\ call[c] \in Call /\ ~At(c, "idle") /\ Row(c).status = effect[e].status
      /\ call[c].seen \in {"intended", "approved"}
  BY DEF IInv, TypeOK, Names, Named, claimEffect, At, SeenIsPast, Past, Row, Of
<1>2. CASE ~Claimable(c)
  <2>1. [call[c] EXCEPT !.pc = "reread"].pc = "reread" /\ "reread" \in Pcs
    BY <1>1 DEF Call, Pcs
  <2>2. Past([call[c] EXCEPT !.pc = "reread"], effect[e].status)
    BY <2>1 DEF Past
  <2> QED
    BY <1>1, <1>2, <2>1, <2>2, MovesKept DEF claimEffect, IInv, TypeOK
<1>3. CASE Claimable(c)
  <2>1. SetStatus(e, "executing") /\ Goes(c, "execute") /\ effect[e].status \in {"intended", "approved"}
    BY <1>1, <1>3 DEF claimEffect, Claimable, Of
  <2>2. v \in Call /\ Named(v) /\ call' = [call EXCEPT ![c] = v] /\ v.pc = "execute" /\ v.effect = e
    BY <1>1, <1>3, <2>1, GoesFacts DEF IInv, Pcs
  <2> HIDE DEF v
  <2>3. /\ effect' \in [Effects -> EffectRow] /\ effect'[e].status = "executing"
        /\ \A d \in Effects \ {e} : effect'[d].status = effect[d].status
    BY <1>1, <2>1, SetStatusFacts DEF IInv, Status
  <2>4. call'[c] = v /\ \A d \in Slots \ {c} : call'[d] = call[d]
    BY <2>2 DEF IInv, TypeOK
  <2>5. TypeOK' /\ ran' = ran /\ told' = told
    <3>1. call' \in [Slots -> Call]
      BY <2>2 DEF IInv, TypeOK
    <3>2. UNCHANGED <<older, run, ask, turn, rule, ran, told, env>>
      BY DEF claimEffect
    <3> QED
      BY <2>3, <3>1, <3>2 DEF IInv, TypeOK
  <2>6. \A d \in Slots : Holding(call[d]) => call[d].effect # e
    BY <2>1 DEF IInv, HoldersClaimed
  <2>7. Names'
    BY <2>2, <2>4 DEF IInv, Names
  <2>8. ran[e] = 0
    BY <1>1, <2>1 DEF IInv, RanAsRecorded
  <2>9. HoldersClaimed'
    <3> SUFFICES ASSUME NEW d \in Slots, Holding(call'[d])
                 PROVE  /\ effect'[call'[d].effect].status \in {"executing", "uncertain"}
                        /\ call'[d].pc = "execute" => ran'[call'[d].effect] = 0
                        /\ call'[d].pc = "finish" => ran'[call'[d].effect] = 1
      BY DEF HoldersClaimed, Holding
    <3>1. CASE d = c
      BY <2>2, <2>3, <2>4, <2>5, <2>8, <3>1
    <3>2. CASE d # c
      BY <2>3, <2>4, <2>5, <2>6, <3>2 DEF IInv, HoldersClaimed, Names, Named, Holding
    <3> QED
      BY <3>1, <3>2
  <2>10. HolderIsAlone'
    BY <2>2, <2>4, <2>6 DEF IInv, HolderIsAlone, Holding
  <2>11. RanAsRecorded'
    BY <2>3, <2>5 DEF IInv, RanAsRecorded
  <2>12. SeenIsPast'
    <3> SUFFICES ASSUME NEW d \in Slots PROVE Past(call'[d], effect'[call'[d].effect].status)
      BY DEF SeenIsPast
    <3>1. CASE d = c
      BY <2>2, <2>4, <3>1 DEF Past
    <3>2. CASE call'[d] = call[d] /\ call[d].pc # "idle"
      <4>1. call[d].effect \in Effects /\ Past(call[d], effect[call[d].effect].status)
        BY <3>2 DEF IInv, SeenIsPast, Names, Named
      <4>2. MovesOn(effect[e].status, "executing")
        BY <2>1 DEF MovesOn, Settled
      <4> QED
        BY <2>3, <3>2, <4>1, <4>2, PastFacts
    <3>3. CASE call'[d] = call[d] /\ call[d].pc = "idle"
      BY <3>3 DEF Past
    <3> QED
      BY <2>4, <3>1, <3>2, <3>3
  <2>13. ToldIsTrue'
    BY <1>1, <2>1, <2>3, <2>5 DEF IInv, ToldIsTrue, Settled
  <2>14. UNCHANGED Promise!promiseVars
    <3>1. \A d \in Effects : Verdict(effect'[d].status) = Verdict(effect[d].status)
      BY <1>1, <2>1, <2>3, Verdicts DEF Settled, Status
    <3> QED
      BY <2>5, <3>1 DEF Promise!promiseVars
  <2> QED
    BY <2>5, <2>7, <2>9, <2>10, <2>11, <2>12, <2>13, <2>14 DEF Kept, IInv
<1> QED
  BY <1>2, <1>3

LEMMA Executes == ASSUME IInv, NEW c \in Slots, execute(c) PROVE Kept
<1> DEFINE e == call[c].effect
           v == [call[c] EXCEPT !.pc = "finish"]
<1>1. /\ e \in Effects /\ call[c] \in Call /\ ~At(c, "idle") /\ Holding(call[c])
      /\ effect[e].status \in {"executing", "uncertain"} /\ ran[e] = 0
  BY DEF IInv, TypeOK, Names, Named, execute, At, HoldersClaimed, Holding
<1>2. v \in Call /\ Named(v) /\ call' = [call EXCEPT ![c] = v] /\ v.pc = "finish" /\ v.effect = e
  BY <1>1, GoesFacts DEF execute, IInv, Pcs
<1> HIDE DEF v
<1>3. call'[c] = v /\ \A d \in Slots \ {c} : call'[d] = call[d]
  BY <1>2 DEF IInv, TypeOK
<1>4. ran' = [ran EXCEPT ![e] = 1] /\ effect' = effect /\ told' = told
  BY <1>1 DEF execute, Of
<1>5. TypeOK'
  <2>1. call' \in [Slots -> Call]
    BY <1>2 DEF IInv, TypeOK
  <2>2. ran' \in [Effects -> Nat]
    BY <1>4 DEF IInv, TypeOK
  <2>3. UNCHANGED <<effect, older, run, ask, turn, rule, told, env>>
    BY DEF execute
  <2> QED
    BY <2>1, <2>2, <2>3 DEF IInv, TypeOK
<1>6. Names'
  BY <1>2, <1>3 DEF IInv, Names
<1>7. \A d \in Slots \ {c} : Holding(call[d]) => call[d].effect # e
  BY <1>1 DEF IInv, HolderIsAlone
<1>8. HoldersClaimed'
  <2> SUFFICES ASSUME NEW d \in Slots, Holding(call'[d])
               PROVE  /\ effect'[call'[d].effect].status \in {"executing", "uncertain"}
                      /\ call'[d].pc = "execute" => ran'[call'[d].effect] = 0
                      /\ call'[d].pc = "finish" => ran'[call'[d].effect] = 1
    BY DEF HoldersClaimed, Holding
  <2>1. CASE d = c
    BY <1>1, <1>2, <1>3, <1>4, <2>1 DEF IInv, TypeOK
  <2>2. CASE d # c
    BY <1>3, <1>4, <1>7, <2>2 DEF IInv, TypeOK, HoldersClaimed, Names, Named, Holding
  <2> QED
    BY <2>1, <2>2
<1>9. HolderIsAlone'
  BY <1>1, <1>2, <1>3 DEF IInv, HolderIsAlone, Holding
<1>10. RanAsRecorded'
  BY <1>1, <1>4 DEF IInv, TypeOK, RanAsRecorded
<1>11. SeenIsPast'
  BY <1>2, <1>3, <1>4 DEF IInv, SeenIsPast, Past
<1>12. ToldIsTrue'
  BY <1>4 DEF IInv, ToldIsTrue
<1>13. Promise!Run(e)
  <2>1. Verdict(effect[e].status) \in {"open", "unknown"}
    BY <1>1, Verdicts DEF Status, Settled
  <2> QED
    BY <1>1, <1>4, <2>1 DEF Promise!Run
<1> QED
  BY <1>1, <1>5, <1>6, <1>8, <1>9, <1>10, <1>11, <1>12, <1>13 DEF Kept, IInv, Promise!PromiseNext

-----------------------------------------------------------------------------
(* All steps *)

LEMMA Steps == IInv /\ [Next]_vars => Kept
<1> SUFFICES ASSUME IInv, [Next]_vars PROVE Kept
  OBVIOUS
<1>1. CASE Next
  <2>1. CASE \E c \in Slots : Proceed(c) \/ toolThrows(c)
    BY <2>1, RecordFinds, Creates, Plans, AutoReviews, Gates, ClaimsEffect, Rereads,
       SettlesUncertain, Asks, Executes, CompletesEffect, Throws DEF Proceed
  <2>2. CASE \E t \in Turns, c \in Slots, e \in Effects : applyTool(c, t, e)
    BY <2>2, CallBegins
  <2>3. CASE \E answer \in {"allow", "always", "deny"} : answerAsk(answer)
    BY <2>3, Answers
  <2> QED
    BY <1>1, <2>1, <2>2, <2>3, TurnSteps DEF Next
<1>2. CASE UNCHANGED vars
  <2>1. TypeOK'
    BY <1>2 DEF vars, IInv, TypeOK
  <2> QED
    BY <1>2, <2>1, QuietKept DEF vars, SameRows
<1> QED
  BY <1>1, <1>2

-----------------------------------------------------------------------------
(* The card of a run that waits *)

(* No review and no edits: every call of a request is decided alike. *)
Plain == ~env.judge /\ ~env.edits
Asking == env.rule = "require"

(* A rule requires an approval if it did at the start, for the user and    *)
(* for the turns that loaded the rules.                                    *)
RulesStand ==
  /\ \A k \in Tools : rule[k] = "require" <=> Asking
  /\ \A t \in Turns : turn[t].rule # NoRule =>
       \A k \in Tools : turn[t].rule[k] = "require" <=> Asking

(* Whether a call asks is the rule's affair, and one that asks has read an *)
(* intended row; where the rule requires it, one that claims has read an   *)
(* approved row.                                                           *)
Steady(v, asking) ==
  /\ v.pc # "review"
  /\ v.pc = "gate" => v.asks = asking
  /\ v.pc \in {"renew", "pause"} => asking /\ v.seen = "intended"
  /\ v.pc = "claim" /\ asking => v.seen = "approved"
CallsSteady == \A c \in Slots : Steady(call[c], Asking)

(* The run's fence is the latest turn's. *)
FenceIsLast ==
  /\ \A t \in Turns : turn[t].state = "active" => t <= run.fence
  /\ \A c \in Slots : call[c].pc # "idle" => call[c].turn <= run.fence

(* Where the rule requires an approval, what a call of the turn that has   *)
(* the run read as intended still is: an answer takes the run away first.  *)
Fresh(c) ==
  call[c].pc \in {"plan", "gate", "renew", "pause"} /\ call[c].seen = "intended"
    /\ Fenced(call[c].turn) => effect[call[c].effect].status = "intended"
AllFresh == Asking => \A c \in Slots : Fresh(c)

CardStands == run.status = "waiting" => Asking /\ Answerable

AskInv == Plain => RulesStand /\ CallsSteady /\ FenceIsLast /\ AllFresh /\ CardStands

(* No call is steady and fresh. *)
LEMMA NoCallSteady == \A asking : Steady(NoCall, asking)
BY DEF Steady, NoCall

(* Steps that keep the rules, the card and the fence, and after which a    *)
(* call is as it was, gone, or steady and fresh.                           *)
LEMMA AskKept ==
  ASSUME IInv, Plain, AskInv,
         UNCHANGED <<rule, env, ask>>, run'.fence = run.fence,
         run'.status \in {run.status, "completed", "failed", "cancelled"},
         \A t \in Turns : /\ turn'[t].rule \in {turn[t].rule, NoRule, rule}
                          /\ turn'[t].state = "active" => turn[t].state = "active",
         Asking => \A e \in Effects :
                     effect[e].status = "intended" => effect'[e].status = "intended",
         \A c \in Slots : \/ call'[c] = call[c]
                          \/ call'[c] = NoCall
                          \/ /\ Steady(call'[c], Asking) /\ call'[c].turn <= run.fence
                             /\ Asking => Fresh(c)'
  PROVE  AskInv'
<1> USE DEF AskInv
<1>1. Asking' <=> Asking
  BY DEF Asking
<1>2. RulesStand'
  BY <1>1 DEF RulesStand
<1>3. CallsSteady'
  <2>1. Asking' = Asking
    BY DEF Asking
  <2>2. \A c \in Slots : Steady(call'[c], Asking)
    BY NoCallSteady DEF CallsSteady
  <2> QED
    BY <2>1, <2>2 DEF CallsSteady
<1>4. FenceIsLast'
  BY DEF FenceIsLast, NoCall
<1>5. ASSUME Asking PROVE \A c \in Slots : Fresh(c)'
  <2> SUFFICES ASSUME NEW c \in Slots PROVE Fresh(c)'
    OBVIOUS
  <2>1. CASE call'[c] = call[c]
    <3>1. call[c].pc # "idle" => call[c].effect \in Effects
      BY DEF IInv, Names, Named
    <3>2. Fresh(c)
      BY <1>5 DEF AllFresh
    <3> QED
      BY <1>5, <2>1, <3>1, <3>2 DEF Fresh, Fenced
  <2>2. CASE call'[c] = NoCall
    BY <2>2 DEF Fresh, NoCall
  <2> QED
    BY <1>5, <2>1, <2>2
<1>6. CardStands'
  <2>1. ask # NoEffect => ask \in Effects
    BY DEF IInv, TypeOK
  <2> QED
    BY <1>1, <2>1 DEF CardStands, Answerable
<1> QED
  BY <1>1, <1>2, <1>3, <1>4, <1>5, <1>6 DEF AllFresh

(* A call that goes on with what it has read, or returns. *)
LEMMA AskMoves ==
  ASSUME IInv, Plain, AskInv, NEW c \in Slots, ~At(c, "idle"),
         \/ Returns(c)
         \/ \E pc \in Pcs :
              /\ Goes(c, pc) /\ Steady([call[c] EXCEPT !.pc = pc], Asking)
              /\ pc \in {"plan", "gate", "renew", "pause"} =>
                   call[c].pc \in {"plan", "gate", "renew", "pause"},
         UNCHANGED <<rule, env, ask>>, run'.fence = run.fence,
         run'.status = run.status,
         turn' = turn \/ \E t \in Turns : Over(t),
         Asking => \A e \in Effects :
                     effect[e].status = "intended" => effect'[e].status = "intended"
  PROVE  AskInv'
<1>1. \A t \in Turns : /\ turn'[t].rule \in {turn[t].rule, NoRule, rule}
                       /\ turn'[t].state = "active" => turn[t].state = "active"
  BY DEF Over, IInv, TypeOK
<1>2. CASE Returns(c)
  <2>1. \A d \in Slots : call'[d] \in {call[d], NoCall}
    BY <1>2 DEF Returns, IInv, TypeOK
  <2> QED
    BY <1>1, <2>1, AskKept
<1>3. ASSUME NEW pc \in Pcs, Goes(c, pc), Steady([call[c] EXCEPT !.pc = pc], Asking),
             pc \in {"plan", "gate", "renew", "pause"} =>
               call[c].pc \in {"plan", "gate", "renew", "pause"}
      PROVE  AskInv'
  <2> DEFINE v == [call[c] EXCEPT !.pc = pc]
  <2>1. /\ v \in Call /\ call' = [call EXCEPT ![c] = v] /\ v.pc = pc /\ v.effect = call[c].effect
        /\ v.turn = call[c].turn /\ v.seen = call[c].seen
    BY <1>3, GoesFacts DEF IInv
  <2>2. Steady(v, Asking)
    BY <1>3
  <2> HIDE DEF v
  <2>3. call'[c] = v /\ \A d \in Slots \ {c} : call'[d] = call[d]
    BY <2>1 DEF IInv, TypeOK
  <2>4. call[c].turn <= run.fence /\ call[c].effect \in Effects
    BY DEF AskInv, FenceIsLast, At, IInv, Names, Named
  <2>5. Asking => Fresh(c)'
    <3>1. CASE pc \in {"plan", "gate", "renew", "pause"}
      <4>1. Asking => Fresh(c)
        BY DEF AskInv, AllFresh
      <4>2. Asking /\ effect[call[c].effect].status = "intended" =>
              effect'[call[c].effect].status = "intended"
        BY <2>4
      <4>3. Fenced(call[c].turn)' => Fenced(call[c].turn)
        BY <2>3, <2>1 DEF Fenced
      <4> QED
        BY <1>3, <2>1, <2>3, <3>1, <4>1, <4>2, <4>3 DEF Fresh, Fenced
    <3>2. CASE pc \notin {"plan", "gate", "renew", "pause"}
      BY <2>1, <2>3, <3>2 DEF Fresh
    <3> QED
      BY <3>1, <3>2
  <2> QED
    BY <1>1, <2>1, <2>2, <2>3, <2>4, <2>5, AskKept
<1> QED
  BY <1>2, <1>3

(* A turn begins: every call in flight is of an earlier one. *)
LEMMA AskTurnBegins == ASSUME IInv, Plain, AskInv, turnBegins PROVE AskInv'
<1> USE DEF AskInv
<1> DEFINE t == run.fence + 1
<1>1. /\ t \in Turns /\ run.fence \in Nat /\ run'.fence = t /\ run'.status = "running"
      /\ turn'[t].state = "active" /\ turn'[t].rule = NoRule
      /\ \A u \in Turns \ {t} : turn'[u] = turn[u]
  <2>1. t \in Turns /\ run.fence \in Nat
    BY EffectAssumption DEF EffectAssumption, turnBegins, RunRow, Turns, IInv, TypeOK
  <2> QED
    BY <2>1 DEF turnBegins, IInv, TypeOK
<1>2. UNCHANGED <<effect, call, rule, env>>
  BY DEF turnBegins
<1>3. \A c \in Slots : call[c].pc # "idle" => call[c].turn \in Nat /\ call[c].turn <= run.fence
  BY DEF FenceIsLast, IInv, Names, Named, Turns
<1>4. \A u \in Turns : u \in Nat /\ (turn[u].state = "active" => u <= run.fence)
  BY DEF FenceIsLast, Turns
<1>5. Asking' = Asking
  BY <1>2 DEF Asking
<1> HIDE DEF t
<1>6. run.fence < t
  BY <1>1 DEF t
<1>7. RulesStand'
  BY <1>1, <1>2, <1>5 DEF RulesStand
<1>8. CallsSteady'
  BY <1>2, <1>5 DEF CallsSteady
<1>9. FenceIsLast'
  BY <1>1, <1>2, <1>3, <1>4, <1>6 DEF FenceIsLast, Turns
<1>10. \A c \in Slots : Fresh(c)'
  BY <1>1, <1>2, <1>3, <1>6 DEF Fresh, Fenced
<1>11. CardStands'
  BY <1>1 DEF CardStands
<1> QED
  BY <1>7, <1>8, <1>9, <1>10, <1>11 DEF AllFresh

(* The other steps of turns, and the user's stop. *)
LEMMA AskTurns ==
  ASSUME IInv, Plain, AskInv,
         \/ stop \/ leaseLapses
         \/ \E t \in Turns : replayRejected(t) \/ turnEnds(t) \/ leaseIsLost(t) \/ Crash(t)
  PROVE  AskInv'
<1> USE DEF IInv, TypeOK
<1>1. CASE stop \/ leaseLapses
  BY <1>1, AskKept DEF stop, leaseLapses, RunRow
<1>2. ASSUME NEW t \in Turns, replayRejected(t) \/ turnEnds(t) \/ leaseIsLost(t) \/ Crash(t)
      PROVE  AskInv'
  <2>1. \A u \in Turns : /\ turn'[u].rule \in {turn[u].rule, NoRule, rule}
                         /\ turn'[u].state = "active" => turn[u].state = "active"
    <3>1. CASE replayRejected(t)
      <4>1. PICK d \in Oldest(turn[t].queue) : turn' = [turn EXCEPT ![t].queue = @ \ {d}]
        BY <3>1 DEF replayRejected
      <4> QED
        BY <4>1 DEF Turn
    <3>2. CASE Over(t)
      BY <3>2 DEF Over
    <3> QED
      BY <1>2, <3>1, <3>2 DEF turnEnds, leaseIsLost, Crash
  <2>2. \A c \in Slots : call'[c] \in {call[c], NoCall}
    BY <1>2 DEF replayRejected, turnEnds, leaseIsLost, Crash
  <2>3. /\ UNCHANGED <<rule, env, ask, effect>> /\ run'.fence = run.fence
        /\ run'.status \in {run.status, "completed", "failed", "cancelled"}
    BY <1>2 DEF replayRejected, turnEnds, leaseIsLost, Crash, RunRow
  <2> QED
    BY <2>1, <2>2, <2>3, AskKept
<1> QED
  BY <1>1, <1>2

(* A call begins. *)
LEMMA AskBegins ==
  ASSUME IInv, Plain, AskInv, NEW t \in Turns, NEW c \in Slots, NEW e \in Effects,
         applyTool(c, t, e)
  PROVE  AskInv'
<1> USE DEF IInv, TypeOK
<1>1. PICK d \in Replayed(t, e) :
        /\ turn' = [turn EXCEPT ![t].queue = @ \ {d}, ![t].rule = IF @ = NoRule THEN rule ELSE @]
        /\ call' = [call EXCEPT ![c] =
                      [NoCall EXCEPT !.pc = "find", !.turn = t, !.effect = d]]
  BY DEF applyTool
<1>2. call'[c] = Beginning(t, d) /\ \A b \in Slots \ {c} : call'[b] = call[b]
  BY <1>1 DEF Beginning
<1>3. Beginning(t, d).pc = "find" /\ Beginning(t, d).turn = t
  BY DEF Beginning, NoCall
<1>4. t <= run.fence
  BY DEF applyTool, AskInv, FenceIsLast
<1>5. \A u \in Turns : /\ turn'[u].rule \in {turn[u].rule, NoRule, rule}
                       /\ turn'[u].state = "active" => turn[u].state = "active"
  BY <1>1 DEF Turn
<1>6. Steady(call'[c], Asking) /\ call'[c].turn <= run.fence /\ Fresh(c)'
  BY <1>2, <1>3, <1>4 DEF Steady, Fresh
<1>7. UNCHANGED <<rule, env, ask, effect, run>>
  BY DEF applyTool
<1> QED
  BY <1>2, <1>5, <1>6, <1>7, AskKept

(* A call finds its row, or creates it. *)
LEMMA AskRecords ==
  ASSUME IInv, Plain, AskInv, NEW c \in Slots, recordFinds(c) \/ recordCreates(c)
  PROVE  AskInv'
<1> DEFINE status == effect[call[c].effect].status
<1>1. /\ call[c] \in Call /\ call[c].effect \in Effects /\ call[c].turn <= run.fence
      /\ ~At(c, "idle")
  BY DEF IInv, TypeOK, Names, Named, AskInv, FenceIsLast, recordFinds, recordCreates, At
<1>2. UNCHANGED <<rule, env, ask, run, turn>>
  BY DEF recordFinds, recordCreates
<1>3. CASE recordFinds(c)
  <2>1. /\ call'[c].pc \in {"create", "plan"} /\ call'[c].seen = status
        /\ call'[c].turn = call[c].turn /\ call'[c].effect = call[c].effect
        /\ \A d \in Slots \ {c} : call'[d] = call[d]
        /\ effect' = effect
    BY <1>1, <1>3 DEF recordFinds, Row, IInv, TypeOK, Call
  <2>2. Steady(call'[c], Asking) /\ Fresh(c)'
    BY <2>1 DEF Steady, Fresh
  <2> QED
    BY <1>1, <1>2, <2>1, <2>2, AskKept
<1>4. CASE recordCreates(c) /\ Row(c).status = "none"
  <2>1. SetStatus(call[c].effect, "intended") /\ "intended" \in Status
    BY <1>4 DEF recordCreates, Of, Status
  <2>2. /\ effect'[call[c].effect].status = "intended"
        /\ \A d \in Effects \ {call[c].effect} : effect'[d].status = effect[d].status
    BY <1>1, <2>1, SetStatusFacts DEF IInv
  <2>3. /\ call'[c].pc = "plan" /\ call'[c].turn = call[c].turn
        /\ call'[c].effect = call[c].effect
        /\ \A d \in Slots \ {c} : call'[d] = call[d]
    BY <1>1, <1>4 DEF recordCreates, IInv, TypeOK, Call
  <2>4. Steady(call'[c], Asking) /\ Fresh(c)'
    BY <2>2, <2>3 DEF Steady, Fresh
  <2> QED
    BY <1>1, <1>2, <2>2, <2>3, <2>4, AskKept
<1>5. CASE recordCreates(c) /\ Row(c).status # "none"
  BY <1>1, <1>2, <1>5, AskMoves DEF recordCreates
<1> QED
  BY <1>3, <1>4, <1>5

(* Without a review the rule alone decides whether a call asks. *)
LEMMA AskPlans == ASSUME IInv, Plain, AskInv, NEW c \in Slots, plan(c) PROVE AskInv'
<1>1. /\ call[c] \in Call /\ call[c].effect \in Effects /\ call[c].turn <= run.fence
      /\ call[c].turn \in Turns /\ call[c].pc = "plan"
  BY DEF IInv, TypeOK, Names, Named, AskInv, FenceIsLast, plan, At
<1>2. RuleOf(c) = "require" <=> Asking
  <2>1. ToolOf[Of(c)] \in Tools
    BY <1>1, EffectAssumption DEF EffectAssumption, Of
  <2> QED
    BY <1>1, <2>1 DEF RuleOf, AskInv, RulesStand
<1>3. planActionGate(c) = IF Asking THEN "ask" ELSE "allow"
  <2>1. RuleOf(c) = "require" => planActionGate(c) = "ask"
    BY Zenon DEF planActionGate
  <2>2. RuleOf(c) # "require" => planActionGate(c) = "allow"
    BY Zenon DEF planActionGate, Plain
  <2> QED
    BY <1>2, <2>1, <2>2
<1>4. /\ call'[c].pc = "gate" /\ call'[c].asks = Asking
      /\ call'[c].turn = call[c].turn /\ call'[c].effect = call[c].effect
      /\ call'[c].seen = call[c].seen
      /\ \A d \in Slots \ {c} : call'[d] = call[d]
  <2> DEFINE pc == IF planActionGate(c) = "judge" /\ call[c].review = "none"
                   THEN "review" ELSE "gate"
             asks == \/ planActionGate(c) = "ask"
                     \/ planActionGate(c) = "judge" /\ call[c].review \in {"ask", "error"}
  <2>1. pc = "gate" /\ asks = Asking
    BY <1>3 DEF Asking
  <2>2. call' = [call EXCEPT ![c].pc = pc, ![c].asks = asks]
    BY DEF plan
  <2> HIDE DEF pc, asks
  <2> QED
    BY <1>1, <2>1, <2>2 DEF IInv, TypeOK, Call
<1>5. Steady(call'[c], Asking)
  BY <1>4 DEF Steady
<1>6. UNCHANGED <<effect, run, ask, turn, rule, env>>
  BY DEF plan
<1>7. Asking => Fresh(c)'
  BY <1>1, <1>4, <1>6 DEF AskInv, AllFresh, Fresh, Fenced
<1> QED
  BY <1>1, <1>4, <1>5, <1>6, <1>7, AskKept

(* A call that passes the gate without having to ask claims; one that has  *)
(* to ask has read an intended row.                                        *)
LEMMA AskGates == ASSUME IInv, Plain, AskInv, NEW c \in Slots, gate(c) PROVE AskInv'
<1> DEFINE seen == call[c].seen
           action == IF call[c].dup THEN resolveDuplicateEffectGate(seen) ELSE "paused"
<1>1. /\ action \in {"return", "uncertain", "execute", "paused"}
      /\ action = "execute" => seen = "approved"
      /\ action = "paused" => seen = "intended"
  BY GateReads
<1>2. call[c].pc = "gate" /\ call[c].asks = Asking /\ ~At(c, "idle") /\ call[c] \in Call
  BY DEF gate, At, AskInv, CallsSteady, Steady, IInv, TypeOK
<1>3. \/ Returns(c)
      \/ Goes(c, "settle")
      \/ action = "execute" /\ Goes(c, "claim")
      \/ action = "paused" /\ ~call[c].asks /\ Goes(c, "claim")
      \/ action = "paused" /\ call[c].asks /\ Goes(c, "renew")
  BY <1>1, Zenon DEF gate, Tells
<1>4. UNCHANGED <<effect, run, ask, turn, rule, env>>
  BY DEF gate
<1> HIDE DEF action
<1>5. ASSUME NEW pc \in {"settle", "claim", "renew"}, Goes(c, pc),
             pc = "claim" /\ Asking => seen = "approved",
             pc = "renew" => Asking /\ seen = "intended"
      PROVE  AskInv'
  <2>1. /\ [call[c] EXCEPT !.pc = pc].pc = pc /\ [call[c] EXCEPT !.pc = pc].seen = seen
        /\ pc \in Pcs
    BY <1>2 DEF Call, Pcs
  <2>2. Steady([call[c] EXCEPT !.pc = pc], Asking)
    BY <1>5, <2>1 DEF Steady
  <2> QED
    BY <1>2, <1>4, <1>5, <2>1, <2>2, AskMoves
<1>6. CASE Returns(c)
  BY <1>2, <1>4, <1>6, AskMoves
<1> QED
  BY <1>1, <1>2, <1>3, <1>5, <1>6

(* The calls beyond the gate that do not pause. *)
LEMMA AskCalls ==
  ASSUME IInv, Plain, AskInv, NEW c \in Slots,
         \/ claimEffect(c) \/ claimRereads(c) \/ settleUncertainEffect(c) \/ renewRunLease(c)
         \/ execute(c) \/ completeExternalEffect(c) \/ toolThrows(c)
  PROVE  AskInv'
<1>1. /\ call[c] \in Call /\ call[c].effect \in Effects /\ call[c].turn \in Turns
      /\ ~At(c, "idle") /\ Steady(call[c], Asking)
  BY DEF IInv, TypeOK, Names, Named, AskInv, CallsSteady, At, claimEffect, claimRereads,
         settleUncertainEffect, renewRunLease, execute, completeExternalEffect, toolThrows
<1>2. ASSUME NEW s \in Status, SetStatus(Of(c), s), Asking => Row(c).status # "intended"
      PROVE  Asking => \A e \in Effects :
               effect[e].status = "intended" => effect'[e].status = "intended"
  BY <1>1, <1>2, SetStatusFacts DEF IInv, Of, Row
<1>3. Asking => \A e \in Effects :
        effect[e].status = "intended" => effect'[e].status = "intended"
  <2>1. CASE effect' = effect
    BY <2>1
  <2>2. CASE claimEffect(c) /\ Claimable(c)
    <3>1. Asking => Row(c).status = "approved"
      BY <1>1, <2>2 DEF claimEffect, Claimable, Steady, At
    <3>2. SetStatus(Of(c), "executing") /\ "executing" \in Status
      BY <2>2 DEF claimEffect, Status
    <3> QED
      BY <1>2, <3>1, <3>2
  <2>3. CASE settleUncertainEffect(c) /\ Settles(c)
    <3>1. SetStatus(Of(c), "uncertain") /\ "uncertain" \in Status
      BY <2>3 DEF settleUncertainEffect, Status
    <3> QED
      BY <1>2, <2>3, <3>1 DEF Settles
  <2>4. CASE completeExternalEffect(c) /\ Completes(c)
    <3>1. SetStatus(Of(c), "completed") /\ "completed" \in Status
      BY <2>4 DEF completeExternalEffect, Status
    <3> QED
      BY <1>2, <2>4, <3>1 DEF Completes
  <2> QED
    BY <2>1, <2>2, <2>3, <2>4 DEF claimEffect, claimRereads, settleUncertainEffect, renewRunLease,
       execute, completeExternalEffect, toolThrows
<1>4. \/ Returns(c)
      \/ \E pc \in {"execute", "reread", "settle", "pause", "finish"} :
           Goes(c, pc) /\ (pc = "pause" => call[c].pc = "renew")
  <2>1. CASE claimRereads(c)
    BY <2>1, Zenon DEF claimRereads, Tells
  <2> QED
    BY <2>1 DEF claimEffect, settleUncertainEffect, renewRunLease, execute, At,
       completeExternalEffect, toolThrows, Tells
<1>5. \/ Returns(c)
      \/ \E pc \in Pcs :
           /\ Goes(c, pc) /\ Steady([call[c] EXCEPT !.pc = pc], Asking)
           /\ pc \in {"plan", "gate", "renew", "pause"} =>
                call[c].pc \in {"plan", "gate", "renew", "pause"}
  <2>1. ASSUME NEW pc \in {"execute", "reread", "settle", "pause", "finish"},
               pc = "pause" => call[c].pc = "renew"
        PROVE  pc \in Pcs /\ Steady([call[c] EXCEPT !.pc = pc], Asking)
    <3>1. [call[c] EXCEPT !.pc = pc].pc = pc /\ [call[c] EXCEPT !.pc = pc].seen = call[c].seen
      BY <1>1 DEF Call
    <3> QED
      BY <1>1, <2>1, <3>1 DEF Steady, Pcs
  <2> QED
    BY <1>4, <2>1
<1>6. /\ UNCHANGED <<ask, rule, env>> /\ run'.fence = run.fence /\ run'.status = run.status
      /\ turn' = turn \/ Over(call[c].turn)
  BY DEF claimEffect, claimRereads, settleUncertainEffect, renewRunLease, execute,
         completeExternalEffect, toolThrows, IInv, TypeOK, RunRow
<1> QED
  BY <1>1, <1>3, <1>5, <1>6, AskMoves

(* The run pauses for a call that has read an intended row. *)
LEMMA AskPauses == ASSUME IInv, Plain, AskInv, NEW c \in Slots, pauseRunForInput(c) PROVE AskInv'
<1> USE DEF IInv, TypeOK
<1>1. /\ call[c].effect \in Effects /\ call[c].turn \in Turns /\ call[c].pc = "pause"
      /\ ~At(c, "idle") /\ Steady(call[c], Asking)
  BY DEF Names, Named, AskInv, CallsSteady, At, pauseRunForInput
<1>2. CASE ~Pauses(call[c].turn)
  BY <1>1, <1>2, AskMoves DEF pauseRunForInput
<1>3. CASE Pauses(call[c].turn)
  <2>1. Asking /\ call[c].seen = "intended"
    BY <1>1 DEF Steady
  <2>2. effect[call[c].effect].status = "intended"
    BY <1>1, <1>3, <2>1 DEF AskInv, AllFresh, Fresh, Pauses
  <2>3. /\ run'.status = "waiting" /\ run'.fence = run.fence /\ ask' = call[c].effect
        /\ UNCHANGED <<effect, rule, env>>
    BY <1>3 DEF pauseRunForInput, RunRow, Of
  <2>4. \A d \in Slots : call'[d] \in {call[d], NoCall}
    BY DEF pauseRunForInput, Returns
  <2>5. \A t \in Turns : /\ turn'[t].rule \in {turn[t].rule, NoRule}
                         /\ turn'[t].state = "active" => turn[t].state = "active"
    BY <1>3 DEF pauseRunForInput, Over
  <2>6. Asking' = Asking
    BY <2>3 DEF Asking
  <2>7. RulesStand'
    BY <2>3, <2>5, <2>6 DEF AskInv, RulesStand
  <2>8. CallsSteady'
    BY <2>4, <2>6, NoCallSteady DEF AskInv, CallsSteady
  <2>9. FenceIsLast'
    BY <2>3, <2>4, <2>5 DEF AskInv, FenceIsLast, NoCall
  <2>10. \A d \in Slots : Fresh(d)'
    BY <2>3 DEF Fresh, Fenced
  <2>11. CardStands'
    BY <1>1, <2>1, <2>2, <2>3, <2>6, EffectAssumption
       DEF EffectAssumption, CardStands, Answerable
  <2> QED
    BY <2>7, <2>8, <2>9, <2>10, <2>11 DEF AskInv, AllFresh
<1> QED
  BY <1>2, <1>3

(* The answer takes the run from every turn that still works for it. *)
LEMMA AskAnswers ==
  ASSUME IInv, Plain, AskInv, NEW answer \in {"allow", "always", "deny"}, answerAsk(answer)
  PROVE  AskInv'
<1> USE DEF IInv, TypeOK
<1>1. run'.status = "queued" /\ run'.fence = run.fence /\ UNCHANGED <<turn, call, env>>
  BY DEF answerAsk, RunRow
<1>2. Asking' = Asking
  BY <1>1 DEF Asking
<1>3. \A k \in Tools : rule'[k] = "require" <=> rule[k] = "require"
  BY DEF answerAsk
<1>4. RulesStand'
  BY <1>1, <1>2, <1>3 DEF AskInv, RulesStand
<1>5. CallsSteady' /\ FenceIsLast'
  BY <1>1, <1>2 DEF AskInv, CallsSteady, FenceIsLast
<1>6. (\A d \in Slots : Fresh(d)') /\ CardStands'
  BY <1>1 DEF Fresh, Fenced, CardStands
<1> QED
  BY <1>4, <1>5, <1>6 DEF AskInv, AllFresh

(* Every step keeps the card's invariant. *)
LEMMA AskStep == IInv /\ AskInv /\ [Next]_vars => AskInv'
<1> SUFFICES ASSUME IInv, AskInv, [Next]_vars, Plain' PROVE AskInv'
  BY DEF AskInv
<1>1. CASE UNCHANGED vars
  BY <1>1 DEF vars, AskInv, Plain, Asking, RulesStand, CallsSteady, FenceIsLast, AllFresh, Fresh,
              Fenced, CardStands, Answerable
<1>2. CASE Next
  <2>1. Plain
    BY <1>2 DEF Plain, Next, turnBegins, applyTool, replayRejected, turnEnds, leaseIsLost, Crash,
       Proceed, recordFinds, recordCreates, plan, runAutoReview, gate, claimEffect, claimRereads,
       settleUncertainEffect, renewRunLease, pauseRunForInput, execute, completeExternalEffect,
       toolThrows, answerAsk, setRule, stop, leaseLapses
  <2>2. \A k \in Tools : ~setRule(k)
    BY <2>1 DEF setRule, Plain
  <2>3. \A c \in Slots : ~runAutoReview(c)
    BY <2>1 DEF runAutoReview, At, AskInv, CallsSteady, Steady
  <2>4. CASE \E c \in Slots : Proceed(c) \/ toolThrows(c)
    BY <2>1, <2>3, <2>4, AskRecords, AskPlans, AskGates, AskCalls, AskPauses DEF Proceed
  <2>5. CASE \E t \in Turns, c \in Slots, e \in Effects : applyTool(c, t, e)
    BY <2>1, <2>5, AskBegins
  <2>6. CASE \E answer \in {"allow", "always", "deny"} : answerAsk(answer)
    BY <2>1, <2>6, AskAnswers
  <2> QED
    BY <1>2, <2>1, <2>2, <2>4, <2>5, <2>6, AskTurnBegins, AskTurns DEF Next
<1> QED
  BY <1>1, <1>2

-----------------------------------------------------------------------------
(* The theorems *)

(* Every variable of the model holds a value of its column or local, for   *)
(* any number of requests, calls and turns.                                *)
THEOREM TypeCorrect == Spec => []TypeOK
<1>1. IInv /\ [Next]_vars => IInv'
  BY Steps DEF Kept
<1>2. IInv => TypeOK
  BY DEF IInv
<1> QED
  BY InitInv, <1>1, <1>2, PTL DEF Spec

(* The rows, turns and calls implement the promise: whatever is called     *)
(* again, crashes, lapses or is answered late, a request is executed at    *)
(* most once, never once it is refused, and the agent is told one thing    *)
(* about it, which the row says for good (approval-effect.ts).             *)
THEOREM Implements == Spec => KeepsPromise
<1>1. Init => Promise!PromiseInit
  <2>1. Verdict("none") = "open"
    BY Verdicts DEF Status, Settled
  <2> QED
    BY <2>1 DEF Init, Promise!PromiseInit
<1>2. IInv /\ [Next]_vars => IInv' /\ [Promise!PromiseNext]_(Promise!promiseVars)
  BY Steps DEF Kept
<1> QED
  BY InitInv, <1>1, <1>2, PTL DEF Spec, KeepsPromise, Promise!PromiseSpec

(* Without reviews and edits of the rules, the card of a run that waits    *)
(* can always be answered, however many calls of one request race, retry,  *)
(* lose their lease or die (events.ts).                                    *)
THEOREM CardAnswerable == Spec => []AskIsAnswerable
<1>1. Init => AskInv
  BY DEF Init, AskInv, RulesStand, CallsSteady, Steady, FenceIsLast, AllFresh, Fresh, Fenced,
         CardStands, NoCall, Asking, Plain
<1>2. IInv /\ [Next]_vars => IInv'
  BY Steps DEF Kept
<1>3. AskInv => AskIsAnswerable
  BY DEF AskInv, AskIsAnswerable, CardStands, Plain
<1> QED
  BY InitInv, AskStep, <1>1, <1>2, <1>3, PTL DEF Spec
=============================================================================
