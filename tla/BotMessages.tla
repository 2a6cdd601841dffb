----------------------------- MODULE BotMessages -----------------------------
(***************************************************************************)
(* Messages between a user's bots. A message is delivered with the run it  *)
(* wakes, so the runs stand for both; what a delegated run came to is told *)
(* to the bot that asked, by the executor that ended the run or later by   *)
(* the job reconciler.                                                     *)
(*   packages/adapters/src/bot-messages.ts, packages/core/src/bot-messages.ts *)
(*   packages/adapters/src/job-reconciler.ts (outcomes)                    *)
(*   packages/adapters/src/child-bots.ts (archiveBot)                      *)
(***************************************************************************)
EXTENDS Naturals, FiniteSets, SequencesExt

CONSTANTS
  Bots,
  Recs,                 \* reconcilers
  MaxRuns,              \* bound: runs there are ids for
  BOT_MESSAGE_MAX_HOPS,
  Teams,                \* what may happen, see TeamAssumption
  NoBot                 \* the user

ASSUME TeamAssumption ==
  /\ NoBot \notin Bots /\ MaxRuns \in Nat /\ BOT_MESSAGE_MAX_HOPS \in Nat
  /\ Recs \cap (1..MaxRuns) = {}
  /\ Teams \subseteq
       [bots : SUBSET Bots,
        asks : SUBSET Bots,      \* bots the user writes to, each once
        intents : SUBSET {"request", "result"},
        texts : SUBSET BOOLEAN,  \* whether a run ends with a text
        sends : Nat,             \* messages the bots send of their own accord
        recs : SUBSET Recs,
        archives : SUBSET Bots,  \* bots the user archives
        stops : BOOLEAN,         \* the user stops runs
        setbacks : Nat]          \* deliveries that fail, executors that die before one
  /\ \A t \in Teams :             \* the ids do not run out
       IsFiniteSet(t.asks) /\ Cardinality(t.asks) + 2 * t.sends <= MaxRuns

VARIABLES
  team,       \* which of these this is
  runs,       \* a sequence of runs with the message that woke each
  waiting,    \* bot_message runs that ended, without botOutcomeReturnedAt, by updatedAt
  returner,   \* the executor of a run, and a reconciler: returnBotMessageOutcome
  archived,
  archiving,  \* archiveBot: the active runs it has read
  setbacks

teamVars == <<team, runs, waiting, returner, archived, archiving, setbacks>>

Ids == 1..MaxRuns
(* A question is answered as a request is; an fyi is not, as a status.     *)
Intents == {"request", "result", "status"}
NotArchiving == {0}
Returning == [pc |-> "idle", run |-> 0]

TeamTypeOK ==
  /\ Len(runs) <= MaxRuns
  /\ \A i \in DOMAIN runs :
       /\ runs[i].state \in {"active", "ended", "cancelled"}
       /\ runs[i].bot \in Bots /\ runs[i].from \in Bots \cup {NoBot} /\ runs[i].of \in 0..i - 1
       /\ runs[i].intent \in Intents \cup {"none"}
       /\ runs[i].hop \in 0..BOT_MESSAGE_MAX_HOPS + 1 /\ runs[i].auto \in BOOLEAN
  /\ Range(waiting) \subseteq DOMAIN runs
  /\ \A r \in Ids \cup Recs : returner[r].pc \in {"idle", "read", "deliver", "mark", "rotate"}
  /\ archived \subseteq Bots /\ setbacks <= team.setbacks

TeamInit ==
  /\ team \in Teams
  /\ runs = <<>> /\ waiting = <<>> /\ archived = {} /\ setbacks = 0
  /\ returner = [r \in Ids \cup Recs |-> Returning]
  /\ archiving = [b \in Bots |-> NotArchiving]

Setback ==
  /\ setbacks < team.setbacks
  /\ setbacks' = setbacks + 1

Run(bot, from, of, intent, hop, auto) ==
  [state |-> "active", bot |-> bot, from |-> from, of |-> of, intent |-> intent, hop |-> hop,
   auto |-> auto]

(* Every run that is sent may have to be answered: the ids do not run out. *)
Sent == {i \in DOMAIN runs : runs[i].of # 0 /\ ~runs[i].auto}
MaySend == Cardinality(Sent) < team.sends

isBotMessage(i) == runs[i].intent # "none"
(* A result that the run has sent itself tells its outcome as well.        *)
Told(i) == \E j \in DOMAIN runs :
             /\ runs[j].of = i /\ runs[j].bot = runs[i].from
             /\ runs[j].auto \/ runs[j].intent = "result"

-----------------------------------------------------------------------------
(* Runs *)

(* A message of the user starts a chain. *)
ask(b) ==
  /\ b \in team.asks \ archived /\ ~\E i \in DOMAIN runs : runs[i].bot = b /\ runs[i].of = 0
  /\ runs' = Append(runs, Run(b, NoBot, 0, "none", 0, FALSE))
  /\ UNCHANGED <<team, waiting, returner, archived, archiving, setbacks>>

nextBotMessageHop(i) == runs[i].hop + 1
botMessageHopExhausted(hop) == hop > BOT_MESSAGE_MAX_HOPS

(* messageBot by a tool call of the run. *)
messageBot(i, target, intent) ==
  LET hop == nextBotMessageHop(i) IN
  /\ runs[i].state = "active" /\ MaySend
  /\ target \in team.bots \ (archived \cup {runs[i].bot}) /\ ~botMessageHopExhausted(hop)
  /\ runs' = Append(runs, Run(target, runs[i].bot, i, intent, hop, FALSE))
  /\ UNCHANGED <<team, waiting, returner, archived, archiving, setbacks>>

(* Completed or failed. An executor without any text leaves the outcome to *)
(* the reconciler.                                                         *)
finalizeRun(i) ==
  /\ runs[i].state = "active"
  /\ runs' = [runs EXCEPT ![i].state = "ended"]
  /\ IF isBotMessage(i)
     THEN /\ waiting' = Append(waiting, i)
          /\ \E text \in team.texts :
               returner' = IF text THEN [returner EXCEPT ![i] = [pc |-> "read", run |-> i]]
                           ELSE returner
     ELSE UNCHANGED <<waiting, returner>>
  /\ UNCHANGED <<team, archived, archiving, setbacks>>

stop(i) ==
  /\ team.stops /\ runs[i].state = "active"
  /\ runs' = [runs EXCEPT ![i].state = "cancelled"]
  /\ UNCHANGED <<team, waiting, returner, archived, archiving, setbacks>>

-----------------------------------------------------------------------------
(* returnBotMessageOutcome, by the executor that has ended the run or by   *)
(* the reconciler                                                          *)

ReturnerTo(r, pc) == returner' = [returner EXCEPT ![r].pc = pc]
ReturnEnds(r) == returner' = [returner EXCEPT ![r] = Returning]

(* A batch of one, by updatedAt; what was cancelled since is passed over. *)
listOutcomes(r) ==
  LET ended == {k \in DOMAIN waiting : runs[waiting[k]].state = "ended"} IN
  /\ r \in team.recs /\ returner[r].pc = "idle" /\ ended # {}
  /\ returner' = [returner EXCEPT ![r] = [pc |-> "read", run |-> waiting[Min(ended)]]]
  /\ UNCHANGED <<team, runs, waiting, archived, archiving, setbacks>>

(* markBotOutcomeReturned *)
Without(i) == RemoveFirst(waiting, i)

(* Mutant: what the run itself has sent is not looked for. *)
OweRequest(i) == runs[i].intent = "request"
Owes(i) ==
  /\ runs[i].intent = "request"
  /\ ~\E j \in DOMAIN runs :
        runs[j].of = i /\ runs[j].bot = runs[i].from /\ runs[j].intent = "result"
readSource(r) ==
  /\ returner[r].pc = "read"
  /\ IF Owes(returner[r].run) THEN ReturnerTo(r, "deliver") /\ UNCHANGED waiting
     ELSE waiting' = Without(returner[r].run) /\ ReturnEnds(r)
  /\ UNCHANGED <<team, runs, archived, archiving, setbacks>>

(* deliveryKey auto-outcome:<runId>, whatever the intent. *)
Delivered(i) == \E j \in DOMAIN runs : runs[j].of = i /\ runs[j].auto

(* messageBot with allowTerminalSource: the cap of hops does not apply. A  *)
(* result, or a status for a failure and for a text that is all progress.  *)
deliverOutcome(r, intent) ==
  LET i == returner[r].run
      refused == runs[i].state # "ended" \/ runs[i].from \in archived IN
  /\ returner[r].pc = "deliver"
  /\ CASE Delivered(i) -> ReturnerTo(r, "mark") /\ UNCHANGED runs
       [] ~Delivered(i) /\ refused -> ReturnerTo(r, "rotate") /\ UNCHANGED runs
       [] OTHER ->
            /\ runs' = Append(runs, Run(runs[i].from, runs[i].bot, i, intent, runs[i].hop + 1, TRUE))
            /\ ReturnerTo(r, "mark")
  /\ UNCHANGED <<team, waiting, archived, archiving, setbacks>>

markBotOutcomeReturned(r) ==
  /\ returner[r].pc = "mark"
  /\ waiting' = Without(returner[r].run)
  /\ ReturnEnds(r)
  /\ UNCHANGED <<team, runs, archived, archiving, setbacks>>

(* An executor leaves it to the reconciler, which puts it at the end. *)
(* Mutant: it stays where it is. *)
RotatedNot(i) == waiting
Rotated(i) == IF i \in Range(waiting) THEN Append(Without(i), i) ELSE waiting
rotate(r) ==
  /\ returner[r].pc = "rotate"
  /\ waiting' = IF r \in Recs THEN Rotated(returner[r].run) ELSE waiting
  /\ ReturnEnds(r)
  /\ UNCHANGED <<team, runs, archived, archiving, setbacks>>

(* A statement throws, or the process dies. *)
returnFails(r) ==
  /\ returner[r].pc \in {"read", "deliver", "mark"} /\ Setback
  /\ \/ ReturnerTo(r, "rotate")
     \/ ReturnEnds(r)
  /\ UNCHANGED <<team, runs, waiting, archived, archiving>>

-----------------------------------------------------------------------------
(* archiveBot: the active runs are read before its transaction, which      *)
(* cancels them whatever has become of them.                               *)

archiveBot(b) ==
  /\ b \in team.archives \ archived /\ archiving[b] = NotArchiving
  /\ archiving' = [archiving EXCEPT ![b] =
       {i \in DOMAIN runs : runs[i].bot = b /\ runs[i].state = "active"}]
  /\ UNCHANGED <<team, runs, waiting, returner, archived, setbacks>>

archiveCommits(b) ==
  /\ archiving[b] # NotArchiving
  /\ runs' = [i \in DOMAIN runs |->
       IF i \in archiving[b] THEN [runs[i] EXCEPT !.state = "cancelled"] ELSE runs[i]]
  /\ archived' = archived \cup {b}
  /\ archiving' = [archiving EXCEPT ![b] = NotArchiving]
  /\ UNCHANGED <<team, waiting, returner, setbacks>>

-----------------------------------------------------------------------------
Returns(r) ==
  \/ readSource(r) \/ markBotOutcomeReturned(r) \/ rotate(r)
  \/ \E intent \in {"result", "status"} : deliverOutcome(r, intent)

TeamNext ==
  \/ \E b \in Bots : ask(b) \/ archiveBot(b) \/ archiveCommits(b)
  \/ \E i \in DOMAIN runs :
       \/ finalizeRun(i) \/ stop(i)
       \/ \E b \in Bots, intent \in team.intents : messageBot(i, b, intent)
  \/ \E r \in Recs : listOutcomes(r)
  \/ \E r \in Ids \cup Recs : Returns(r) \/ returnFails(r)

(* Returns go on, and the reconciler comes round. *)
TeamFairness ==
  /\ \A r \in Ids : WF_teamVars(Returns(r))
  /\ \A r \in Recs : WF_teamVars(Returns(r) \/ listOutcomes(r))

TeamSpec == TeamInit /\ [][TeamNext]_teamVars /\ TeamFairness

-----------------------------------------------------------------------------
(* Properties *)

(* What a delegated run came to is told once, by the run itself or by one  *)
(* of those who do it for the run ("status vs result (executor vs          *)
(* reconciler) cannot double-deliver", bot-messages.ts:369); being told is *)
(* nothing that is answered in turn.                                       *)
OutcomeToldOnce ==
  \A i \in DOMAIN runs :
    LET told == {j \in DOMAIN runs : runs[j].of = i /\ runs[j].auto} IN
    /\ Cardinality(told) <= 1
    /\ told # {} =>
         /\ ~runs[i].auto
         /\ ~\E j \in DOMAIN runs : runs[j].of = i /\ ~runs[j].auto /\ runs[j].intent = "result"
                                      /\ runs[j].bot = runs[i].from

(* The bot that asked is told what each ended run came to, as long as it   *)
(* is not archived ("a crash or failed delivery stays visible to the       *)
(* reconciler", executor.ts:3625), whoever cannot be told stands before it. *)
OutcomesAreTold ==
  []<>(\A i \in DOMAIN runs :
         runs[i].intent = "request" /\ runs[i].state = "ended" => Told(i) \/ runs[i].from \in archived)
=============================================================================
