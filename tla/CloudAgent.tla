----------------------------- MODULE CloudAgent -----------------------------
(***************************************************************************)
(* One remote coding agent: its row, which is an outbox of intents         *)
(* (launch, follow-up, cancel), the polls that carry them out, the         *)
(* provider's agent and its runs, and the tools of the bot and the         *)
(* clearing of the thread that change the row meanwhile. A poll holds a    *)
(* lease on the row and writes under its token and the version it has      *)
(* read; versions are only compared, so "valid" says that a reader's is    *)
(* still the row's. An action is one statement, transaction or request.    *)
(*   packages/adapters/src/cloud-agent-poll.ts, cloud-agent-service.ts,    *)
(*   cursor-cloud-agent.ts                                                 *)
(***************************************************************************)
EXTENDS Integers

CONSTANTS
  Pollers,     \* jobs that poll the agent, in any worker process
  MaxReplies,  \* bound: follow-ups
  Agents,      \* what the environment may do, see AgentAssumption
  NoPoller

ASSUME AgentAssumption ==
  /\ MaxReplies \in Nat /\ NoPoller \notin Pollers
  /\ Agents \subseteq
       [launched : BOOLEAN,   \* the bot launches an agent at all
        pollers : SUBSET Pollers,
        gap : BOOLEAN,        \* a poll may be overtaken between its read and its claim
        replies : 0 .. MaxReplies,
        cancels : BOOLEAN,    \* the bot may cancel
        detaches : BOOLEAN,   \* the user may clear the chat or archive the bot
        lapses : Nat,         \* bound: leases that their polls outlast
        lost : Nat,           \* bound: requests or answers that are lost
        dies : Nat]           \* bound: deaths of a poll

VARIABLES
  life,      \* which of the agents this is
  agent,     \* the row
  remote,    \* the provider's agent: its runs, and those still running
  poll,      \* the polls
  reply,     \* a cloud_agent_reply between its read and its write
  attached,  \* the card, the membership and the bot are there
  wakes,     \* the runs created to tell the bot the outcome, by generation
  chance     \* lost requests, deaths, lapses, replies and the cancel that are left

agentVars == <<life, agent, remote, poll, reply, attached, wakes, chance>>

Runs == 1 .. MaxReplies + 1
Gens == 0 .. MaxReplies

Row == [status : {"none", "running", "over"}, remote : BOOLEAN, request : BOOLEAN, dispatched : BOOLEAN,
        latest : {0} \cup Runs, followup : BOOLEAN, dispatching : BOOLEAN, cancel : BOOLEAN,
        gen : Gens, woken : {-1} \cup Gens, due : BOOLEAN,
        lease : Pollers \cup {NoPoller}, live : BOOLEAN]
Update == [status : {"running", "over"}, latest : {0} \cup Runs, remote : BOOLEAN,
           settles : BOOLEAN, cancel : BOOLEAN]

AgentTypeOK ==
  /\ agent \in Row
  /\ remote \in [runs : {0} \cup Runs, refused : BOOLEAN, busy : SUBSET Runs]
  /\ \A p \in Pollers :
       /\ poll[p].pc \in {"idle", "claim", "check", "mark", "call", "finish", "retry", "release"}
       /\ poll[p].op \in {"none", "launch", "cancel", "observe", "reply", "get", "drop"}
       /\ poll[p].data \in Update
       /\ poll[p].row \in Row
  /\ attached \in BOOLEAN
  /\ wakes \in [Gens -> Nat]

NoUpdate == [status |-> "running", latest |-> 0, remote |-> FALSE, settles |-> FALSE,
             cancel |-> FALSE]
NoRow == [status |-> "none", remote |-> FALSE, request |-> FALSE, dispatched |-> FALSE,
          latest |-> 0, followup |-> FALSE, dispatching |-> FALSE, cancel |-> FALSE, gen |-> 0,
          woken |-> -1, due |-> FALSE, lease |-> NoPoller, live |-> FALSE]
NoPoll == [pc |-> "idle", row |-> NoRow, valid |-> FALSE, abandoned |-> FALSE, op |-> "none",
           data |-> NoUpdate]

AgentInit ==
  /\ life \in Agents
  /\ agent = NoRow
  /\ remote = [runs |-> 0, refused |-> FALSE, busy |-> {}]
  /\ poll = [p \in Pollers |-> NoPoll]
  /\ reply = [pc |-> "idle", valid |-> FALSE]
  /\ attached = TRUE
  /\ wakes = [g \in Gens |-> 0]
  /\ chance = [lost |-> life.lost, dies |-> life.dies, lapses |-> life.lapses,
               replies |-> life.replies, cancels |-> life.cancels]

(* The version goes up: what was read before is stale. *)
Stale == [p \in Pollers |-> [poll[p] EXCEPT !.valid = FALSE]]

-----------------------------------------------------------------------------
(* The tools, and the user *)

launchTool ==
  /\ life.launched /\ agent.status = "none" /\ attached
  /\ agent' = [NoRow EXCEPT !.status = "running", !.request = TRUE, !.due = TRUE]
  /\ UNCHANGED <<life, remote, poll, reply, attached, wakes, chance>>

replyReads ==
  /\ reply.pc = "idle" /\ chance.replies > 0
  /\ agent.status = "over" /\ ~agent.followup /\ ~agent.cancel /\ agent.remote
  /\ reply' = [pc |-> "write", valid |-> TRUE]
  /\ chance' = [chance EXCEPT !.replies = @ - 1]
  /\ UNCHANGED <<life, agent, remote, poll, attached, wakes>>

replyWrites ==
  /\ reply.pc = "write"
  /\ reply' = [pc |-> "idle", valid |-> FALSE]
  /\ IF reply.valid
     THEN /\ agent' = [agent EXCEPT !.followup = TRUE, !.dispatching = FALSE,
                         !.status = "running", !.gen = @ + 1, !.due = TRUE]
          /\ poll' = Stale
     ELSE UNCHANGED <<agent, poll>>
  /\ UNCHANGED <<life, remote, attached, wakes, chance>>

cancelTool ==
  /\ agent.status # "none" /\ chance.cancels
  /\ agent' = [agent EXCEPT !.cancel = TRUE, !.due = TRUE]
  /\ poll' = Stale /\ reply' = [reply EXCEPT !.valid = FALSE]
  /\ chance' = [chance EXCEPT !.cancels = FALSE]
  /\ UNCHANGED <<life, remote, attached, wakes>>

(* The chat is cleared, or the bot archived, or the member removed. *)
Detach ==
  /\ life.detaches /\ attached /\ attached' = FALSE
  /\ UNCHANGED <<life, agent, remote, poll, reply, wakes, chance>>

-----------------------------------------------------------------------------
(* A poll: the claim *)

(* Mutant: a lease that has expired is not taken over. *)
LeasableFree == agent.lease = NoPoller
Leasable == agent.lease = NoPoller \/ ~agent.live

(* The version does not tell a row from the same row after another poll's  *)
(* mark: see "gap".                                                        *)
pollReads(p) ==
  /\ poll[p].pc = "idle" /\ p \in life.pollers /\ agent.due
  /\ \/ /\ life.gap /\ UNCHANGED agent
        /\ poll' = [poll EXCEPT ![p] =
                     [NoPoll EXCEPT !.pc = "claim", !.row = agent, !.valid = TRUE]]
     \/ /\ ~life.gap /\ Leasable
        /\ agent' = [agent EXCEPT !.lease = p, !.live = TRUE]
        /\ poll' = [poll EXCEPT ![p] =
                     [NoPoll EXCEPT !.pc = "check", !.row = agent, !.valid = TRUE]]
  /\ UNCHANGED <<life, remote, reply, attached, wakes, chance>>

pollClaims(p) ==
  /\ poll[p].pc = "claim"
  /\ IF poll[p].valid /\ Leasable
     THEN /\ agent' = [agent EXCEPT !.lease = p, !.live = TRUE]
          /\ poll' = [poll EXCEPT ![p].pc = "check"]
     ELSE poll' = [poll EXCEPT ![p] = NoPoll] /\ UNCHANGED agent
  /\ UNCHANGED <<life, remote, reply, attached, wakes, chance>>

(* What the poll will do, from the row it has read and from what is left   *)
(* of the thread. (Mutant: a follow-up that may have been sent is sent.)   *)
PlanResends(row, stop) ==
  CASE ~row.remote /\ stop /\ ~row.dispatched -> "drop"
    [] ~row.remote /\ ~(stop /\ ~row.dispatched) -> "launch"
    [] row.remote /\ stop /\ row.followup /\ ~row.dispatching -> "drop"
    [] row.remote /\ stop /\ ~(row.followup /\ ~row.dispatching) -> "cancel"
    [] row.remote /\ ~stop /\ row.followup -> "reply"
    [] OTHER -> "get"
Plan(row, stop) ==
  CASE ~row.remote /\ stop /\ ~row.dispatched -> "drop"
    [] ~row.remote /\ ~(stop /\ ~row.dispatched) -> "launch"
    [] row.remote /\ stop /\ row.followup /\ ~row.dispatching -> "drop"
    [] row.remote /\ stop /\ ~(row.followup /\ ~row.dispatching) -> "cancel"
    [] row.remote /\ ~stop /\ row.followup /\ row.dispatching -> "observe"
    [] row.remote /\ ~stop /\ row.followup /\ ~row.dispatching -> "reply"
    [] OTHER -> "get"

pollChecks(p) ==
  LET row == poll[p].row
      op == Plan(row, ~attached \/ row.cancel) IN
  /\ poll[p].pc = "check"
  /\ poll' = [poll EXCEPT
       ![p].abandoned = ~attached, ![p].op = op,
       ![p].pc = CASE op = "drop" -> "finish" [] op \in {"launch", "reply"} -> "mark"
                   [] OTHER -> "call",
       ![p].data = [NoUpdate EXCEPT !.status = "over", !.settles = op = "drop",
                                    !.latest = row.latest, !.remote = row.remote]]
  /\ UNCHANGED <<life, agent, remote, reply, attached, wakes, chance>>

(* Mutant: the version is not asked for. *)
FenceToken(p) == agent.lease = p
fence(p) == agent.lease = p /\ poll[p].valid

(* The intent to send is recorded before anything is sent. A launch that   *)
(* was rejected has left no request to send again: its parsing throws.     *)
pollMarks(p) ==
  /\ poll[p].pc = "mark"
  /\ IF fence(p)
     THEN IF poll[p].op = "launch"
          THEN /\ agent' = [agent EXCEPT !.dispatched = TRUE]
               /\ poll' = [poll EXCEPT ![p].pc = IF poll[p].row.request THEN "call" ELSE "retry"]
          ELSE /\ agent' = [agent EXCEPT !.dispatching = TRUE]
               /\ poll' = [poll EXCEPT ![p].pc = "call"]
     ELSE poll' = [poll EXCEPT ![p].pc = "release"] /\ UNCHANGED agent
  /\ UNCHANGED <<life, remote, reply, attached, wakes, chance>>

-----------------------------------------------------------------------------
(* A poll: the request *)

Calls(p, op) == poll[p].pc = "call" /\ poll[p].op = op
StatusOf(r) == IF r \in remote.busy THEN "running" ELSE "over"
Learns(p, r, status, settles, cancel) ==
  poll' = [poll EXCEPT ![p].pc = "finish",
    ![p].data = [status |-> status, latest |-> r, remote |-> TRUE, settles |-> settles,
                 cancel |-> cancel]]
Fails(p) == poll' = [poll EXCEPT ![p].pc = "retry"]
Lose == chance.lost > 0 /\ chance' = [chance EXCEPT !.lost = @ - 1]
Elsewhere == UNCHANGED <<life, agent, reply, attached, wakes>>

(* The launch has the agent's id for its key: a repetition finds the agent. *)
sendLaunch(p) ==
  LET r == IF remote.runs = 0 THEN 1 ELSE remote.runs IN
  /\ Calls(p, "launch")
  /\ \/ /\ ~remote.refused
        /\ remote' = IF remote.runs = 0 THEN [remote EXCEPT !.runs = 1, !.busy = {1}] ELSE remote
        /\ \/ /\ Learns(p, r, IF r \in remote'.busy THEN "running" ELSE "over", FALSE,
                        poll[p].abandoned \/ poll[p].row.cancel)
              /\ UNCHANGED chance
           \/ Lose /\ Fails(p)
     \/ Lose /\ Fails(p) /\ UNCHANGED remote
     \/ /\ remote.runs = 0  \* rejected, as every repetition would be
        /\ remote' = [remote EXCEPT !.refused = TRUE]
        /\ poll' = [poll EXCEPT ![p].pc = "finish"]
        /\ UNCHANGED chance
  /\ Elsewhere

(* Every accepted reply is a new run. *)
sendReply(p) ==
  LET r == remote.runs + 1 IN
  /\ Calls(p, "reply")
  /\ \/ /\ r \in Runs
        /\ remote' = [remote EXCEPT !.runs = r, !.busy = @ \cup {r}]
        /\ \/ Learns(p, r, "running", TRUE, FALSE) /\ UNCHANGED chance
           \/ Lose /\ Fails(p)
     \/ Lose /\ Fails(p) /\ UNCHANGED remote
     \/ /\ poll' = [poll EXCEPT ![p].pc = "finish", ![p].data.settles = TRUE]  \* rejected
        /\ UNCHANGED <<remote, chance>>
  /\ Elsewhere

(* While the fate of a reply is open the agent itself is asked, whose      *)
(* metadata may be old, and cancelled; else the run that is known.         *)
Asked(p) == IF poll[p].row.dispatching THEN poll[p].row.latest .. remote.runs
            ELSE {poll[p].row.latest}

Unsettled(p, r) == poll[p].row.dispatching /\ r = poll[p].row.latest

(* The provider stops the run, now or later; the answer is what it finds.  *)
sendCancel(p) ==
  /\ Calls(p, "cancel")
  /\ \/ \E r \in Asked(p) :
          /\ remote' \in {remote, [remote EXCEPT !.busy = @ \ {r}]}
          /\ LET status == IF r \in remote'.busy THEN "running" ELSE "over" IN
             IF Unsettled(p, r) THEN Fails(p) ELSE Learns(p, r, status, TRUE, status = "running")
          /\ UNCHANGED chance
     \/ Lose /\ Fails(p) /\ UNCHANGED remote
  /\ Elsewhere

sendGet(p) ==
  /\ Calls(p, "observe") \/ Calls(p, "get")
  /\ \/ \E r \in Asked(p) :
          /\ IF Unsettled(p, r) THEN Fails(p)
             ELSE Learns(p, r, StatusOf(r), poll[p].op = "observe", FALSE)
          /\ UNCHANGED chance
     \/ Lose /\ Fails(p)
  /\ UNCHANGED remote /\ Elsewhere

-----------------------------------------------------------------------------
(* A poll: its end *)

Wakes(row) == row.woken < row.gen

finishPoll(p) ==
  LET d == poll[p].data
      detached == poll[p].abandoned \/ ~attached
      over == d.status = "over"
      wakesNow == over /\ ~detached /\ Wakes(agent)
      row == [agent EXCEPT
        !.request = FALSE, !.status = d.status, !.latest = d.latest, !.remote = @ \/ d.remote,
        !.followup = IF d.settles THEN FALSE ELSE @,
        !.dispatching = IF d.settles /\ poll[p].op # "drop" THEN FALSE ELSE @,
        !.cancel = ~over /\ (detached \/ d.cancel \/ poll[p].row.cancel),
        !.due = ~over, !.lease = NoPoller, !.live = FALSE,
        !.woken = IF wakesNow THEN agent.gen ELSE @] IN
  /\ poll[p].pc = "finish"
  /\ IF fence(p)
     THEN /\ agent' = row
          /\ wakes' = IF wakesNow THEN [wakes EXCEPT ![agent.gen] = @ + 1] ELSE wakes
          /\ poll' = [Stale EXCEPT ![p].pc = "release"]
          /\ reply' = [reply EXCEPT !.valid = FALSE]
     ELSE /\ poll' = [poll EXCEPT ![p].pc = "release"]
          /\ UNCHANGED <<agent, wakes, reply>>
  /\ UNCHANGED <<life, remote, attached, chance>>

retryPoll(p) ==
  /\ poll[p].pc = "retry"
  /\ agent' = IF fence(p) THEN [agent EXCEPT !.lease = NoPoller, !.live = FALSE] ELSE agent
  /\ poll' = [poll EXCEPT ![p].pc = "release"]
  /\ UNCHANGED <<life, remote, reply, attached, wakes, chance>>

pollReleases(p) ==
  /\ poll[p].pc = "release"
  /\ agent' = IF agent.lease = p THEN [agent EXCEPT !.lease = NoPoller, !.live = FALSE] ELSE agent
  /\ poll' = [poll EXCEPT ![p] = NoPoll]
  /\ UNCHANGED <<life, remote, reply, attached, wakes, chance>>

-----------------------------------------------------------------------------
(* The provider, time and deaths *)

remoteEnds ==
  /\ \E r \in remote.busy : remote' = [remote EXCEPT !.busy = @ \ {r}]
  /\ UNCHANGED <<life, agent, poll, reply, attached, wakes, chance>>

leaseLapses ==
  /\ agent.live
  /\ IF poll[agent.lease].pc = "idle" THEN UNCHANGED chance
     ELSE chance.lapses > 0 /\ chance' = [chance EXCEPT !.lapses = @ - 1]
  /\ agent' = [agent EXCEPT !.live = FALSE]
  /\ UNCHANGED <<life, remote, poll, reply, attached, wakes>>

pollDies(p) ==
  /\ poll[p].pc # "idle" /\ chance.dies > 0
  /\ poll' = [poll EXCEPT ![p] = NoPoll]
  /\ chance' = [chance EXCEPT !.dies = @ - 1]
  /\ UNCHANGED <<life, agent, remote, reply, attached, wakes>>

-----------------------------------------------------------------------------
pollProceeds(p) ==
  \/ pollClaims(p) \/ pollChecks(p) \/ pollMarks(p)
  \/ sendLaunch(p) \/ sendReply(p) \/ sendCancel(p) \/ sendGet(p)
  \/ finishPoll(p) \/ retryPoll(p) \/ pollReleases(p)

AgentNext ==
  \/ launchTool \/ replyReads \/ replyWrites \/ cancelTool \/ Detach
  \/ \E p \in Pollers : pollReads(p) \/ pollProceeds(p) \/ pollDies(p)
  \/ remoteEnds \/ leaseLapses

AgentSpec == AgentInit /\ [][AgentNext]_agentVars

(* The job of a due agent, or the reconciler's, is run; a lease's time and *)
(* a remote run end.                                                       *)
AgentFairness ==
  /\ \A p \in Pollers : WF_agentVars(pollReads(p) \/ pollProceeds(p))
  /\ WF_agentVars(leaseLapses) /\ WF_agentVars(remoteEnds)

-----------------------------------------------------------------------------
(* Properties *)

(* A follow-up reaches the provider at most once, although an answer is    *)
(* lost, a poll dies between its mark and its request, or outlasts its     *)
(* lease: "Observe it; never resend the mutation" (cloud-agent-poll.ts).   *)
FollowupIsSentOnce == ~life.gap => remote.runs <= agent.gen + 1

(* An agent that is shown as over, with no request for it in flight, has   *)
(* no run left at the provider: a cancel is not confirmed by an old run    *)
(* while a new one is pending, nor by an agent that was launched unseen.   *)
(* The bot has been told, once for each generation, as long as there is a  *)
(* thread to tell it in.                                                   *)
OverIsOver ==
  ~life.gap /\ agent.status = "over" =>
    remote.busy = {} /\ (attached => wakes[agent.gen] = 1)

(* A cancel is kept until the agent is over: no poll that has read the row *)
(* before writes over it.                                                  *)
CancelIsKept == [][agent.cancel /\ ~agent'.cancel => agent'.status = "over"]_agentVars

(* A cancel is not forgotten, and when the agent is shown as over nothing  *)
(* of it runs on.                                                          *)
CancelTakesHold == []OverIsOver /\ CancelIsKept

(* What runs is seen to end, and a cancel to take effect, unless the       *)
(* request of a follow-up was lost (README, Disagreements).                *)
AgentSettles ==
  (agent.status = "running") ~> (agent.status = "over" \/ agent.dispatching)
=============================================================================
