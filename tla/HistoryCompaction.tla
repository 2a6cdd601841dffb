-------------------------- MODULE HistoryCompaction --------------------------
(***************************************************************************)
(* The compacted history of a bot's thread: the summary and the cursor up  *)
(* to which it covers the conversation, the jobs that move them on, the    *)
(* clear of the conversation, and a run that reads the thread and its      *)
(* messages in two statements. A message is its seq.                       *)
(*   packages/adapters/src/history-compaction.ts                           *)
(*   packages/adapters/src/executor.ts (context of a run, enqueue)         *)
(*   packages/db/src/events.ts (clearThread)                               *)
(*   apps/api/src/router.ts (threads.clear)                                *)
(***************************************************************************)
EXTENDS Naturals, Integers, FiniteSetsExt

CONSTANTS
  Jobs,       \* executions of history.compact
  MaxSeq,     \* bound: messages with a seq below it
  Window, Batch, Legacy,  \* HISTORY_WINDOW_SIZE, COMPACTION_BATCH_SIZE, LEGACY_HISTORY_WINDOW_SIZE
  Threads     \* what may be in a thread and happen to it, see HistoryAssumption

ASSUME HistoryAssumption ==
  /\ MaxSeq \in Nat /\ Window \in Nat /\ Batch \in Nat \ {0} /\ Legacy \in Nat
  /\ Threads \subseteq
       [next : 0..MaxSeq,       \* nextMessageSeq at the start
        cursor : -1..MaxSeq,    \* historyCompactedUpToSeq at the start, its summary is only in the memory
        since : 0..MaxSeq,      \* the first message since the last clear
        jobs : SUBSET Jobs,
        memory : BOOLEAN,       \* a semantic memory is configured
        recalls : BOOLEAN,      \* and finds something for a run
        clears : Nat,
        faults : Nat]           \* jobs that fail or die, calls of the memory that fail
  /\ \A h \in Threads : h.cursor < h.next /\ h.since <= h.next

VARIABLES
  history,   \* which of the threads this is
  thread,    \* nextMessageSeq, historyCompactedUpToSeq (-1: null), ...Generation, and the messages
             \* that historyCompactionSummary covers ({}: null)
  since,     \* the first message that was not cleared
  store,     \* generations with a summary in the memory's history container
  queued,    \* a history.compact job is in the queue
  compact,   \* a job: how far it is, and its locals
  reader,    \* a run: what it has read
  clearing,  \* generations that clears have still to purge
  mishaps

historyVars == <<history, thread, since, store, queued, compact, reader, clearing, mishaps>>

Seqs == 0..MaxSeq - 1
Generations == UNION {0..h.clears : h \in Threads}
NOTHING_COMPACTED == -1
NoJob == [pc |-> "idle", cursor |-> NOTHING_COMPACTED, gen |-> 0, summary |-> {}, batch |-> {},
          more |-> FALSE]
NoRun == [pc |-> "none", cursor |-> NOTHING_COMPACTED, summary |-> {}, seqs |-> {}]

HistoryTypeOK ==
  /\ thread.next \in 0..MaxSeq /\ thread.cursor \in NOTHING_COMPACTED..MaxSeq
  /\ thread.gen \in Generations /\ thread.summary \subseteq Seqs
  /\ since \in 0..MaxSeq /\ store \subseteq Generations /\ clearing \subseteq Generations
  /\ \A j \in Jobs :
       /\ compact[j].pc \in {"idle", "read", "advance", "save", "latest", "purge"}
       /\ compact[j].batch \subseteq Seqs
  /\ reader.pc \in {"none", "begun", "thread", "messages", "both"} /\ reader.seqs \subseteq Seqs
  /\ mishaps <= history.faults

HistoryInit ==
  /\ history \in Threads
  /\ thread = [next |-> history.next, cursor |-> history.cursor, gen |-> 0, summary |-> {}]
  /\ since = history.since
  /\ store = IF history.memory /\ history.cursor >= history.since THEN {0} ELSE {}
  /\ queued = FALSE /\ compact = [j \in Jobs |-> NoJob] /\ reader = NoRun
  /\ clearing = {} /\ mishaps = 0

HistoryFault ==
  /\ mishaps < history.faults
  /\ mishaps' = mishaps + 1

(* The messages of the thread, and the last n of a set of them. *)
Messages == since..thread.next - 1
Latest(seqs, n) == {s \in seqs : Cardinality({t \in seqs : t > s}) < n}
First(seqs, n) == {s \in seqs : Cardinality({t \in seqs : t < s}) < n}
(* No message between two of them is missing. *)
Contiguous(seqs) == seqs = {} \/ seqs = Min(seqs)..Max(seqs)
After(seqs, cursor) == {s \in seqs : s > cursor}

shouldEnqueueCompaction == thread.next - thread.cursor - 1 >= Window + Batch

-----------------------------------------------------------------------------
(* Messages and the run *)

(* A message of the user, and its run if none goes on. *)
sendMessage ==
  /\ thread.next < MaxSeq
  /\ thread' = [thread EXCEPT !.next = @ + 1]
  /\ reader' = IF reader.pc = "none" THEN [NoRun EXCEPT !.pc = "begun"] ELSE reader
  /\ UNCHANGED <<history, since, store, queued, compact, clearing, mishaps>>

(* The two reads are members of one Promise.all. *)
readThread ==
  /\ reader.pc \in {"begun", "messages"}
  /\ reader' = [reader EXCEPT !.pc = IF @ = "begun" THEN "thread" ELSE "both",
                              !.cursor = thread.cursor, !.summary = thread.summary]
  /\ UNCHANGED <<history, thread, since, store, queued, compact, clearing, mishaps>>
readMessages ==
  /\ reader.pc \in {"begun", "thread"}
  /\ reader' = [reader EXCEPT !.pc = IF @ = "begun" THEN "messages" ELSE "both",
                              !.seqs = Latest(Messages, Legacy)]
  /\ UNCHANGED <<history, thread, since, store, queued, compact, clearing, mishaps>>

(* Mutant: the summary is used whatever follows its cursor. *)
FollowsAnyway(uncompacted) == TRUE
Follows(uncompacted) == uncompacted = {} \/ uncompacted = reader.cursor + 1..Max(uncompacted)

(* selectCompactedHistory, and the window of the executor where it keeps   *)
(* the messages: what the model is given of the conversation.              *)
historyWindowSize ==
  IF history.memory /\ reader.summary = {} /\ reader.cursor # NOTHING_COMPACTED /\ history.recalls
  THEN Window ELSE Legacy
Context ==
  LET uncompacted == After(reader.seqs, reader.cursor)
      usedLocalSummary == reader.summary # {} /\ Follows(uncompacted) IN
  IF usedLocalSummary THEN reader.summary \cup uncompacted
  ELSE Latest(reader.seqs, historyWindowSize)

(* The run is over; its reply is a message too. *)
runFinishes ==
  /\ reader.pc = "both"
  /\ reader' = NoRun
  /\ \E replies \in {0, 1} :
       /\ thread.next + replies <= MaxSeq
       /\ thread' = [thread EXCEPT !.next = @ + replies]
       /\ queued' = (queued \/ shouldEnqueueCompaction')
  /\ UNCHANGED <<history, since, store, compact, clearing, mishaps>>

-----------------------------------------------------------------------------
(* compactHistory *)

JobTo(j, pc) == compact' = [compact EXCEPT ![j].pc = pc]
JobEnds(j) == compact' = [compact EXCEPT ![j] = NoJob]

begin(j) ==
  /\ queued /\ j \in history.jobs /\ compact[j].pc = "idle"
  /\ queued' = FALSE
  /\ compact' = [compact EXCEPT ![j] =
       [NoJob EXCEPT !.pc = "read", !.cursor = thread.cursor, !.gen = thread.gen,
                     !.summary = thread.summary]]
  /\ UNCHANGED <<history, thread, since, store, reader, clearing, mishaps>>

(* A thread of before the local summaries: its first summary is made of    *)
(* what the cursor covers already. wasCleared: there is a thread.cleared.  *)
needsLocalBootstrap(j) ==
  compact[j].gen = 0 /\ compact[j].cursor # NOTHING_COMPACTED /\ compact[j].summary = {}
wasCleared == since > 0
Covered(j) == Latest({s \in Messages : s <= compact[j].cursor}, Legacy + 1)
bootstrapping(j) == needsLocalBootstrap(j) /\ Covered(j) # {}

Bootstrap(j) ==
  LET batch == Covered(j)
      whole == Cardinality(batch) <= Legacy /\ Max(batch) = compact[j].cursor
                 /\ (wasCleared \/ Min(batch) = 0) IN
  IF whole THEN {batch} ELSE {}

(* The transcript budget may cut the batch. *)
NextBatch(j) ==
  LET batch == First(After(Messages, compact[j].cursor), Batch) IN
  IF batch # {} /\ Min(batch) = compact[j].cursor + 1
  THEN {First(batch, n) : n \in 1..Cardinality(batch)} ELSE {}

(* No batch, one that does not fit, or no model: the job is over. *)
readBatch(j) ==
  /\ compact[j].pc = "read"
  /\ \/ \E batch \in IF bootstrapping(j) THEN Bootstrap(j) ELSE NextBatch(j) :
          compact' = [compact EXCEPT ![j].pc = "advance", ![j].batch = batch]
     \/ JobEnds(j)
  /\ UNCHANGED <<history, thread, since, store, queued, reader, clearing, mishaps>>

Unmoved(j) == thread.cursor = compact[j].cursor /\ thread.gen = compact[j].gen

(* The summary has been made; a compare-and-set writes it. *)
advance(j) ==
  /\ compact[j].pc = "advance"
  /\ IF Unmoved(j)
     THEN /\ thread' = [thread EXCEPT !.cursor = Max(compact[j].batch),
                                      !.summary = compact[j].summary \cup compact[j].batch]
          /\ JobTo(j, IF history.memory THEN "save" ELSE "latest")
     ELSE JobEnds(j) /\ UNCHANGED thread
  /\ UNCHANGED <<history, since, store, queued, reader, clearing, mishaps>>

save(j) ==
  /\ compact[j].pc = "save"
  /\ \/ store' = store \cup {compact[j].gen} /\ UNCHANGED mishaps
     \/ HistoryFault /\ store' \in {store, store \cup {compact[j].gen}}
  /\ JobTo(j, "latest")
  /\ UNCHANGED <<history, thread, since, queued, reader, clearing>>

(* Mutant: a summary that outlived its generation is left in the memory. *)
StaleNever(j) == FALSE
Stale(j) == history.memory /\ thread.gen # compact[j].gen

readLatest(j) ==
  /\ compact[j].pc = "latest"
  /\ IF Stale(j)
     THEN /\ compact' = [compact EXCEPT ![j].pc = "purge", ![j].more = shouldEnqueueCompaction]
          /\ UNCHANGED queued
     ELSE JobEnds(j) /\ queued' = (queued \/ shouldEnqueueCompaction)
  /\ UNCHANGED <<history, thread, since, store, reader, clearing, mishaps>>

purgeStale(j) ==
  /\ compact[j].pc = "purge"
  /\ \/ store' = store \ {compact[j].gen} /\ UNCHANGED mishaps
     \/ HistoryFault /\ UNCHANGED store
  /\ JobEnds(j) /\ queued' = (queued \/ compact[j].more)
  /\ UNCHANGED <<history, thread, since, reader, clearing>>

(* The job throws or its worker dies; the queue may bring it again. *)
jobFails(j) ==
  /\ compact[j].pc # "idle" /\ HistoryFault
  /\ JobEnds(j) /\ queued' \in {queued, TRUE}
  /\ UNCHANGED <<history, thread, since, store, reader, clearing>>

-----------------------------------------------------------------------------
(* threads.clear: one transaction, then the purge of the old generations   *)

clearThread ==
  /\ thread.gen < history.clears
  /\ since' = thread.next
  /\ thread' = [thread EXCEPT !.gen = @ + 1, !.summary = {},
                              !.cursor = IF thread.next > 0 THEN thread.next - 1 ELSE @]
  /\ reader' = NoRun
  /\ clearing' = IF history.memory THEN clearing \cup ({thread.gen - 1, thread.gen} \cap Nat)
                 ELSE clearing
  /\ UNCHANGED <<history, store, queued, compact, mishaps>>

purgeCleared(g) ==
  /\ g \in clearing
  /\ clearing' = clearing \ {g}
  /\ \/ store' = store \ {g} /\ UNCHANGED mishaps
     \/ HistoryFault /\ UNCHANGED store
  /\ UNCHANGED <<history, thread, since, queued, compact, reader>>

-----------------------------------------------------------------------------
Compacts(j) == begin(j) \/ readBatch(j) \/ advance(j) \/ save(j) \/ readLatest(j) \/ purgeStale(j)

HistoryNext ==
  \/ sendMessage \/ readThread \/ readMessages \/ runFinishes \/ clearThread
  \/ \E j \in Jobs : Compacts(j) \/ jobFails(j)
  \/ \E g \in Generations : purgeCleared(g)

(* Workers run their jobs to the end. *)
HistoryFairness == \A j \in Jobs : WF_historyVars(Compacts(j))

HistorySpec == HistoryInit /\ [][HistoryNext]_historyVars /\ HistoryFairness

-----------------------------------------------------------------------------
(* Properties *)

(* The summary covers the conversation since it was last cleared up to the *)
(* cursor, all of it and nothing that was cleared.                         *)
SummaryIsExact == thread.summary # {} => thread.summary = since..thread.cursor

(* What a run is given of the conversation has no hole ("instead of        *)
(* silently creating a gap", history-compaction.ts:60), and it is every    *)
(* message the run has read or a summary of it, unless the window shrinks  *)
(* because the memory recalled something (README, Disagreements).          *)
ContextIsWhole ==
  reader.pc = "both" =>
    Contiguous(Context) /\ (~history.recalls => reader.seqs \subseteq Context)

(* "the late save cannot leave cleared conversation data behind"           *)
(* (history-compaction.ts:382): whoever saved it, or the clear, is about   *)
(* to purge it, as long as no call has failed.                             *)
ClearedIsPurged ==
  mishaps = 0 => \A g \in store : g = thread.gen \/ g \in clearing \/
                   \E j \in Jobs : compact[j].gen = g /\ compact[j].pc \in {"latest", "purge"}

(* Neither the summary nor what a run is given has a hole, and nothing of  *)
(* what was cleared is left in the store.                                  *)
HistoryIsWhole == SummaryIsExact /\ ContextIsWhole /\ ClearedIsPurged
=============================================================================
