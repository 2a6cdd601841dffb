-------------------------- MODULE ConversationProofs --------------------------
(***************************************************************************)
(* What happens around the conversations, for any number of messages,      *)
(* jobs, clears, deliveries and bridges. Histories: the compacted history  *)
(* is whole. The invariant says what a job may assume of the thread while  *)
(* neither its cursor nor its generation has moved: that its batch then    *)
(* follows the summary it read, or is the whole conversation up to the     *)
(* cursor where there was no summary. Team chats: a message has one reply  *)
(* and one answer. The invariant says who has the row of the message to    *)
(* himself: a handler until its reservation runs out, a bridge that queues *)
(* it where nothing fails, a bridge that is about to post the reply. Bots: *)
(* an outcome is told once, and not beside a result of the run itself. The *)
(* invariant says that whoever delivers one has read a request whose run   *)
(* has ended without a result, and that a run that has ended sends none.   *)
(***************************************************************************)
EXTENDS MCConversations, FiniteSetTheorems, WellFoundedInduction, TLAPS

-----------------------------------------------------------------------------
(* Intervals *)

LEMMA EndsOfInterval ==
  ASSUME NEW a \in Int, NEW b \in Int, a <= b
  PROVE  Min(a..b) = a /\ Max(a..b) = b
BY DEF Min, Max

LEMMA GreatestIsMax ==
  ASSUME NEW S, NEW b \in S, b \in Int, \A t \in S : b >= t /\ t \in Int
  PROVE  Max(S) = b
<1>1. \E x \in S : \A y \in S : x >= y
  OBVIOUS
<1>2. Max(S) \in S /\ \A y \in S : Max(S) >= y
  BY <1>1, Zenon DEF Max
<1>3. Max(S) \in Int /\ b >= Max(S) /\ Max(S) >= b
  BY <1>2, Zenon
<1> HIDE DEF Max
<1> QED BY <1>3

LEMMA LatestOfInterval ==
  ASSUME NEW a \in Int, NEW b \in Int, NEW n \in Nat
  PROVE  Latest(a..b, n) = {s \in a..b : b - s < n}
<1>1. ASSUME NEW s \in a..b
      PROVE  Cardinality({t \in a..b : t > s}) = b - s
  <2>1. {t \in a..b : t > s} = s + 1..b
    OBVIOUS
  <2>2. Cardinality(s + 1..b) = IF s + 1 > b THEN 0 ELSE b - (s + 1) + 1
    BY FS_Interval
  <2>3. Cardinality({t \in a..b : t > s}) = Cardinality(s + 1..b)
    BY <2>1, Zenon
  <2>4. Cardinality(s + 1..b) = b - s
    BY <2>2
  <2> QED BY <2>3, <2>4, Zenon
<1> QED BY <1>1 DEF Latest

LEMMA FirstOfInterval ==
  ASSUME NEW a \in Int, NEW b \in Int, NEW n \in Nat
  PROVE  First(a..b, n) = {s \in a..b : s - a < n}
<1>1. ASSUME NEW s \in a..b
      PROVE  Cardinality({t \in a..b : t < s}) = s - a
  <2>1. {t \in a..b : t < s} = a..s - 1
    OBVIOUS
  <2>2. Cardinality(a..s - 1) = IF a > s - 1 THEN 0 ELSE (s - 1) - a + 1
    BY FS_Interval
  <2>3. Cardinality({t \in a..b : t < s}) = Cardinality(a..s - 1)
    BY <2>1, Zenon
  <2>4. Cardinality(a..s - 1) = s - a
    BY <2>2
  <2> QED BY <2>3, <2>4, Zenon
<1> QED BY <1>1 DEF First

(* The last and the first of an interval are intervals. *)
LEMMA LatestIsInterval ==
  ASSUME NEW a \in Int, NEW b \in Int, NEW n \in Nat
  PROVE  \E c \in Int : a <= c /\ Latest(a..b, n) = c..b /\ (a < c => b - c = n - 1)
<1>1. CASE b - a < n
  <2>1. {s \in a..b : b - s < n} = a..b
    BY <1>1
  <2>2. Latest(a..b, n) = a..b
    BY <2>1, LatestOfInterval, Zenon
  <2> QED BY <2>2
<1>2. CASE ~(b - a < n)
  <2>1. b - n + 1 \in Int /\ a <= b - n + 1 /\ {s \in a..b : b - s < n} = b - n + 1..b
    BY <1>2
  <2>2. Latest(a..b, n) = b - n + 1..b
    BY <2>1, LatestOfInterval, Zenon
  <2> QED BY <2>1, <2>2
<1> QED BY <1>1, <1>2

LEMMA FirstIsInterval ==
  ASSUME NEW a \in Int, NEW b \in Int, NEW n \in Nat \ {0}, a <= b
  PROVE  \E c \in a..b : First(a..b, n) = a..c
<1>1. CASE b - a < n
  <2>1. {s \in a..b : s - a < n} = a..b
    BY <1>1
  <2>2. First(a..b, n) = a..b
    BY <2>1, FirstOfInterval, Zenon
  <2> QED BY <2>2
<1>2. CASE ~(b - a < n)
  <2>1. a + n - 1 \in a..b /\ {s \in a..b : s - a < n} = a..a + n - 1
    BY <1>2
  <2>2. First(a..b, n) = a..a + n - 1
    BY <2>1, FirstOfInterval, Zenon
  <2> QED BY <2>1, <2>2
<1> QED BY <1>1, <1>2

(* No more than the limit were found: they are all. *)
LEMMA FewAreAll ==
  ASSUME NEW a \in Int, NEW b \in Int, NEW n \in Nat, a <= b,
         Cardinality(Latest(a..b, n + 1)) <= n
  PROVE  Latest(a..b, n + 1) = a..b
<1> DEFINE m == n + 1
<1>m. m \in Nat
  OBVIOUS
<1> HIDE DEF m
<1>c. \E c \in Int : a <= c /\ Latest(a..b, m) = c..b /\ (a < c => b - c = m - 1)
  BY ONLY a \in Int, b \in Int, <1>m, LatestIsInterval, Zenon
<1>1. PICK c \in Int : a <= c /\ Latest(a..b, n + 1) = c..b /\ (a < c => b - c = (n + 1) - 1)
  BY <1>c, Zenon DEF m
<1>2. Cardinality(c..b) = IF c > b THEN 0 ELSE b - c + 1
  BY FS_Interval
<1>3. ~(a < c)
  BY <1>1, <1>2
<1> QED BY <1>1, <1>3

LEMMA LatestTwice ==
  ASSUME NEW a \in Int, NEW b \in Int, NEW n \in Nat
  PROVE  Latest(Latest(a..b, n), n) = Latest(a..b, n)
<1>1. PICK c \in Int : a <= c /\ Latest(a..b, n) = c..b /\ (a < c => b - c = n - 1)
  BY LatestIsInterval
<1>2. Latest(c..b, n) = {s \in c..b : b - s < n}
  BY LatestOfInterval
<1>3. \A s \in c..b : b - s < n
  <2>1. c..b = {s \in a..b : b - s < n}
    BY <1>1, LatestOfInterval
  <2> QED BY <2>1
<1> QED BY <1>1, <1>2, <1>3

LEMMA IntervalIsContiguous ==
  ASSUME NEW a \in Int, NEW b \in Int
  PROVE  Contiguous(a..b)
<1>1. CASE a <= b
  BY <1>1, EndsOfInterval DEF Contiguous
<1>2. CASE a > b
  BY <1>2 DEF Contiguous
<1> QED BY <1>1, <1>2

-----------------------------------------------------------------------------
(* The inductive invariant *)

ThreadRow ==
  [next : 0..MaxSeq, cursor : NOTHING_COMPACTED..MaxSeq, gen : Generations, summary : SUBSET Seqs]
CompactJob ==
  [pc : {"idle", "read", "advance", "save", "latest", "purge"},
   cursor : NOTHING_COMPACTED..MaxSeq, gen : Generations, summary : SUBSET Seqs,
   batch : SUBSET Seqs, more : BOOLEAN]
HistoryRun ==
  [pc : {"none", "begun", "thread", "messages", "both"}, cursor : NOTHING_COMPACTED..MaxSeq,
   summary : SUBSET Seqs, seqs : SUBSET Seqs]
HistoryTyped ==
  /\ history \in Threads /\ thread \in ThreadRow /\ since \in 0..MaxSeq
  /\ store \in SUBSET Generations /\ queued \in BOOLEAN /\ compact \in [Jobs -> CompactJob]
  /\ reader \in HistoryRun /\ clearing \in SUBSET Generations /\ mishaps \in 0..history.faults

(* The thread by itself. After a clear the summary starts anew. *)
ThreadFits ==
  /\ thread.cursor < thread.next /\ since <= thread.next /\ thread.gen <= history.clears
  /\ thread.gen > 0 /\ thread.summary = {} => since = thread.cursor + 1

(* A job c, against the thread h as it is now and its first message f. *)
SameThread(c, h) == c.cursor = h.cursor /\ c.gen = h.gen
JobFits(c, h) ==
  c.pc # "idle" =>
    /\ c.cursor <= h.cursor /\ c.gen <= h.gen
    /\ SameThread(c, h) => c.summary = h.summary \/ (c.summary = {} /\ h.gen = 0)
StartOf(c, f) == IF c.summary = {} THEN f ELSE c.cursor + 1
BatchFits(c, h, f) ==
  c.pc = "advance" /\ SameThread(c, h) =>
    \E m \in Seqs : /\ c.batch = StartOf(c, f)..m /\ StartOf(c, f) <= m
                    /\ h.cursor <= m /\ m < h.next
                    /\ m = h.cursor => h.gen = 0
JobsFit == \A j \in Jobs : JobFits(compact[j], thread) /\ BatchFits(compact[j], thread, since)

(* What a run has read is of the conversation as it was not cleared since. *)
ReaderFits ==
  /\ reader.pc \in {"thread", "both"} /\ reader.summary # {} =>
       reader.summary = since..reader.cursor
  /\ reader.pc \in {"messages", "both"} =>
       \E b \in NOTHING_COMPACTED..MaxSeq - 1 : reader.seqs = Latest(since..b, Legacy)

NoMemory ==
  ~history.memory => store = {} /\ clearing = {} /\ \A j \in Jobs : compact[j].pc # "save"

HistoryInv ==
  /\ HistoryTyped /\ ThreadFits /\ SummaryIsExact /\ JobsFit /\ ReaderFits /\ NoMemory
  /\ ClearedIsPurged

-----------------------------------------------------------------------------
(* What stays true of what a step leaves alone *)

LEMMA GenerationsAreBounded ==
  ASSUME HistoryTyped, NEW g \in Nat, g <= history.clears
  PROVE  g \in Generations
<1>1. history.clears \in Nat
  BY HistoryAssumption DEF HistoryTyped
<1> QED BY <1>1 DEF HistoryTyped, Generations

LEMMA GenerationsAreNat == Generations \subseteq Nat
BY HistoryAssumption DEF Generations

LEMMA ThreadStays ==
  ASSUME ThreadFits, SummaryIsExact, UNCHANGED <<history, thread, since>>
  PROVE  ThreadFits' /\ SummaryIsExact'
BY DEF ThreadFits, SummaryIsExact

(* A job may go on, but not to its compare-and-set, or end. *)
LEMMA JobsStay ==
  ASSUME HistoryTyped, HistoryTyped', JobsFit,
         since' = since, thread'.cursor = thread.cursor, thread'.gen = thread.gen,
         thread'.summary = thread.summary, thread'.next >= thread.next,
         \A i \in Jobs :
           \/ compact'[i] = compact[i]
           \/ compact'[i].pc = "idle"
           \/ /\ compact[i].pc # "idle" /\ compact'[i].pc # "advance"
              /\ compact'[i].cursor = compact[i].cursor /\ compact'[i].gen = compact[i].gen
              /\ compact'[i].summary = compact[i].summary
  PROVE  JobsFit'
<1> SUFFICES ASSUME NEW i \in Jobs
             PROVE  JobFits(compact'[i], thread') /\ BatchFits(compact'[i], thread', since)
  BY DEF JobsFit
<1> DEFINE c == compact[i]
           d == compact'[i]
<1>1. JobFits(c, thread) /\ BatchFits(c, thread, since)
  BY DEF JobsFit
<1>2. thread.next \in Int /\ thread'.next \in Int /\ Seqs \subseteq Int
  BY HistoryAssumption DEF HistoryTyped, ThreadRow, Seqs
<1>5. \/ d = c \/ d.pc = "idle"
      \/ /\ c.pc # "idle" /\ d.pc # "advance" /\ d.cursor = c.cursor
         /\ d.gen = c.gen /\ d.summary = c.summary
  BY Zenon
<1> HIDE DEF c, d
<1>3. JobFits(d, thread')
  BY <1>1, <1>5 DEF JobFits, SameThread
<1>4. BatchFits(d, thread', since)
  <2>1. CASE d = c
    BY <1>1, <1>2, <2>1 DEF BatchFits, SameThread
  <2>2. CASE d # c
    BY <1>5, <2>2 DEF BatchFits
  <2> QED BY <2>1, <2>2
<1> QED BY <1>3, <1>4 DEF c, d

LEMMA ReaderStays ==
  ASSUME ReaderFits, UNCHANGED <<since, reader>>
  PROVE  ReaderFits'
BY DEF ReaderFits, Latest

(* Nothing is forgotten of what is to be purged. *)
LEMMA PurgedStays ==
  ASSUME ClearedIsPurged, mishaps' = mishaps, store' \subseteq store, clearing \subseteq clearing',
         thread'.gen = thread.gen,
         \A i \in Jobs : compact[i].pc \in {"latest", "purge"} =>
           compact'[i].pc \in {"latest", "purge"} /\ compact'[i].gen = compact[i].gen
  PROVE  ClearedIsPurged'
BY DEF ClearedIsPurged

LEMMA FaultExcuses ==
  ASSUME HistoryTyped, HistoryFault
  PROVE  ClearedIsPurged' /\ mishaps' \in 0..history.faults
<1>1. mishaps \in Nat /\ history.faults \in Nat
  BY HistoryAssumption DEF HistoryTyped
<1> QED BY <1>1 DEF HistoryFault, ClearedIsPurged

-----------------------------------------------------------------------------
(* Messages and the run *)

LEMMA TypedParts ==
  ASSUME HistoryTyped
  PROVE  /\ thread.next \in Nat /\ thread.next <= MaxSeq /\ thread.cursor \in Int
         /\ thread.cursor >= -1 /\ thread.cursor <= MaxSeq
         /\ thread.gen \in Nat /\ since \in Nat /\ MaxSeq \in Nat
         /\ \A j \in Jobs : compact[j].gen \in Nat /\ compact[j].cursor \in Int
<1>1. MaxSeq \in Nat
  BY HistoryAssumption
<1>2. thread \in ThreadRow /\ since \in 0..MaxSeq /\ compact \in [Jobs -> CompactJob]
  BY DEF HistoryTyped
<1>3. /\ thread.next \in 0..MaxSeq /\ thread.cursor \in -1..MaxSeq /\ thread.gen \in Nat
  BY <1>2, GenerationsAreNat DEF ThreadRow, NOTHING_COMPACTED
<1>4. \A j \in Jobs : compact[j].gen \in Nat /\ compact[j].cursor \in -1..MaxSeq
  BY <1>2, GenerationsAreNat DEF CompactJob, NOTHING_COMPACTED
<1> QED BY <1>1, <1>2, <1>3, <1>4

LEMMA SendKeeps ==
  ASSUME HistoryInv, sendMessage
  PROVE  HistoryInv'
<1> USE DEF HistoryInv
<1>1. /\ thread.next < MaxSeq /\ thread' = [thread EXCEPT !.next = @ + 1]
      /\ reader' = IF reader.pc = "none" THEN [NoRun EXCEPT !.pc = "begun"] ELSE reader
      /\ UNCHANGED <<history, since, store, queued, compact, clearing, mishaps>>
  BY DEF sendMessage
<1>2. /\ thread' \in ThreadRow /\ thread'.next = thread.next + 1 /\ thread'.cursor = thread.cursor
      /\ thread'.gen = thread.gen /\ thread'.summary = thread.summary
  BY <1>1, TypedParts DEF HistoryTyped, ThreadRow
<1>3. reader' \in HistoryRun
  BY <1>1, TypedParts DEF HistoryTyped, HistoryRun, NoRun, NOTHING_COMPACTED
<1>4. HistoryTyped'
  BY <1>1, <1>2, <1>3 DEF HistoryTyped
<1>5. ThreadFits' /\ SummaryIsExact'
  BY <1>1, <1>2, TypedParts DEF ThreadFits, SummaryIsExact
<1>6. JobsFit'
  BY <1>1, <1>2, <1>4, TypedParts, JobsStay
<1>7. ReaderFits'
  <2>1. CASE reader.pc = "none"
    BY <1>1, <2>1 DEF ReaderFits, NoRun
  <2>2. CASE reader.pc # "none"
    BY <1>1, <2>2, ReaderStays
  <2> QED BY <2>1, <2>2
<1>8. NoMemory'
  BY <1>1 DEF NoMemory
<1>9. ClearedIsPurged'
  BY <1>1, <1>2, PurgedStays
<1> QED BY <1>4, <1>5, <1>6, <1>7, <1>8, <1>9

(* A step of the run that only reads. *)
LEMMA ReadsKeeps ==
  ASSUME HistoryInv, UNCHANGED <<history, thread, since, store, queued, compact, clearing, mishaps>>,
         reader' \in HistoryRun, ReaderFits'
  PROVE  HistoryInv'
<1> USE DEF HistoryInv
<1>1. HistoryTyped'
  BY DEF HistoryTyped
<1>2. ThreadFits' /\ SummaryIsExact'
  BY ThreadStays
<1>3. JobsFit'
  BY <1>1, TypedParts, JobsStay
<1>4. NoMemory'
  BY DEF NoMemory
<1>5. ClearedIsPurged'
  BY PurgedStays
<1> QED BY <1>1, <1>2, <1>3, <1>4, <1>5

LEMMA ReadThreadKeeps ==
  ASSUME HistoryInv, readThread
  PROVE  HistoryInv'
<1> USE DEF HistoryInv
<1>1. /\ reader.pc \in {"begun", "messages"}
      /\ reader' = [reader EXCEPT !.pc = IF reader.pc = "begun" THEN "thread" ELSE "both",
                                  !.cursor = thread.cursor, !.summary = thread.summary]
      /\ UNCHANGED <<history, thread, since, store, queued, compact, clearing, mishaps>>
  BY DEF readThread
<1>2. /\ reader' \in HistoryRun /\ reader'.cursor = thread.cursor /\ reader'.summary = thread.summary
      /\ reader'.seqs = reader.seqs /\ (reader'.pc = "both" => reader.pc = "messages")
      /\ reader'.pc \in {"thread", "both"}
  BY <1>1 DEF HistoryTyped, HistoryRun, ThreadRow
<1>3. ReaderFits'
  BY <1>1, <1>2 DEF ReaderFits, SummaryIsExact, Latest
<1> QED BY <1>1, <1>2, <1>3, ReadsKeeps

LEMMA LatestIsPart ==
  ASSUME NEW S, NEW n
  PROVE  Latest(S, n) \subseteq S
BY DEF Latest

LEMMA ReadMessagesKeeps ==
  ASSUME HistoryInv, readMessages
  PROVE  HistoryInv'
<1> USE DEF HistoryInv
<1>1. /\ reader.pc \in {"begun", "thread"}
      /\ reader' = [reader EXCEPT !.pc = IF reader.pc = "begun" THEN "messages" ELSE "both",
                                  !.seqs = Latest(Messages, Legacy)]
      /\ UNCHANGED <<history, thread, since, store, queued, compact, clearing, mishaps>>
  BY DEF readMessages
<1>2. Latest(Messages, Legacy) \in SUBSET Seqs
  BY LatestIsPart, TypedParts DEF Messages, Seqs
<1>3. /\ reader' \in HistoryRun /\ reader'.cursor = reader.cursor /\ reader'.summary = reader.summary
      /\ reader'.seqs = Latest(Messages, Legacy) /\ (reader'.pc = "both" => reader.pc = "thread")
      /\ reader'.pc \in {"messages", "both"}
  BY <1>1, <1>2 DEF HistoryTyped, HistoryRun
<1>4. thread.next - 1 \in NOTHING_COMPACTED..MaxSeq - 1
  BY TypedParts DEF NOTHING_COMPACTED
<1>5. ReaderFits'
  BY <1>1, <1>3, <1>4 DEF ReaderFits, Messages, Latest
<1> QED BY <1>1, <1>3, <1>5, ReadsKeeps

LEMMA RunFinishesKeeps ==
  ASSUME HistoryInv, runFinishes
  PROVE  HistoryInv'
<1> USE DEF HistoryInv
<1>1. PICK replies \in {0, 1} :
        /\ thread.next + replies <= MaxSeq
        /\ thread' = [thread EXCEPT !.next = @ + replies]
        /\ queued' = (queued \/ shouldEnqueueCompaction')
        /\ reader' = NoRun /\ UNCHANGED <<history, since, store, compact, clearing, mishaps>>
  BY DEF runFinishes
<1>2. /\ thread' \in ThreadRow /\ thread'.next = thread.next + replies
      /\ thread'.cursor = thread.cursor
      /\ thread'.gen = thread.gen /\ thread'.summary = thread.summary
  BY <1>1, TypedParts DEF HistoryTyped, ThreadRow
<1>3. reader' \in HistoryRun /\ reader'.pc = "none"
  BY <1>1, TypedParts DEF HistoryRun, NoRun, NOTHING_COMPACTED
<1>4. queued' \in BOOLEAN
  BY <1>1 DEF HistoryTyped
<1>5. HistoryTyped'
  BY <1>1, <1>2, <1>3, <1>4 DEF HistoryTyped
<1>6. ThreadFits' /\ SummaryIsExact'
  BY <1>1, <1>2, TypedParts DEF ThreadFits, SummaryIsExact
<1>7. JobsFit'
  BY <1>1, <1>2, <1>5, TypedParts, JobsStay
<1>8. ReaderFits'
  BY <1>3 DEF ReaderFits
<1>9. NoMemory'
  BY <1>1 DEF NoMemory
<1>10. ClearedIsPurged'
  BY <1>1, <1>2, PurgedStays
<1> QED BY <1>5, <1>6, <1>7, <1>8, <1>9, <1>10

-----------------------------------------------------------------------------
(* The jobs *)

LEMMA JobUpdate ==
  ASSUME HistoryTyped, NEW j \in Jobs, NEW d \in CompactJob, compact' = [compact EXCEPT ![j] = d]
  PROVE  /\ compact' \in [Jobs -> CompactJob] /\ compact'[j] = d
         /\ \A i \in Jobs : i # j => compact'[i] = compact[i]
BY DEF HistoryTyped

LEMMA NoJobIsJob == HistoryTyped => NoJob \in CompactJob
<1> SUFFICES ASSUME HistoryTyped PROVE NoJob \in CompactJob
  OBVIOUS
<1>1. 0 \in Generations
  BY HistoryAssumption, GenerationsAreBounded DEF HistoryTyped
<1>2. NOTHING_COMPACTED \in NOTHING_COMPACTED..MaxSeq
  BY HistoryAssumption DEF NOTHING_COMPACTED
<1> QED BY <1>1, <1>2 DEF NoJob, CompactJob

(* A job that goes on to pc, or ends: nobody's place in the thread changes. *)
LEMMA JobGoesOn ==
  ASSUME HistoryInv, NEW j \in Jobs, compact[j].pc # "idle",
         \/ compact' = [compact EXCEPT ![j] = NoJob]
         \/ \E pc \in {"save", "latest", "purge"}, more \in BOOLEAN :
              compact' = [compact EXCEPT ![j] = [compact[j] EXCEPT !.pc = pc, !.more = more]]
  PROVE  /\ compact' \in [Jobs -> CompactJob]
         /\ \A i \in Jobs :
              \/ compact'[i] = compact[i]
              \/ compact'[i].pc = "idle"
              \/ /\ compact[i].pc # "idle" /\ compact'[i].pc # "advance"
                 /\ compact'[i].cursor = compact[i].cursor /\ compact'[i].gen = compact[i].gen
                 /\ compact'[i].summary = compact[i].summary
<1>1. CASE compact' = [compact EXCEPT ![j] = NoJob]
  <2>1. NoJob \in CompactJob /\ NoJob.pc = "idle"
    BY NoJobIsJob DEF HistoryInv, NoJob
  <2> QED BY <1>1, <2>1, JobUpdate DEF HistoryInv
<1>2. ASSUME NEW pc \in {"save", "latest", "purge"}, NEW more \in BOOLEAN,
             compact' = [compact EXCEPT ![j] = [compact[j] EXCEPT !.pc = pc, !.more = more]]
      PROVE  /\ compact' \in [Jobs -> CompactJob]
             /\ compact'[j].pc # "advance" /\ compact'[j].cursor = compact[j].cursor
             /\ compact'[j].gen = compact[j].gen /\ compact'[j].summary = compact[j].summary
             /\ \A i \in Jobs : i # j => compact'[i] = compact[i]
  <2> DEFINE d == [compact[j] EXCEPT !.pc = pc, !.more = more]
  <2>1. /\ d \in CompactJob /\ d.pc # "advance" /\ d.cursor = compact[j].cursor
        /\ d.gen = compact[j].gen /\ d.summary = compact[j].summary
    BY DEF HistoryInv, HistoryTyped, CompactJob
  <2> HIDE DEF d
  <2>2. compact' = [compact EXCEPT ![j] = d]
    BY <1>2 DEF d
  <2> QED BY <2>1, <2>2, JobUpdate DEF HistoryInv
<1>3. ASSUME NEW pc \in {"save", "latest", "purge"}, NEW more \in BOOLEAN,
             compact' = [compact EXCEPT ![j] = [compact[j] EXCEPT !.pc = pc, !.more = more]],
             NEW i \in Jobs
      PROVE  \/ compact'[i] = compact[i]
             \/ compact'[i].pc = "idle"
             \/ /\ compact[i].pc # "idle" /\ compact'[i].pc # "advance"
                /\ compact'[i].cursor = compact[i].cursor /\ compact'[i].gen = compact[i].gen
                /\ compact'[i].summary = compact[i].summary
  BY <1>2, <1>3
<1> QED BY <1>1, <1>2, <1>3

LEMMA JobEndsFits ==
  ASSUME HistoryInv, NEW j \in Jobs, compact[j].pc # "idle",
         \/ compact' = [compact EXCEPT ![j] = NoJob]
         \/ \E pc \in {"save", "latest", "purge"}, more \in BOOLEAN :
              compact' = [compact EXCEPT ![j] = [compact[j] EXCEPT !.pc = pc, !.more = more]],
         UNCHANGED <<thread, since>>
  PROVE  compact' \in [Jobs -> CompactJob] /\ (HistoryTyped' => JobsFit')
<1>1. /\ compact' \in [Jobs -> CompactJob]
      /\ \A i \in Jobs :
           \/ compact'[i] = compact[i]
           \/ compact'[i].pc = "idle"
           \/ /\ compact[i].pc # "idle" /\ compact'[i].pc # "advance"
              /\ compact'[i].cursor = compact[i].cursor /\ compact'[i].gen = compact[i].gen
              /\ compact'[i].summary = compact[i].summary
  BY JobGoesOn
<1>2. thread' = thread /\ since' = since /\ thread'.next >= thread.next
  <2>1. thread' = thread /\ since' = since
    OBVIOUS
  <2>2. thread.next \in Nat
    BY TypedParts DEF HistoryInv
  <2>3. thread.next >= thread.next
    BY ONLY <2>2
  <2> QED BY <2>1, <2>3
<1>3. ASSUME HistoryTyped' PROVE JobsFit'
  BY <1>1, <1>2, <1>3, JobsStay DEF HistoryInv
<1> QED BY <1>1, <1>3

(* What a job's step leaves to show when it has not written the thread. *)
LEMMA JobStepKeeps ==
  ASSUME HistoryInv, UNCHANGED <<history, thread, since, reader>>,
         compact' \in [Jobs -> CompactJob], store' \in SUBSET Generations, queued' \in BOOLEAN,
         clearing' \in SUBSET Generations, mishaps' \in 0..history.faults,
         HistoryTyped' => JobsFit', NoMemory', ClearedIsPurged'
  PROVE  HistoryInv'
<1>1. HistoryTyped'
  BY DEF HistoryInv, HistoryTyped
<1>2. ThreadFits' /\ SummaryIsExact' /\ ReaderFits'
  BY ThreadStays, ReaderStays DEF HistoryInv
<1> QED BY <1>1, <1>2 DEF HistoryInv

LEMMA BeginKeeps ==
  ASSUME HistoryInv, NEW j \in Jobs, begin(j)
  PROVE  HistoryInv'
<1> USE DEF HistoryInv
<1> DEFINE d == [NoJob EXCEPT !.pc = "read", !.cursor = thread.cursor, !.gen = thread.gen,
                              !.summary = thread.summary]
<1>1. /\ compact[j].pc = "idle" /\ queued' = FALSE /\ compact' = [compact EXCEPT ![j] = d]
      /\ UNCHANGED <<history, thread, since, store, reader, clearing, mishaps>>
  BY DEF begin
<1>2. /\ d \in CompactJob /\ d.pc = "read" /\ d.cursor = thread.cursor /\ d.gen = thread.gen
      /\ d.summary = thread.summary
  BY NoJobIsJob DEF HistoryTyped, ThreadRow, CompactJob, NoJob
<1> HIDE DEF d
<1>3. /\ compact' \in [Jobs -> CompactJob] /\ compact'[j] = d
      /\ \A i \in Jobs : i # j => compact'[i] = compact[i]
  BY <1>1, <1>2, JobUpdate
<1>4. JobFits(d, thread) /\ BatchFits(d, thread, since)
  <2>1. JobFits(d, thread)
    BY <1>2, TypedParts DEF JobFits
  <2>2. BatchFits(d, thread, since)
    BY <1>2 DEF BatchFits
  <2> QED BY <2>1, <2>2
<1>5. JobsFit'
  BY <1>1, <1>3, <1>4 DEF JobsFit
<1>6. NoMemory'
  BY <1>1, <1>2, <1>3 DEF NoMemory
<1>7. ClearedIsPurged'
  <2>1. \A i \in Jobs : compact[i].pc \in {"latest", "purge"} =>
          compact'[i].pc \in {"latest", "purge"} /\ compact'[i].gen = compact[i].gen
    BY <1>1, <1>3
  <2> QED BY <1>1, <2>1, PurgedStays
<1> QED BY <1>1, <1>3, <1>5, <1>6, <1>7, JobStepKeeps DEF HistoryTyped

(* The first batch of a legacy thread is all that its cursor covers. *)
LEMMA BootstrapIsAll ==
  ASSUME HistoryInv, NEW j \in Jobs, compact[j].pc # "idle", bootstrapping(j),
         NEW batch \in Bootstrap(j)
  PROVE  /\ compact[j].summary = {} /\ compact[j].gen = 0
         /\ batch = since..compact[j].cursor /\ since <= compact[j].cursor
         /\ compact[j].cursor < thread.next
<1> USE DEF HistoryInv
<1> DEFINE c == compact[j].cursor
<1>1. c \in Int /\ since \in Nat /\ thread.next \in Nat /\ c < thread.next
  BY TypedParts DEF JobsFit, JobFits, ThreadFits
<1>2. {s \in Messages : s <= c} = since..c
  BY <1>1 DEF Messages
<1>3. Covered(j) = Latest(since..c, Legacy + 1)
  BY <1>2 DEF Covered
<1>4. Covered(j) # {} /\ compact[j].summary = {} /\ compact[j].gen = 0
  BY DEF bootstrapping, needsLocalBootstrap
<1>5. batch = Covered(j) /\ Cardinality(batch) <= Legacy
  BY DEF Bootstrap
<1> HIDE DEF c
<1>6. since <= c
  <2>1. Latest(since..c, Legacy + 1) \subseteq since..c
    BY LatestIsPart
  <2> QED BY <1>1, <1>3, <1>4, <2>1
<1>7. Latest(since..c, Legacy + 1) = since..c
  BY <1>1, <1>3, <1>5, <1>6, FewAreAll, HistoryAssumption
<1> QED BY <1>1, <1>3, <1>4, <1>5, <1>6, <1>7 DEF c

(* Any other batch follows its job's cursor without a hole. *)
LEMMA NextBatchFollows ==
  ASSUME HistoryInv, NEW j \in Jobs, compact[j].pc # "idle", NEW batch \in NextBatch(j)
  PROVE  /\ since <= compact[j].cursor + 1
         /\ \E m \in Int : /\ batch = compact[j].cursor + 1..m
                           /\ compact[j].cursor < m /\ m < thread.next
<1> USE DEF HistoryInv
<1> DEFINE c == compact[j].cursor
           lo == IF since > c THEN since ELSE c + 1
           hi == thread.next - 1
           some == First(After(Messages, c), Batch)
<1>1. c \in Int /\ since \in Nat /\ thread.next \in Nat
  BY TypedParts
<1>2. lo \in Int /\ hi \in Int /\ since <= lo
  BY <1>1
<1>3. After(Messages, c) = lo..hi
  BY <1>1 DEF After, Messages
<1>4. some # {} /\ Min(some) = c + 1 /\ batch \in {First(some, n) : n \in 1..Cardinality(some)}
  BY DEF NextBatch
<1> HIDE DEF c, lo, hi
<1>5. some = First(lo..hi, Batch)
  BY <1>3
<1> HIDE DEF some
<1>6. lo <= hi
  <2>1. some \subseteq lo..hi
    BY <1>5 DEF First
  <2>2. PICK s \in lo..hi : TRUE
    BY <1>4, <2>1
  <2> QED BY <1>2, <2>2
<1>7. PICK e \in lo..hi : some = lo..e
  BY <1>2, <1>5, <1>6, FirstIsInterval, HistoryAssumption
<1>a. lo <= e /\ e \in Int
  BY <1>2, <1>7
<1>b. Min(lo..e) = lo
  BY <1>2, <1>a, EndsOfInterval
<1>8. lo = c + 1 /\ lo <= e /\ e \in Int
  BY <1>4, <1>7, <1>a, <1>b, Zenon
<1>9. PICK n \in 1..Cardinality(some) : batch = First(some, n)
  BY <1>4
<1>10. Cardinality(some) = e - lo + 1
  BY <1>2, <1>7, <1>8, FS_Interval
<1>11. n \in Nat \ {0}
  BY <1>2, <1>8, <1>9, <1>10
<1>12. PICK m \in lo..e : batch = lo..m
  <2>1. batch = First(lo..e, n)
    BY <1>7, <1>9, Zenon
  <2>2. lo \in Int /\ e \in Int /\ lo <= e
    BY <1>2, <1>8
  <2>3. \E m \in lo..e : First(lo..e, n) = lo..m
    BY <1>11, <2>2, FirstIsInterval
  <2> QED BY <2>1, <2>3, Zenon
<1>13. /\ since <= c + 1
       /\ m \in Int /\ batch = c + 1..m /\ c < m /\ m < thread.next
  BY <1>1, <1>2, <1>7, <1>8, <1>12 DEF hi
<1> QED BY <1>13 DEF c

LEMMA BatchesFit ==
  ASSUME HistoryInv, NEW j \in Jobs, compact[j].pc = "read",
         NEW batch \in IF bootstrapping(j) THEN Bootstrap(j) ELSE NextBatch(j)
  PROVE  /\ batch \in SUBSET Seqs
         /\ SameThread(compact[j], thread) =>
              \E m \in Seqs : /\ batch = StartOf(compact[j], since)..m
                              /\ StartOf(compact[j], since) <= m
                              /\ thread.cursor <= m /\ m < thread.next
                              /\ m = thread.cursor => thread.gen = 0
<1> USE DEF HistoryInv
<1> DEFINE c == compact[j]
<1>1. /\ c.cursor \in Int /\ c.gen \in Nat /\ since \in Nat /\ thread.next \in Nat /\ thread.next <= MaxSeq
      /\ MaxSeq \in Nat /\ Seqs = 0..MaxSeq - 1 /\ c.cursor >= -1
  BY TypedParts DEF Seqs, HistoryTyped, CompactJob, NOTHING_COMPACTED
<1>2. CASE bootstrapping(j)
  <2>1. /\ c.summary = {} /\ c.gen = 0 /\ batch = since..c.cursor /\ since <= c.cursor
        /\ c.cursor < thread.next
    BY <1>2, BootstrapIsAll
  <2>2. c.cursor \in Seqs /\ batch \in SUBSET Seqs
    BY <1>1, <2>1
  <2>3. StartOf(c, since) = since
    BY <2>1 DEF StartOf
  <2> HIDE DEF c
  <2>4. SameThread(c, thread) =>
          /\ batch = StartOf(c, since)..c.cursor /\ StartOf(c, since) <= c.cursor
          /\ thread.cursor <= c.cursor /\ thread.gen = 0
    BY <1>1, <2>1, <2>3 DEF SameThread
  <2> QED BY <2>1, <2>2, <2>4 DEF c
<1>3. CASE ~bootstrapping(j)
  <2>1. /\ since <= c.cursor + 1
        /\ \E m \in Int : batch = c.cursor + 1..m /\ c.cursor < m /\ m < thread.next
    BY <1>3, NextBatchFollows
  <2>2. PICK m \in Int : batch = c.cursor + 1..m /\ c.cursor < m /\ m < thread.next
    BY <2>1
  <2>3. m \in Seqs /\ batch \in SUBSET Seqs
    BY <1>1, <2>2
  <2>4. ASSUME SameThread(c, thread), c.summary = {} PROVE since = c.cursor + 1
    <3>1. CASE thread.gen # 0
      <4>1. thread.gen > 0 /\ thread.summary = {}
        BY <2>4, <3>1, TypedParts DEF JobsFit, JobFits
      <4> QED BY <2>4, <4>1 DEF ThreadFits, SameThread
    <3>2. CASE thread.gen = 0 /\ c.cursor = NOTHING_COMPACTED
      BY <1>1, <2>1, <3>2 DEF NOTHING_COMPACTED
    <3>3. CASE thread.gen = 0 /\ c.cursor # NOTHING_COMPACTED
      <4>1. Covered(j) = {}
        BY <1>3, <2>4, <3>3 DEF bootstrapping, needsLocalBootstrap, SameThread
      <4>2. c.cursor < thread.next
        BY TypedParts DEF JobsFit, JobFits, ThreadFits
      <4>3. {s \in Messages : s <= c.cursor} = since..c.cursor
        BY <1>1, <4>2 DEF Messages
      <4>4. Latest(since..c.cursor, Legacy + 1) = {}
        BY <4>1, <4>3 DEF Covered
      <4>5. Latest(since..c.cursor, Legacy + 1) = {s \in since..c.cursor : c.cursor - s < Legacy + 1}
        BY <1>1, LatestOfInterval, HistoryAssumption
      <4>6. ~(since <= c.cursor)
        <5> SUFFICES ASSUME since <= c.cursor PROVE FALSE
          OBVIOUS
        <5>1. c.cursor \in {s \in since..c.cursor : c.cursor - s < Legacy + 1}
          BY <1>1, HistoryAssumption
        <5> QED BY <4>4, <4>5, <5>1
      <4> QED BY <1>1, <2>1, <4>6
    <3> QED BY <3>1, <3>2, <3>3
  <2> HIDE DEF c
  <2>5. SameThread(c, thread) =>
          /\ batch = StartOf(c, since)..m /\ StartOf(c, since) <= m
          /\ thread.cursor < m
    BY <1>1, <2>2, <2>4 DEF SameThread, StartOf
  <2> QED BY <1>1, <2>2, <2>3, <2>5, TypedParts DEF c
<1> QED BY <1>2, <1>3

LEMMA ReadBatchKeeps ==
  ASSUME HistoryInv, NEW j \in Jobs, readBatch(j)
  PROVE  HistoryInv'
<1> USE DEF HistoryInv
<1>1. /\ compact[j].pc = "read"
      /\ UNCHANGED <<history, thread, since, store, queued, reader, clearing, mishaps>>
      /\ \/ \E batch \in IF bootstrapping(j) THEN Bootstrap(j) ELSE NextBatch(j) :
              compact' = [compact EXCEPT ![j].pc = "advance", ![j].batch = batch]
         \/ compact' = [compact EXCEPT ![j] = NoJob]
  BY DEF readBatch, JobEnds
<1>2. CASE compact' = [compact EXCEPT ![j] = NoJob]
  <2>1. compact' \in [Jobs -> CompactJob] /\ (HistoryTyped' => JobsFit')
    BY <1>1, <1>2, JobEndsFits
  <2>2. compact'[j] = NoJob /\ \A i \in Jobs : i # j => compact'[i] = compact[i]
    BY <1>2 DEF HistoryTyped
  <2>3. NoMemory'
    BY <1>1, <2>2 DEF NoMemory, NoJob
  <2>4. \A i \in Jobs : compact[i].pc \in {"latest", "purge"} =>
          compact'[i].pc \in {"latest", "purge"} /\ compact'[i].gen = compact[i].gen
    BY <1>1, <2>2
  <2>5. ClearedIsPurged'
    BY <1>1, <2>4, PurgedStays
  <2> QED BY <1>1, <2>1, <2>3, <2>5, JobStepKeeps DEF HistoryTyped
<1>3. ASSUME NEW batch \in IF bootstrapping(j) THEN Bootstrap(j) ELSE NextBatch(j),
             compact' = [compact EXCEPT ![j].pc = "advance", ![j].batch = batch]
      PROVE  HistoryInv'
  <2> DEFINE c == compact[j]
             d == [compact[j] EXCEPT !.pc = "advance", !.batch = batch]
  <2>1. /\ batch \in SUBSET Seqs
        /\ SameThread(c, thread) =>
              \E m \in Seqs : /\ batch = StartOf(c, since)..m /\ StartOf(c, since) <= m
                              /\ thread.cursor <= m /\ m < thread.next
                              /\ m = thread.cursor => thread.gen = 0
    BY <1>1, BatchesFit
  <2>2. /\ d \in CompactJob /\ d.pc = "advance" /\ d.batch = batch /\ d.cursor = c.cursor
        /\ d.gen = c.gen /\ d.summary = c.summary
    BY <2>1 DEF HistoryTyped, CompactJob
  <2>3. compact' = [compact EXCEPT ![j] = d]
    BY <1>3 DEF HistoryTyped, CompactJob
  <2>4. JobFits(c, thread) /\ c.pc = "read"
    BY <1>1 DEF JobsFit
  <2> HIDE DEF c, d
  <2>5. JobFits(d, thread)
    BY <2>2, <2>4 DEF JobFits, SameThread
  <2>6. BatchFits(d, thread, since)
    BY <2>1, <2>2 DEF BatchFits, SameThread, StartOf
  <2>7. /\ compact' \in [Jobs -> CompactJob] /\ compact'[j] = d
        /\ \A i \in Jobs : i # j => compact'[i] = compact[i]
    BY <2>2, <2>3, JobUpdate
  <2>8. JobsFit'
    BY <1>1, <2>5, <2>6, <2>7 DEF JobsFit
  <2>9. NoMemory'
    BY <1>1, <2>2, <2>7 DEF NoMemory
  <2>10. \A i \in Jobs : compact[i].pc \in {"latest", "purge"} =>
           compact'[i].pc \in {"latest", "purge"} /\ compact'[i].gen = compact[i].gen
    BY <1>1, <2>7
  <2>11. ClearedIsPurged'
    BY <1>1, <2>10, PurgedStays
  <2> QED BY <1>1, <2>7, <2>8, <2>9, <2>11, JobStepKeeps DEF HistoryTyped
<1> QED BY <1>1, <1>2, <1>3

(* The compare-and-set extends the summary by the batch, or makes it, and  *)
(* whoever else had read this cursor has lost it, or is at the same        *)
(* bootstrap.                                                              *)
LEMMA BatchExtends ==
  ASSUME NEW c \in CompactJob, NEW h \in ThreadRow, NEW f \in Int, JobFits(c, h), BatchFits(c, h, f),
         SameThread(c, h), c.pc = "advance", h.summary # {} => h.summary = f..h.cursor
  PROVE  \E m \in Seqs :
           /\ Max(c.batch) = m /\ c.summary \cup c.batch = f..m
           /\ f <= m /\ h.cursor <= m /\ m < h.next
           /\ m = h.cursor => h.gen = 0
<1>1. PICK m \in Seqs : /\ c.batch = StartOf(c, f)..m /\ StartOf(c, f) <= m
                        /\ h.cursor <= m /\ m < h.next
                        /\ m = h.cursor => h.gen = 0
  BY DEF BatchFits
<1>2. m \in Int /\ h.cursor \in Int
  BY HistoryAssumption DEF Seqs, ThreadRow, NOTHING_COMPACTED
<1>3. SUFFICES Max(c.batch) = m /\ c.summary \cup c.batch = f..m /\ f <= m
  BY <1>1
<1>4. CASE c.summary = {}
  <2>1. f <= m /\ c.batch = f..m
    BY <1>1, <1>4 DEF StartOf
  <2>2. Max(f..m) = m
    BY <1>2, <2>1, EndsOfInterval
  <2> QED BY <1>4, <2>1, <2>2
<1>5. CASE c.summary # {}
  <2>1. h.cursor + 1 <= m /\ c.batch = h.cursor + 1..m
    BY <1>1, <1>5 DEF StartOf, SameThread
  <2>2. c.summary = f..h.cursor
    BY <1>5 DEF JobFits
  <2>3. f <= h.cursor
    BY <1>2, <1>5, <2>2
  <2>4. Max(h.cursor + 1..m) = m
    <3>1. PICK k \in Int : k = h.cursor + 1
      BY <1>2
    <3>2. k <= m
      BY <2>1, <3>1
    <3>3. Max(k..m) = m
      BY <1>2, <3>2, EndsOfInterval
    <3> QED
      BY <3>1, <3>3, Zenon
  <2>5. (f..h.cursor) \cup (h.cursor + 1..m) = f..m
    BY <1>2, <2>1, <2>3
  <2>6. Max(c.batch) = m
    BY <2>1, <2>4, Zenon
  <2>7. c.summary \cup c.batch = f..m
    BY <2>1, <2>2, <2>5, Zenon
  <2>8. f <= m
    BY <1>2, <2>1, <2>3
  <2> QED BY <2>6, <2>7, <2>8
<1> QED BY <1>4, <1>5

LEMMA OthersFit ==
  ASSUME NEW c \in CompactJob, NEW h \in ThreadRow, NEW k \in ThreadRow, NEW f \in Int,
         JobFits(c, h), BatchFits(c, h, f), h.summary # {} => h.summary = f..h.cursor,
         k.gen = h.gen, k.next = h.next, h.cursor <= k.cursor, k.summary = f..k.cursor,
         k.cursor = h.cursor => h.gen = 0
  PROVE  JobFits(c, k) /\ BatchFits(c, k, f)
<1>1. h.cursor \in Int /\ k.cursor \in Int /\ c.cursor \in Int
  BY HistoryAssumption DEF ThreadRow, CompactJob, NOTHING_COMPACTED
<1>2. c.pc # "idle" /\ SameThread(c, k) => SameThread(c, h) /\ k.cursor = h.cursor /\ h.gen = 0
  BY <1>1 DEF JobFits, SameThread
<1>3. JobFits(c, k)
  BY <1>1, <1>2 DEF JobFits
<1>4. BatchFits(c, k, f)
  BY <1>2 DEF BatchFits
<1> QED BY <1>3, <1>4

LEMMA AdvanceKeeps ==
  ASSUME HistoryInv, NEW j \in Jobs, advance(j)
  PROVE  HistoryInv'
<1> USE DEF HistoryInv
<1>1. compact[j].pc = "advance" /\ UNCHANGED <<history, since, store, queued, reader, clearing, mishaps>>
  BY DEF advance
<1>2. CASE ~Unmoved(j)
  <2>1. compact' = [compact EXCEPT ![j] = NoJob] /\ UNCHANGED thread
    BY <1>2 DEF advance, JobEnds
  <2>2. compact' \in [Jobs -> CompactJob] /\ (HistoryTyped' => JobsFit')
    BY <1>1, <2>1, JobEndsFits
  <2>3. compact'[j] = NoJob /\ \A i \in Jobs : i # j => compact'[i] = compact[i]
    BY <2>1 DEF HistoryTyped
  <2>4. NoMemory'
    BY <1>1, <2>3 DEF NoMemory, NoJob
  <2>5. \A i \in Jobs : compact[i].pc \in {"latest", "purge"} =>
          compact'[i].pc \in {"latest", "purge"} /\ compact'[i].gen = compact[i].gen
    BY <1>1, <2>3
  <2>6. ClearedIsPurged'
    BY <1>1, <2>1, <2>5, PurgedStays
  <2> QED BY <1>1, <2>1, <2>2, <2>4, <2>6, JobStepKeeps DEF HistoryTyped
<1>3. CASE Unmoved(j)
  <2>1. PICK m \in Seqs :
          /\ Max(compact[j].batch) = m /\ compact[j].summary \cup compact[j].batch = since..m
          /\ since <= m /\ thread.cursor <= m /\ m < thread.next
          /\ m = thread.cursor => thread.gen = 0
    <3>1. /\ compact[j] \in CompactJob /\ thread \in ThreadRow /\ since \in Int
          /\ JobFits(compact[j], thread) /\ BatchFits(compact[j], thread, since)
      BY TypedParts DEF HistoryTyped, JobsFit
    <3>2. SameThread(compact[j], thread)
      BY <1>3 DEF Unmoved, SameThread
    <3>3. thread.summary # {} => thread.summary = since..thread.cursor
      BY DEF SummaryIsExact
    <3> HIDE DEF HistoryInv
    <3> QED BY <1>1, <3>1, <3>2, <3>3, BatchExtends
  <2>2. /\ thread' = [thread EXCEPT !.cursor = m, !.summary = since..m]
        /\ compact' = [compact EXCEPT ![j].pc = IF history.memory THEN "save" ELSE "latest"]
    BY <1>3, <2>1 DEF advance, JobTo
  <2>3. m \in 0..MaxSeq /\ m \in NOTHING_COMPACTED..MaxSeq /\ since..m \in SUBSET Seqs
    BY TypedParts DEF Seqs, NOTHING_COMPACTED
  <2>4. /\ thread' \in ThreadRow /\ thread'.cursor = m /\ thread'.summary = since..m
        /\ thread'.next = thread.next /\ thread'.gen = thread.gen
    BY <2>2, <2>3 DEF HistoryTyped, ThreadRow
  <2> DEFINE c == compact[j]
             d == [compact[j] EXCEPT !.pc = IF history.memory THEN "save" ELSE "latest"]
  <2>5. /\ d \in CompactJob /\ d.pc = (IF history.memory THEN "save" ELSE "latest")
        /\ d.cursor = c.cursor /\ d.gen = c.gen /\ d.summary = c.summary
    BY DEF HistoryTyped, CompactJob
  <2>6. compact' = [compact EXCEPT ![j] = d]
    BY <2>2 DEF HistoryTyped, CompactJob
  <2>7. c.pc = "advance" /\ c \in CompactJob
    BY <1>1 DEF HistoryTyped
  <2> HIDE DEF d
  <2>8. /\ compact' \in [Jobs -> CompactJob] /\ compact'[j] = d
        /\ \A i \in Jobs : i # j => compact'[i] = compact[i]
    BY <2>5, <2>6, JobUpdate
  <2>9. \A i \in Jobs : JobFits(compact[i], thread') /\ BatchFits(compact[i], thread', since)
    <3> SUFFICES ASSUME NEW i \in Jobs
                 PROVE  JobFits(compact[i], thread') /\ BatchFits(compact[i], thread', since)
      OBVIOUS
    <3>1. compact[i] \in CompactJob /\ thread \in ThreadRow /\ since \in Int
      BY TypedParts DEF HistoryTyped
    <3>2. JobFits(compact[i], thread) /\ BatchFits(compact[i], thread, since)
      BY DEF JobsFit
    <3> QED BY <2>1, <2>4, <3>1, <3>2, OthersFit DEF SummaryIsExact
  <2>10. JobFits(d, thread') /\ BatchFits(d, thread', since)
    <3>1. JobFits(c, thread')
      BY <2>9
    <3> HIDE DEF c
    <3>2. JobFits(d, thread')
      BY <2>5, <2>7, <3>1 DEF JobFits, SameThread
    <3>3. BatchFits(d, thread', since)
      BY <2>5 DEF BatchFits
    <3> QED BY <3>2, <3>3
  <2>11. JobsFit'
    BY <1>1, <2>8, <2>9, <2>10 DEF JobsFit
  <2>12. HistoryTyped'
    BY <1>1, <2>4, <2>8 DEF HistoryTyped
  <2>13. ThreadFits' /\ SummaryIsExact'
    <3>1. since..m # {}
      BY <2>1, <2>3, TypedParts
    <3> QED BY <1>1, <2>1, <2>4, <3>1 DEF ThreadFits, SummaryIsExact
  <2>14. ReaderFits'
    BY <1>1, ReaderStays
  <2>15. NoMemory'
    BY <1>1, <2>5, <2>8 DEF NoMemory
  <2>16. \A i \in Jobs : compact[i].pc \in {"latest", "purge"} =>
           compact'[i].pc \in {"latest", "purge"} /\ compact'[i].gen = compact[i].gen
    BY <1>1, <2>8
  <2>17. ClearedIsPurged'
    BY <1>1, <2>4, <2>16, PurgedStays
  <2> QED BY <2>11, <2>12, <2>13, <2>14, <2>15, <2>17
<1> QED BY <1>2, <1>3

LEMMA SaveKeeps ==
  ASSUME HistoryInv, NEW j \in Jobs, save(j)
  PROVE  HistoryInv'
<1> USE DEF HistoryInv
<1>1. /\ compact[j].pc = "save" /\ compact' = [compact EXCEPT ![j].pc = "latest"]
      /\ UNCHANGED <<history, thread, since, queued, reader, clearing>>
      /\ \/ store' = store \cup {compact[j].gen} /\ UNCHANGED mishaps
         \/ HistoryFault /\ store' \in {store, store \cup {compact[j].gen}}
  BY DEF save, JobTo
<1>2. compact[j] \in CompactJob /\ compact[j].gen \in Generations
  BY DEF HistoryTyped, CompactJob
<1>3. compact' = [compact EXCEPT ![j] = [compact[j] EXCEPT !.pc = "latest", !.more = compact[j].more]]
  BY <1>1, <1>2 DEF CompactJob
<1>4. compact[j].more \in BOOLEAN
  BY <1>2 DEF CompactJob
<1>5. compact' \in [Jobs -> CompactJob] /\ (HistoryTyped' => JobsFit')
  <2>1. \E pc \in {"save", "latest", "purge"}, more \in BOOLEAN :
          compact' = [compact EXCEPT ![j] = [compact[j] EXCEPT !.pc = pc, !.more = more]]
    BY <1>3, <1>4
  <2> QED BY <1>1, <2>1, JobEndsFits
<1>6. /\ compact'[j].pc = "latest" /\ compact'[j].gen = compact[j].gen
      /\ \A i \in Jobs : i # j => compact'[i] = compact[i]
  BY <1>1 DEF HistoryTyped, CompactJob
<1>7. store' \in SUBSET Generations /\ store' \subseteq store \cup {compact[j].gen}
  BY <1>1, <1>2 DEF HistoryTyped
<1>8. NoMemory'
  BY <1>1, <1>6 DEF NoMemory
<1>9. ClearedIsPurged' /\ mishaps' \in 0..history.faults
  <2>1. CASE HistoryFault
    BY <2>1, FaultExcuses
  <2>2. CASE UNCHANGED mishaps
    BY <1>1, <1>6, <1>7, <2>2 DEF ClearedIsPurged, HistoryTyped
  <2> QED BY <1>1, <2>1, <2>2
<1> QED BY <1>1, <1>5, <1>7, <1>8, <1>9, JobStepKeeps DEF HistoryTyped

LEMMA ReadLatestKeeps ==
  ASSUME HistoryInv, NEW j \in Jobs, readLatest(j)
  PROVE  HistoryInv'
<1> USE DEF HistoryInv
<1>1. /\ compact[j].pc = "latest"
      /\ UNCHANGED <<history, thread, since, store, reader, clearing, mishaps>>
  BY DEF readLatest
<1>2. CASE Stale(j)
  <2>1. /\ compact' = [compact EXCEPT ![j].pc = "purge", ![j].more = shouldEnqueueCompaction]
        /\ queued' = queued
    BY <1>2 DEF readLatest
  <2>2. shouldEnqueueCompaction \in BOOLEAN
    BY DEF shouldEnqueueCompaction
  <2> HIDE DEF shouldEnqueueCompaction
  <2>3. compact' = [compact EXCEPT ![j] = [compact[j] EXCEPT !.pc = "purge",
                                                            !.more = shouldEnqueueCompaction]]
    BY <2>1 DEF HistoryTyped, CompactJob
  <2>4. \E pc \in {"save", "latest", "purge"}, more \in BOOLEAN :
          compact' = [compact EXCEPT ![j] = [compact[j] EXCEPT !.pc = pc, !.more = more]]
    BY <2>2, <2>3
  <2>5. compact' \in [Jobs -> CompactJob] /\ (HistoryTyped' => JobsFit')
    BY <1>1, <2>4, JobEndsFits
  <2>6. /\ compact'[j].pc = "purge" /\ compact'[j].gen = compact[j].gen
        /\ \A i \in Jobs : i # j => compact'[i] = compact[i]
    BY <2>1 DEF HistoryTyped, CompactJob
  <2>7. NoMemory'
    BY <1>1, <2>6 DEF NoMemory
  <2>8. \A i \in Jobs : compact[i].pc \in {"latest", "purge"} =>
          compact'[i].pc \in {"latest", "purge"} /\ compact'[i].gen = compact[i].gen
    BY <2>6
  <2>9. ClearedIsPurged'
    BY <1>1, <2>8, PurgedStays
  <2> QED BY <1>1, <2>1, <2>5, <2>7, <2>9, JobStepKeeps DEF HistoryTyped
<1>3. CASE ~Stale(j)
  <2>1. /\ compact' = [compact EXCEPT ![j] = NoJob]
        /\ queued' = (queued \/ shouldEnqueueCompaction)
    BY <1>3 DEF readLatest, JobEnds
  <2>2. compact' \in [Jobs -> CompactJob] /\ (HistoryTyped' => JobsFit')
    BY <1>1, <2>1, JobEndsFits
  <2>3. compact'[j] = NoJob /\ \A i \in Jobs : i # j => compact'[i] = compact[i]
    BY <2>1 DEF HistoryTyped
  <2>4. queued' \in BOOLEAN
    BY <2>1 DEF HistoryTyped
  <2>5. NoMemory'
    BY <1>1, <2>3 DEF NoMemory, NoJob
  <2>6. ClearedIsPurged'
    <3>1. store = {} \/ compact[j].gen = thread.gen
      BY <1>3 DEF Stale, NoMemory
    <3>2. \A i \in Jobs \ {j} : compact'[i] = compact[i]
      BY <2>3
    <3> QED BY <1>1, <3>1, <3>2 DEF ClearedIsPurged
  <2> QED BY <1>1, <2>2, <2>4, <2>5, <2>6, JobStepKeeps DEF HistoryTyped
<1> QED BY <1>2, <1>3

LEMMA PurgeStaleKeeps ==
  ASSUME HistoryInv, NEW j \in Jobs, purgeStale(j)
  PROVE  HistoryInv'
<1> USE DEF HistoryInv
<1>1. /\ compact[j].pc = "purge" /\ compact' = [compact EXCEPT ![j] = NoJob]
      /\ queued' = (queued \/ compact[j].more)
      /\ UNCHANGED <<history, thread, since, reader, clearing>>
      /\ \/ store' = store \ {compact[j].gen} /\ UNCHANGED mishaps
         \/ HistoryFault /\ UNCHANGED store
  BY DEF purgeStale, JobEnds
<1>2. compact' \in [Jobs -> CompactJob] /\ (HistoryTyped' => JobsFit')
  BY <1>1, JobEndsFits
<1>3. compact'[j] = NoJob /\ \A i \in Jobs : i # j => compact'[i] = compact[i]
  BY <1>1 DEF HistoryTyped
<1>4. queued' \in BOOLEAN /\ store' \in SUBSET Generations /\ store' \subseteq store
  BY <1>1 DEF HistoryTyped, CompactJob
<1>5. NoMemory'
  BY <1>1, <1>3, <1>4 DEF NoMemory, NoJob
<1>6. ClearedIsPurged' /\ mishaps' \in 0..history.faults
  <2>1. CASE HistoryFault
    BY <2>1, FaultExcuses
  <2>2. CASE UNCHANGED mishaps /\ store' = store \ {compact[j].gen}
    <3>1. \A i \in Jobs \ {j} : compact'[i] = compact[i]
      BY <1>3
    <3> QED BY <1>1, <2>2, <3>1 DEF ClearedIsPurged, HistoryTyped
  <2> QED BY <1>1, <2>1, <2>2
<1> QED BY <1>1, <1>2, <1>4, <1>5, <1>6, JobStepKeeps DEF HistoryTyped

LEMMA JobFailsKeeps ==
  ASSUME HistoryInv, NEW j \in Jobs, jobFails(j)
  PROVE  HistoryInv'
<1> USE DEF HistoryInv
<1>1. /\ compact[j].pc # "idle" /\ HistoryFault /\ compact' = [compact EXCEPT ![j] = NoJob]
      /\ queued' \in {queued, TRUE}
      /\ UNCHANGED <<history, thread, since, store, reader, clearing>>
  BY DEF jobFails, JobEnds
<1>2. compact' \in [Jobs -> CompactJob] /\ (HistoryTyped' => JobsFit')
  BY <1>1, JobEndsFits
<1>3. compact'[j] = NoJob /\ \A i \in Jobs : i # j => compact'[i] = compact[i]
  BY <1>1 DEF HistoryTyped
<1>4. queued' \in BOOLEAN
  BY <1>1 DEF HistoryTyped
<1>5. NoMemory'
  BY <1>1, <1>3 DEF NoMemory, NoJob
<1>6. ClearedIsPurged' /\ mishaps' \in 0..history.faults
  BY <1>1, FaultExcuses
<1> QED BY <1>1, <1>2, <1>4, <1>5, <1>6, JobStepKeeps DEF HistoryTyped

-----------------------------------------------------------------------------
(* The clear *)

(* Every job has lost the thread, and the old generations are to go. *)
LEMMA ClearKeeps ==
  ASSUME HistoryInv, clearThread
  PROVE  HistoryInv'
<1> USE DEF HistoryInv
<1> DEFINE cursor == IF thread.next > 0 THEN thread.next - 1 ELSE thread.cursor
<1>1. /\ thread.gen < history.clears /\ since' = thread.next /\ reader' = NoRun
      /\ thread' = [thread EXCEPT !.gen = thread.gen + 1, !.summary = {}, !.cursor = cursor]
      /\ clearing' = IF history.memory THEN clearing \cup ({thread.gen - 1, thread.gen} \cap Nat)
                     ELSE clearing
      /\ UNCHANGED <<history, store, queued, compact, mishaps>>
  BY DEF clearThread
<1>2. /\ thread.next \in Nat /\ thread.next <= MaxSeq /\ thread.cursor \in Int /\ thread.cursor >= -1
      /\ thread.gen \in Nat /\ thread.cursor < thread.next /\ MaxSeq \in Nat
      /\ history.clears \in Nat
  BY TypedParts, HistoryAssumption DEF ThreadFits, HistoryTyped
<1>3. /\ cursor \in NOTHING_COMPACTED..MaxSeq /\ cursor + 1 = thread.next /\ thread.cursor <= cursor
      /\ cursor \in Int
  BY <1>2 DEF NOTHING_COMPACTED
<1> HIDE DEF cursor
<1>4. thread.gen + 1 \in Generations
  BY <1>1, <1>2, GenerationsAreBounded
<1>5. /\ thread' \in ThreadRow /\ thread'.next = thread.next /\ thread'.cursor = cursor
      /\ thread'.gen = thread.gen + 1 /\ thread'.summary = {}
  BY <1>1, <1>3, <1>4 DEF HistoryTyped, ThreadRow
<1>6. reader' \in HistoryRun /\ reader'.pc = "none"
  BY <1>1, <1>2 DEF HistoryRun, NoRun, NOTHING_COMPACTED
<1>7. clearing' \in SUBSET Generations
  <2>1. ({thread.gen - 1, thread.gen} \cap Nat) \subseteq Generations
    <3> SUFFICES ASSUME NEW g \in {thread.gen - 1, thread.gen} \cap Nat PROVE g \in Generations
      OBVIOUS
    <3>1. g \in Nat /\ g <= history.clears
      BY <1>1, <1>2
    <3> QED BY <3>1, GenerationsAreBounded
  <2> QED BY <1>1, <2>1 DEF HistoryTyped
<1>8. HistoryTyped'
  BY <1>1, <1>2, <1>5, <1>6, <1>7 DEF HistoryTyped
<1>9. ThreadFits' /\ SummaryIsExact'
  BY <1>1, <1>2, <1>3, <1>5 DEF ThreadFits, SummaryIsExact
<1>10. JobsFit'
  <2> SUFFICES ASSUME NEW i \in Jobs
               PROVE  JobFits(compact[i], thread') /\ BatchFits(compact[i], thread', since')
    BY <1>1 DEF JobsFit
  <2> DEFINE c == compact[i]
  <2>1. JobFits(c, thread) /\ c.cursor \in Int /\ c.gen \in Nat
    BY TypedParts DEF JobsFit
  <2> HIDE DEF c
  <2>2. c.pc # "idle" => ~SameThread(c, thread')
    BY <1>2, <1>5, <2>1 DEF JobFits, SameThread
  <2>3. JobFits(c, thread')
    BY <1>2, <1>3, <1>5, <2>1, <2>2 DEF JobFits
  <2>4. BatchFits(c, thread', since')
    BY <2>2 DEF BatchFits
  <2> QED BY <2>3, <2>4 DEF c
<1>11. ReaderFits'
  BY <1>6 DEF ReaderFits
<1>12. NoMemory'
  BY <1>1 DEF NoMemory
<1>13. ClearedIsPurged'
  <2>1. store # {} => thread.gen \in clearing' /\ clearing \subseteq clearing'
    BY <1>1, <1>2 DEF NoMemory
  <2> QED BY <1>1, <2>1 DEF ClearedIsPurged
<1> QED BY <1>8, <1>9, <1>10, <1>11, <1>12, <1>13

LEMMA PurgeClearedKeeps ==
  ASSUME HistoryInv, NEW g \in Generations, purgeCleared(g)
  PROVE  HistoryInv'
<1> USE DEF HistoryInv
<1>1. /\ clearing' = clearing \ {g} /\ UNCHANGED <<history, thread, since, queued, compact, reader>>
      /\ \/ store' = store \ {g} /\ UNCHANGED mishaps
         \/ HistoryFault /\ UNCHANGED store
  BY DEF purgeCleared
<1>2. store' \subseteq store /\ clearing' \subseteq clearing
  BY <1>1
<1>3. HistoryTyped' => JobsFit'
  BY <1>1 DEF JobsFit
<1>4. NoMemory'
  BY <1>1, <1>2 DEF NoMemory
<1>5. ClearedIsPurged' /\ mishaps' \in 0..history.faults
  <2>1. CASE HistoryFault
    BY <2>1, FaultExcuses
  <2>2. CASE UNCHANGED mishaps /\ store' = store \ {g}
    BY <1>1, <2>2 DEF ClearedIsPurged, HistoryTyped
  <2> QED BY <1>1, <2>1, <2>2
<1> QED BY <1>1, <1>2, <1>3, <1>4, <1>5, JobStepKeeps DEF HistoryTyped

-----------------------------------------------------------------------------
(* The theorems *)

LEMMA HistoryInitHolds ==
  ASSUME HistoryInit
  PROVE  HistoryInv
<1>1. /\ history \in Threads /\ history.next \in 0..MaxSeq /\ history.cursor \in -1..MaxSeq
      /\ history.since \in 0..MaxSeq /\ history.clears \in Nat /\ history.faults \in Nat
      /\ history.cursor < history.next /\ history.since <= history.next /\ MaxSeq \in Nat
  BY HistoryAssumption DEF HistoryInit
<1>2. /\ thread = [next |-> history.next, cursor |-> history.cursor, gen |-> 0, summary |-> {}]
      /\ since = history.since /\ queued = FALSE /\ compact = [j \in Jobs |-> NoJob]
      /\ reader = NoRun /\ clearing = {} /\ mishaps = 0
      /\ store = IF history.memory /\ history.cursor >= history.since THEN {0} ELSE {}
  BY DEF HistoryInit
<1>3. 0 \in Generations
  BY <1>1 DEF Generations
<1>4. thread \in ThreadRow
  BY <1>1, <1>2, <1>3 DEF ThreadRow, NOTHING_COMPACTED
<1>5. NoJob \in CompactJob /\ NoRun \in HistoryRun
  BY <1>1, <1>3 DEF NoJob, CompactJob, NoRun, HistoryRun, NOTHING_COMPACTED
<1>6. HistoryTyped
  <2>1. store \in SUBSET Generations
    BY <1>2, <1>3
  <2>2. compact \in [Jobs -> CompactJob] /\ reader \in HistoryRun /\ queued \in BOOLEAN
    BY <1>2, <1>5
  <2>3. clearing \in SUBSET Generations /\ since \in 0..MaxSeq
    BY <1>1, <1>2
  <2>4. mishaps \in 0..history.faults
    BY <1>1, <1>2
  <2> QED BY <1>1, <1>4, <2>1, <2>2, <2>3, <2>4 DEF HistoryTyped
<1>7. ThreadFits /\ SummaryIsExact
  BY <1>1, <1>2 DEF ThreadFits, SummaryIsExact
<1>8. JobsFit
  BY <1>2 DEF JobsFit, JobFits, BatchFits, NoJob
<1>9. ReaderFits
  BY <1>2 DEF ReaderFits, NoRun
<1>10. NoMemory
  BY <1>2 DEF NoMemory, NoJob
<1>11. ClearedIsPurged
  BY <1>2 DEF ClearedIsPurged
<1> QED BY <1>6, <1>7, <1>8, <1>9, <1>10, <1>11 DEF HistoryInv

LEMMA HistoryStepKeeps ==
  ASSUME HistoryInv, [HistoryNext]_historyVars
  PROVE  HistoryInv'
<1>1. CASE HistoryNext
  BY <1>1, SendKeeps, ReadThreadKeeps, ReadMessagesKeeps, RunFinishesKeeps, ClearKeeps, BeginKeeps,
     ReadBatchKeeps, AdvanceKeeps, SaveKeeps, ReadLatestKeeps, PurgeStaleKeeps, JobFailsKeeps,
     PurgeClearedKeeps DEF HistoryNext, Compacts
<1>2. CASE UNCHANGED historyVars
  <2>1. UNCHANGED <<history, thread, since, store, queued, compact, reader, clearing, mishaps>>
    BY <1>2 DEF historyVars
  <2>2. (JobsFit /\ NoMemory /\ ClearedIsPurged)'
    BY <2>1 DEF HistoryInv, JobsFit, NoMemory, ClearedIsPurged
  <2> QED BY <2>1, <2>2, JobStepKeeps DEF HistoryInv, HistoryTyped
<1> QED BY <1>1, <1>2

LEMMA HistoryInvariant == HistorySpec => []HistoryInv
<1>1. HistoryInit => HistoryInv
  BY HistoryInitHolds
<1>2. HistoryInv /\ [HistoryNext]_historyVars => HistoryInv'
  BY HistoryStepKeeps
<1> QED BY <1>1, <1>2, PTL DEF HistorySpec

(* The thread, its jobs, its reader and the memory have their types, and a *)
(* thread is never compacted or cleared beyond its messages.               *)
THEOREM HistoryTypeCorrect == HistorySpec => []HistoryTypeOK
<1>1. HistoryInv => HistoryTypeOK
  BY HistoryAssumption DEF HistoryInv, HistoryTyped, ThreadRow, CompactJob, HistoryRun, HistoryTypeOK
<1> QED BY <1>1, HistoryInvariant, PTL

(* The context of a run: with the summary, all from the first message on;  *)
(* without it, the last of what was read.                                  *)
LEMMA ContextFollows ==
  ASSUME HistoryInv
  PROVE  ContextIsWhole
<1> SUFFICES ASSUME reader.pc = "both"
             PROVE  Contiguous(Context) /\ (~history.recalls => reader.seqs \subseteq Context)
  BY DEF ContextIsWhole
<1> USE DEF HistoryInv
<1> DEFINE cursor == reader.cursor
           rest == After(reader.seqs, cursor)
           window == historyWindowSize
<1>1. /\ since \in Int /\ cursor \in Int /\ Legacy \in Nat /\ Window \in Nat
      /\ window \in {Window, Legacy} /\ (~history.recalls => window = Legacy)
  BY TypedParts, HistoryAssumption DEF HistoryTyped, HistoryRun, NOTHING_COMPACTED, historyWindowSize
<1> HIDE DEF cursor, rest, window
<1>2. PICK b \in NOTHING_COMPACTED..MaxSeq - 1 : reader.seqs = Latest(since..b, Legacy)
  BY DEF ReaderFits
<1>3. b \in Int
  BY HistoryAssumption DEF NOTHING_COMPACTED
<1>4. PICK a \in Int : since <= a /\ Latest(since..b, Legacy) = a..b
  <2>1. since \in Int /\ Legacy \in Nat
    BY <1>1
  <2>2. \E c \in Int : /\ since <= c /\ Latest(since..b, Legacy) = c..b
                       /\ since < c => b - c = Legacy - 1
    BY <1>3, <2>1, LatestIsInterval
  <2> QED BY ONLY <2>2, Zenon
<1>5. reader.seqs = a..b
  BY <1>2, <1>4, Zenon
<1>6. CASE reader.summary # {} /\ Follows(rest)
  <2>1. Context = reader.summary \cup rest
    BY <1>6 DEF Context, rest, cursor
  <2>2. reader.summary = since..cursor
    BY <1>6 DEF ReaderFits, cursor
  <2>3. rest = {s \in a..b : s > cursor}
    BY <1>5 DEF After, rest
  <2>4. reader.seqs \subseteq Context
    BY <1>1, <1>3, <1>4, <1>5, <2>1, <2>2, <2>3
  <2>5. CASE rest = {}
    <3>1. Context = since..cursor
      BY <2>1, <2>2, <2>5
    <3> QED BY <1>1, <2>4, <3>1, IntervalIsContiguous
  <2>6. CASE rest # {}
    <3>1. PICK s \in a..b : s > cursor
      BY <2>3, <2>6
    <3>2. b \in rest /\ \A t \in rest : b >= t /\ t \in Int
      <4>1. cursor \in Int /\ a \in Int /\ s \in Int
        BY <1>1, <3>1
      <4>2. b \in a..b /\ b > cursor
        BY <1>3, <3>1, <4>1
      <4> QED BY ONLY <1>3, <2>3, <4>1, <4>2
    <3>3. Max(rest) = b
      BY <1>3, <3>2, GreatestIsMax, Zenon
    <3>4. rest = cursor + 1..b
      BY <1>6, <2>6, <3>3 DEF Follows, cursor
    <3>5. since <= cursor
      BY <1>1, <1>6, <2>2
    <3>6. cursor <= b
      BY <1>1, <1>3, <3>1
    <3>7. (since..cursor) \cup (cursor + 1..b) = since..b
      BY <1>1, <1>3, <3>5, <3>6
    <3>8. Context = since..b
      BY <2>1, <2>2, <3>4, <3>7, Zenon
    <3> QED BY <1>1, <1>3, <2>4, <3>8, IntervalIsContiguous
  <2> QED BY <2>5, <2>6
<1>7. CASE ~(reader.summary # {} /\ Follows(rest))
  <2>1. Context = Latest(reader.seqs, window)
    BY <1>7 DEF Context, rest, cursor, window
  <2>2. Contiguous(Context)
    <3>1. PICK c \in Int : Latest(a..b, window) = c..b
      <4>1. window \in Nat
        BY <1>1
      <4>2. \E c \in Int : /\ a <= c /\ Latest(a..b, window) = c..b
                           /\ a < c => b - c = window - 1
        BY <1>3, <4>1, LatestIsInterval
      <4> QED BY ONLY <4>2, Zenon
    <3> QED BY <1>3, <1>5, <2>1, <3>1, IntervalIsContiguous
  <2>3. ASSUME ~history.recalls PROVE reader.seqs \subseteq Context
    <3>1. Latest(Latest(since..b, Legacy), Legacy) = Latest(since..b, Legacy)
      BY <1>1, <1>3, LatestTwice
    <3> QED BY <1>1, <1>2, <2>1, <2>3, <3>1
  <2> QED BY <2>2, <2>3
<1> QED BY <1>6, <1>7

(* The summary covers the conversation since the last clear up to the      *)
(* cursor, a run's context has no hole and nothing cleared stays in the    *)
(* memory, whatever jobs, clears, failures and reads interleave and        *)
(* whatever the sizes of the window and of the batches.                    *)
THEOREM HistoryWhole == HistorySpec => []HistoryIsWhole
<1>1. HistoryInv => HistoryIsWhole
  BY ContextFollows DEF HistoryInv, HistoryIsWhole
<1> QED BY <1>1, HistoryInvariant, PTL

-----------------------------------------------------------------------------
(* One message of a team chat: types *)

RowStatuses == Settled \cup {"absent", "deferred", "received", "observed", "queueing", "running",
                             "delivering"}
ReplyHandles == {"none", "posted", "silent", "unconfirmed"}
ChatRow ==
  [status : RowStatuses, reason : Reasons, at : Times, linked : BOOLEAN, handle : ReplyHandles]
HandStep ==
  [pc : Acting \cup {"none", "receive", "reclaim", "hold", "done", "dead"},
   wake : {"none", "find", "reserve", "deliver", "true", "false", "threw"}]
PassStep ==
  [pc : Queueing \cup Delivering \cup
          {"down", "idle", "expired", "lookup", "yield", "free", "promote", "requeue", "judge",
           "engage", "ignore", "received", "running", "retry", "retried"},
   was : {"none"} \cup Reasons \cup RowStatuses \cup ReplyHandles]

RowTyped == ext \in ChatRow /\ late \subseteq Bridges
PassesTyped ==
  /\ pass \in [Bridges -> PassStep]
  /\ \A b \in Bridges : pass[b].pc = "finish" => pass[b].was \in ReplyHandles
ChatTyped ==
  /\ chat \in Chats
  /\ RowTyped
  /\ woken \in BOOLEAN
  /\ agent \in {"none", "active", "replied", "quiet", "failed", "cancelled"}
  /\ hand \in [Deliveries -> HandStep]
  /\ PassesTyped
  /\ posts \in Nat
  /\ trouble \in [faults : Nat, crashes : Nat]
  /\ trouble.faults <= chat.faults /\ trouble.crashes <= chat.crashes

(* Writes of the row keep its type. *)
LEMMA WriteTyped ==
  ASSUME RowTyped, NEW status \in RowStatuses, NEW reason \in Reasons, NEW at \in Times,
         Write(status, reason, at) \/ UNCHANGED <<ext, late>>
  PROVE  RowTyped'
BY DEF RowTyped, Write, ChatRow

LEMMA WriteNowTyped ==
  ASSUME RowTyped, NEW b \in Bridges, NEW status \in RowStatuses, NEW reason \in Reasons,
         WriteNow(b, status, reason)
  PROVE  RowTyped'
BY DEF RowTyped, WriteNow, ChatRow, Times

(* A pass that goes on is typed. *)
LEMMA HasTyped ==
  ASSUME PassesTyped, NEW b \in Bridges, NEW pc, NEW was, Has(b, pc, was),
         [pc |-> pc, was |-> was] \in PassStep, pc = "finish" => was \in ReplyHandles
  PROVE  PassesTyped'
BY DEF PassesTyped, Has

LEMMA HandTyped ==
  ASSUME hand \in [Deliveries -> HandStep], NEW d \in Deliveries, NEW step \in HandStep,
         hand' = [hand EXCEPT ![d] = step]
  PROVE  hand' \in [Deliveries -> HandStep]
OBVIOUS

LEMMA FaultTyped ==
  ASSUME ChatTyped, ChatFault, UNCHANGED chat
  PROVE  /\ trouble' \in [faults : Nat, crashes : Nat]
         /\ trouble'.faults <= chat'.faults /\ trouble'.crashes <= chat'.crashes
<1>1. chat.faults \in Nat
  BY ChatAssumption DEF ChatTyped
<1> QED
  BY <1>1 DEF ChatTyped, ChatFault

(* A handler's or a wake's steps keep the types. *)
LEMMA DeliveryTyped ==
  ASSUME ChatTyped, NEW d \in Deliveries,
         arrives(d) \/ renew(d) \/ renewFails(d) \/ handlerFails(d) \/ wakeThrows(d)
           \/ Handles(d) \/ Wakes(d)
  PROVE  ChatTyped'
<1> USE DEF ChatTyped
<1>0. hand[d] \in HandStep /\ ext \in ChatRow
  BY DEF RowTyped
<1>1. \A pc \in Acting \cup {"none", "receive", "reclaim", "hold", "done", "dead"} :
        HandTo(d, pc) => hand' \in [Deliveries -> HandStep]
  BY <1>0 DEF HandTo, HandStep
<1>2. \A w \in {"none", "find", "reserve", "deliver", "true", "false", "threw"} :
        WakeTo(d, w) => hand' \in [Deliveries -> HandStep]
  BY <1>0 DEF WakeTo, HandStep
<1>3. UNCHANGED pass => PassesTyped'
  BY DEF PassesTyped
<1>4. UNCHANGED <<ext, late>> => RowTyped'
  BY DEF RowTyped
<1>5. \A status \in {"deferred", "ignored", "received", "observed"}, reason \in Reasons, at \in Times :
        Write(status, reason, at) => RowTyped'
  BY WriteTyped DEF RowStatuses, Settled
<1>6. /\ ext.reason \in Reasons /\ ext.status \in RowStatuses
      /\ {"none", "routing", "wake"} \subseteq Reasons /\ Times = {"null", "soon", "held", "past"}
      /\ Open \in {"received", "observed"}
  BY <1>0 DEF ChatRow, Reasons, Times, Open
<1>7. CASE arrives(d)
  BY <1>1, <1>3, <1>4, <1>7 DEF arrives, notRow
<1>8. CASE receive(d)
  BY <1>1, <1>3, <1>4, <1>5, <1>6, <1>8 DEF receive, notRow
<1>9. CASE reclaim(d)
  BY <1>1, <1>3, <1>4, <1>5, <1>6, <1>9 DEF reclaim, WriteIf, notRow
<1>10. Extend => RowTyped'
  BY <1>4, <1>5, <1>6 DEF Extend, WriteIf
<1>11. CASE hold(d)
  <2>1. /\ [pc |-> "race", wake |-> "find"] \in HandStep
        /\ [pc |-> "done", wake |-> "none"] \in HandStep
    BY DEF HandStep, Acting
  <2>2. hand' \in [Deliveries -> HandStep]
    BY <1>11, <2>1 DEF hold
  <2> QED
    BY <1>3, <1>10, <1>11, <2>2 DEF hold, notRow
<1>12. CASE renew(d) \/ rehold(d)
  <2>1. hand' \in [Deliveries -> HandStep]
    BY <1>1, <1>12 DEF renew, rehold, Acting
  <2> QED
    BY <1>3, <1>10, <1>12, <2>1 DEF renew, rehold, notRow
<1>13. CASE renewFails(d) \/ handlerFails(d)
  <2>1. hand' \in [Deliveries -> HandStep]
    BY <1>1, <1>13 DEF renewFails, handlerFails, Acting
  <2> QED
    BY <1>3, <1>4, <1>13, <2>1, FaultTyped DEF renewFails, handlerFails
<1>14. CASE wakeEnds(d)
  <2>1. hand' \in [Deliveries -> HandStep]
    BY <1>1, <1>14 DEF wakeEnds, Acting
  <2> QED
    BY <1>3, <1>4, <1>14, <2>1 DEF wakeEnds, notRow
<1>15. CASE resolveRoutine(d) \/ resolveAgent(d)
  <2>1. hand' \in [Deliveries -> HandStep]
    BY <1>1, <1>15 DEF resolveRoutine, resolveAgent
  <2>2. RowTyped'
    BY <1>4, <1>5, <1>6, <1>15 DEF resolveRoutine, resolveAgent, WriteIf
  <2> QED
    BY <1>3, <1>15, <2>1, <2>2 DEF resolveRoutine, resolveAgent, notRow
<1>16. CASE findRoutines(d)
  <2>1. hand' \in [Deliveries -> HandStep]
    BY <1>2, <1>16 DEF findRoutines
  <2> QED
    BY <1>3, <1>4, <1>16, <2>1 DEF findRoutines, notRow
<1>17. CASE reserveWake(d)
  <2>1. hand' \in [Deliveries -> HandStep]
    BY <1>2, <1>17 DEF reserveWake
  <2>2. RowTyped'
    BY <1>4, <1>6, <1>17, WriteTyped DEF reserveWake, WriteIf
  <2> QED
    BY <1>3, <1>17, <2>1, <2>2 DEF reserveWake, notRow
<1>18. CASE deliverWake(d)
  BY <1>2, <1>3, <1>4, <1>18 DEF deliverWake
<1>19. CASE wakeThrows(d)
  BY <1>2, <1>3, <1>4, <1>19, FaultTyped DEF wakeThrows
<1> QED
  BY <1>7, <1>8, <1>9, <1>11, <1>12, <1>13, <1>14, <1>15, <1>16, <1>17, <1>18, <1>19
  DEF Handles, Wakes

(* A bridge's steps keep the types. *)
LEMMA BridgeTyped ==
  ASSUME ChatTyped, NEW b \in Bridges,
         reconcileBegins(b) \/ Reconciles(b) \/ passFails(b) \/ bridgeDies(b) \/ bridgeStarts(b)
  PROVE  ChatTyped'
<1> USE DEF ChatTyped
<1>0. /\ ext \in ChatRow /\ pass[b] \in PassStep
      /\ pass[b].pc = "finish" => pass[b].was \in ReplyHandles
  BY DEF RowTyped, PassesTyped
<1>1. /\ ext.reason \in Reasons /\ ext.status \in RowStatuses /\ ext.handle \in ReplyHandles
      /\ {"none", "routing", "wake", "agent", "judge"} \subseteq Reasons
      /\ Times = {"null", "soon", "held", "past"}
      /\ Open \in {"received", "observed"}
      /\ {"deferred", "ignored", "received", "observed", "queueing", "running", "delivering",
          "delivered"} \subseteq RowStatuses
      /\ {"posted", "silent", "unconfirmed"} \subseteq ReplyHandles
  BY <1>0 DEF ChatRow, Reasons, Times, Open, RowStatuses, Settled, ReplyHandles
<1> DEFINE Pcs == Queueing \cup Delivering \cup
                    {"down", "idle", "expired", "lookup", "yield", "free", "promote", "requeue",
                     "judge", "engage", "ignore", "received", "running", "retry", "retried"}
<1>2. ASSUME NEW pc \in Pcs, NEW was \in {"none"} \cup Reasons \cup RowStatuses \cup ReplyHandles,
             pc = "finish" => was \in ReplyHandles, Has(b, pc, was)
      PROVE  PassesTyped'
  BY <1>2, HasTyped DEF PassStep
<1>3. ASSUME NEW pc \in Pcs \ {"finish"}, Goes(b, pc)
      PROVE  PassesTyped'
  BY <1>2, <1>3 DEF Goes
<1>4. UNCHANGED <<ext, late>> => RowTyped'
  BY DEF RowTyped
<1>5. ASSUME NEW status \in RowStatuses, NEW reason \in Reasons, NEW at \in Times,
             Write(status, reason, at)
      PROVE  RowTyped'
  BY <1>5, WriteTyped
<1>6. Pcs = {"queue", "giveway", "claim", "claimed", "barrier", "lastLook", "create", "recheck",
             "cancel", "abandon", "link", "enqueue", "reserve", "posted", "unconfirm", "check",
             "send", "store", "finish", "silence", "down", "idle", "expired", "lookup", "yield",
             "free", "promote", "requeue", "judge", "engage", "ignore", "received", "running",
             "retry", "retried"}
  BY DEF Queueing, Delivering
<1> HIDE DEF Pcs
<1>7. CASE reconcileBegins(b)
  <2>1. PassesTyped'
    BY <1>3, <1>6, <1>7 DEF reconcileBegins
  <2>2. RowTyped'
    BY <1>7 DEF reconcileBegins, RowTyped
  <2> QED
    BY <1>7, <2>1, <2>2 DEF reconcileBegins, notRow
<1>8. CASE listExpired(b)
  <2>1. PassesTyped'
    BY <1>1, <1>2, <1>3, <1>6, <1>8 DEF listExpired
  <2> QED
    BY <1>4, <1>8, <2>1 DEF listExpired, notRow
<1>9. CASE lookupWake(b)
  <2>1. PassesTyped'
    BY <1>3, <1>6, <1>9 DEF lookupWake
  <2> QED
    BY <1>4, <1>9, <2>1 DEF lookupWake, notRow
<1>10. CASE recoverExpired(b)
  <2>1. PassesTyped'
    BY <1>3, <1>6, <1>10 DEF recoverExpired
  <2>2. RowTyped'
    <3>1. \/ UNCHANGED <<ext, late>>
          \/ Write("ignored", "wake", "null")
          \/ WriteNow(b, "deferred", "none")
          \/ Write(Open, "none", "null")
      BY <1>10 DEF recoverExpired, WriteIf
    <3> QED
      BY <1>1, <1>4, <1>5, <3>1, WriteNowTyped
  <2> QED
    BY <1>10, <2>1, <2>2 DEF recoverExpired, notRow
<1>11. CASE requeueExpired(b)
  <2>1. PassesTyped'
    BY <1>3, <1>6, <1>11 DEF requeueExpired
  <2>2. RowTyped'
    BY <1>1, <1>4, <1>5, <1>11 DEF requeueExpired, WriteIf
  <2> QED
    BY <1>11, <2>1, <2>2 DEF requeueExpired, notRow
<1>12. CASE evaluateAmbient(b) \/ nothingToJudge(b)
  <2>1. PassesTyped'
    BY <1>3, <1>6, <1>12 DEF evaluateAmbient, nothingToJudge
  <2> QED
    BY <1>4, <1>12, <2>1 DEF evaluateAmbient, nothingToJudge, notRow
<1>13. CASE promoteAmbient(b) \/ markAmbientIgnored(b)
  <2>1. PassesTyped'
    BY <1>3, <1>6, <1>13 DEF promoteAmbient, markAmbientIgnored
  <2>2. RowTyped'
    BY <1>1, <1>13 DEF promoteAmbient, markAmbientIgnored, RowTyped, ChatRow
  <2> QED
    BY <1>13, <2>1, <2>2 DEF promoteAmbient, markAmbientIgnored, notRow
<1>14. CASE listReceived(b) \/ findWake(b) \/ barrier(b) \/ recheckWake(b) \/ enqueueRun(b)
              \/ listRunning(b)
  <2>1. PassesTyped'
    BY <1>3, <1>6, <1>14
    DEF listReceived, findWake, barrier, recheckWake, enqueueRun, listRunning
  <2> QED
    BY <1>4, <1>14, <2>1
    DEF listReceived, findWake, barrier, recheckWake, enqueueRun, listRunning, notRow
<1>15. CASE abandonForRoutine(b)
  <2>1. PassesTyped'
    BY <1>3, <1>6, <1>15 DEF abandonForRoutine
  <2>2. RowTyped'
    BY <1>1, <1>4, <1>5, <1>15 DEF abandonForRoutine, WriteIf
  <2> QED
    BY <1>15, <2>1, <2>2 DEF abandonForRoutine, notRow
<1>16. CASE claimQueueing(b)
  <2>1. PassesTyped'
    BY <1>3, <1>6, <1>16 DEF claimQueueing
  <2>2. RowTyped'
    BY <1>1, <1>4, <1>5, <1>16 DEF claimQueueing, WriteIf
  <2> QED
    BY <1>16, <2>1, <2>2 DEF claimQueueing, notRow
<1>17. CASE createRun(b) \/ cancelFallback(b)
  <2>1. PassesTyped'
    BY <1>3, <1>6, <1>17 DEF createRun, cancelFallback
  <2> QED
    BY <1>4, <1>17, <2>1 DEF createRun, cancelFallback
<1>18. CASE linkRun(b)
  <2>1. PassesTyped'
    BY <1>3, <1>6, <1>18 DEF linkRun
  <2>2. RowTyped'
    BY <1>1, <1>4, <1>18 DEF linkRun, RowTyped, ChatRow
  <2> QED
    BY <1>18, <2>1, <2>2 DEF linkRun, notRow
<1>19. CASE reserveDelivery(b)
  <2>1. PassesTyped'
    BY <1>3, <1>6, <1>19 DEF reserveDelivery
  <2>2. RowTyped'
    BY <1>1, <1>4, <1>5, <1>19 DEF reserveDelivery, WriteIf
  <2> QED
    BY <1>19, <2>1, <2>2 DEF reserveDelivery, notRow
<1>20. CASE findPosted(b) \/ checkHandle(b)
  <2>1. PassesTyped'
    BY <1>1, <1>2, <1>3, <1>6, <1>20 DEF findPosted, checkHandle
  <2> QED
    BY <1>4, <1>20, <2>1 DEF findPosted, checkHandle, notRow
<1>21. CASE unconfirm(b)
  <2>1. PassesTyped'
    BY <1>3, <1>6, <1>21 DEF unconfirm
  <2>2. RowTyped'
    BY <1>1, <1>4, <1>21 DEF unconfirm, RowTyped, ChatRow
  <2> QED
    BY <1>21, <2>1, <2>2 DEF unconfirm, notRow
<1>22. CASE sendReply(b)
  <2>1. PassesTyped'
    BY <1>3, <1>6, <1>22 DEF sendReply
  <2>2. UNCHANGED trouble \/ ChatFault
    BY <1>22 DEF sendReply
  <2> QED
    BY <1>4, <1>22, <2>1, <2>2, FaultTyped DEF sendReply
<1>23. CASE storeHandle(b)
  <2>1. PassesTyped'
    BY <1>1, <1>2, <1>6, <1>23 DEF storeHandle
  <2>2. RowTyped'
    BY <1>1, <1>23 DEF storeHandle, RowTyped, ChatRow
  <2> QED
    BY <1>23, <2>1, <2>2 DEF storeHandle, notRow
<1>24. CASE markDelivered(b)
  <2>1. PassesTyped'
    BY <1>3, <1>6, <1>24 DEF markDelivered
  <2>2. RowTyped'
    BY <1>0, <1>1, <1>24 DEF markDelivered, RowTyped, ChatRow
  <2> QED
    BY <1>24, <2>1, <2>2 DEF markDelivered, notRow
<1>25. CASE retry(b)
  <2>1. PassesTyped'
    BY <1>1, <1>2, <1>3, <1>6, <1>25 DEF retry
  <2> QED
    BY <1>4, <1>25, <2>1 DEF retry, notRow
<1>26. CASE retryWrites(b)
  <2>1. PassesTyped'
    BY <1>3, <1>6, <1>26 DEF retryWrites
  <2>2. RowTyped'
    BY <1>1, <1>4, <1>5, <1>26 DEF retryWrites, WriteIf, BackFrom
  <2> QED
    BY <1>26, <2>1, <2>2 DEF retryWrites, notRow
<1>27. CASE passFails(b)
  <2>1. PassesTyped'
    BY <1>3, <1>6, <1>27 DEF passFails
  <2> QED
    BY <1>4, <1>27, <2>1, FaultTyped DEF passFails
<1>28. CASE bridgeDies(b)
  <2>1. PassesTyped'
    BY <1>2, <1>6, <1>28 DEF bridgeDies, Has
  <2>2. hand' \in [Deliveries -> HandStep]
    BY <1>28 DEF bridgeDies, HandStep
  <2>3. /\ trouble' \in [faults : Nat, crashes : Nat]
        /\ trouble'.faults <= chat'.faults /\ trouble'.crashes <= chat'.crashes
    <3>1. chat.crashes \in Nat
      BY ChatAssumption
    <3> QED
      BY <1>28, <3>1 DEF bridgeDies
  <2> QED
    BY <1>4, <1>28, <2>1, <2>2, <2>3 DEF bridgeDies
<1>29. CASE bridgeStarts(b)
  <2>1. PassesTyped'
    BY <1>3, <1>6, <1>29 DEF bridgeStarts
  <2>2. RowTyped'
    BY <1>1, <1>4, <1>29, WriteNowTyped DEF bridgeStarts
  <2> QED
    BY <1>29, <2>1, <2>2 DEF bridgeStarts, notRow
<1> QED
  BY <1>7, <1>8, <1>9, <1>10, <1>11, <1>12, <1>13, <1>14, <1>15, <1>16, <1>17, <1>18, <1>19,
     <1>20, <1>21, <1>22, <1>23, <1>24, <1>25, <1>26, <1>27, <1>28, <1>29
  DEF Reconciles

LEMMA ChatTypedInit == ChatInit => ChatTyped
<1> SUFFICES ASSUME ChatInit PROVE ChatTyped
  OBVIOUS
<1>1. chat.faults \in Nat /\ chat.crashes \in Nat
  BY ChatAssumption DEF ChatInit
<1>2. ext \in ChatRow
  BY DEF ChatInit, ChatRow, RowStatuses, Settled, Reasons, Times, ReplyHandles
<1>3. PassesTyped
  BY DEF ChatInit, PassesTyped, PassStep
<1>4. hand \in [Deliveries -> HandStep]
  BY DEF ChatInit, HandStep
<1>5. chat \in Chats /\ woken = FALSE /\ agent = "none" /\ posts = 0 /\ late = {}
  BY DEF ChatInit
<1>6. trouble = [faults |-> 0, crashes |-> 0]
  BY DEF ChatInit
<1>7. trouble \in [faults : Nat, crashes : Nat] /\ trouble.faults = 0 /\ trouble.crashes = 0
  BY <1>6
<1>8. RowTyped
  BY <1>2, <1>5 DEF RowTyped
<1>9. trouble.faults <= chat.faults /\ trouble.crashes <= chat.crashes
  BY <1>1, <1>7
<1>10. woken \in BOOLEAN /\ posts \in Nat
  BY <1>5
<1>11. agent \in {"none", "active", "replied", "quiet", "failed", "cancelled"}
  BY <1>5
<1> QED
  BY <1>3, <1>4, <1>5, <1>7, <1>8, <1>9, <1>10, <1>11 DEF ChatTyped

LEMMA ChatTypedNext == ChatTyped /\ [ChatNext]_chatVars => ChatTyped'
<1> SUFFICES ASSUME ChatTyped, [ChatNext]_chatVars PROVE ChatTyped'
  OBVIOUS
<1>1. CASE runEnds
  BY <1>1 DEF runEnds, ChatTyped, RowTyped, PassesTyped
<1>2. CASE timePasses
  <2>1. RowTyped'
    BY <1>2 DEF timePasses, ChatTyped, RowTyped, ChatRow, Times
  <2>2. UNCHANGED <<chat, woken, agent, posts, hand, pass>> /\ (UNCHANGED trouble \/ ChatFault)
    BY <1>2 DEF timePasses
  <2>3. /\ trouble' \in [faults : Nat, crashes : Nat]
        /\ trouble'.faults <= chat'.faults /\ trouble'.crashes <= chat'.crashes
    BY <2>2, FaultTyped DEF ChatTyped
  <2> QED
    BY <2>1, <2>2, <2>3 DEF ChatTyped, PassesTyped
<1>3. CASE UNCHANGED chatVars
  BY <1>3 DEF chatVars, ChatTyped, RowTyped, PassesTyped
<1> QED
  BY <1>1, <1>2, <1>3, DeliveryTyped, BridgeTyped DEF ChatNext

-----------------------------------------------------------------------------
(* One reply *)

Replying == {"delivering", "delivered"}
Sending(b) == pass[b].pc \in {"check", "send"}

(* Who has reserved the delivery is alone between the reservation and the  *)
(* post, and nobody reserves again what was posted.                        *)
SendersAlone ==
  \A b \in Bridges : Sending(b) =>
    posts = 0 /\ ext.status \in Replying /\ \A c \in Bridges : Sending(c) => c = b
PostedOnce ==
  /\ posts \in {0, 1}
  /\ posts = 1 => ext.status \in Replying /\ Bridges # {}
ReplyInv == SendersAlone /\ PostedOnce

(* A delivery that was begun is never taken back. *)
LEMMA ReplyingStays ==
  ASSUME ChatTyped, [ChatNext]_chatVars, ext.status \in Replying
  PROVE  ext'.status \in Replying
<1>0. ext \in ChatRow
  BY DEF ChatTyped, RowTyped
<1>1. \A status, reason, at : Write(status, reason, at) => ext'.status = status
  BY <1>0 DEF Write, ChatRow
<1>2. CASE UNCHANGED ext
  BY <1>2
<1>3. ext.status \notin {"absent", "deferred", "received", "observed", "queueing", "running"}
  BY DEF Replying
<1>4. ASSUME NEW d \in Deliveries,
             arrives(d) \/ renew(d) \/ renewFails(d) \/ handlerFails(d) \/ wakeThrows(d)
               \/ Handles(d) \/ Wakes(d)
      PROVE  UNCHANGED ext
  BY <1>3, <1>4
  DEF arrives, renew, renewFails, handlerFails, wakeThrows, Handles, Wakes, receive, reclaim, hold,
      rehold, wakeEnds, resolveRoutine, resolveAgent, findRoutines, reserveWake, deliverWake,
      Extend, WriteIf, Reclaimable, Waiting, Ownable, Reservable
<1>5. ASSUME NEW b \in Bridges,
             \/ reconcileBegins(b) \/ passFails(b) \/ bridgeDies(b) \/ bridgeStarts(b)
             \/ listExpired(b) \/ lookupWake(b) \/ recoverExpired(b) \/ requeueExpired(b)
             \/ evaluateAmbient(b) \/ nothingToJudge(b) \/ promoteAmbient(b) \/ markAmbientIgnored(b)
             \/ listReceived(b) \/ findWake(b) \/ abandonForRoutine(b) \/ claimQueueing(b)
             \/ barrier(b) \/ createRun(b) \/ recheckWake(b) \/ cancelFallback(b) \/ linkRun(b)
             \/ enqueueRun(b) \/ listRunning(b) \/ reserveDelivery(b) \/ findPosted(b)
             \/ checkHandle(b) \/ sendReply(b) \/ retry(b)
      PROVE  UNCHANGED ext
  BY <1>3, <1>5
  DEF reconcileBegins, passFails, bridgeDies, bridgeStarts, listExpired, lookupWake,
      recoverExpired, requeueExpired, evaluateAmbient, nothingToJudge, promoteAmbient,
      markAmbientIgnored, listReceived, findWake, abandonForRoutine, claimQueueing, barrier,
      createRun, recheckWake, cancelFallback, linkRun, enqueueRun, listRunning, reserveDelivery,
      findPosted, checkHandle, sendReply, retry, WriteIf, Claimable, MayReserve
<1>6. ASSUME NEW b \in Bridges, unconfirm(b) \/ storeHandle(b) \/ markDelivered(b)
      PROVE  ext'.status \in Replying
  BY <1>0, <1>6 DEF unconfirm, storeHandle, markDelivered, ChatRow, Replying
<1>7. ASSUME NEW b \in Bridges, retryWrites(b)
      PROVE  ext'.status \in Replying
  BY <1>1, <1>3, <1>7 DEF retryWrites, WriteIf, BackFrom
<1>8. CASE runEnds \/ timePasses
  BY <1>0, <1>8 DEF runEnds, timePasses, ChatRow
<1>9. CASE UNCHANGED chatVars
  BY <1>9 DEF chatVars
<1> QED
  BY <1>2, <1>4, <1>5, <1>6, <1>7, <1>8, <1>9 DEF ChatNext, Reconciles

(* A pass comes to send by a reservation or by the check that follows it. *)
LEMMA SendsGoOn ==
  ASSUME ChatTyped, [ChatNext]_chatVars, NEW c \in Bridges, Sending(c)', ~Sending(c)
  PROVE  /\ reserveDelivery(c) /\ MayReserve /\ UNCHANGED posts
         /\ ext'.status = "delivering"
         /\ \A b \in Bridges \ {c} : pass'[b] = pass[b]
<1>0. pass \in [Bridges -> PassStep] /\ ext \in ChatRow
  BY DEF ChatTyped, PassesTyped, RowTyped
<1>1. \A b \in Bridges : \A pc, was : Has(b, pc, was) =>
        pass'[b].pc = pc /\ \A o \in Bridges \ {b} : pass'[o] = pass[o]
  BY <1>0 DEF Has
<1>2. ~UNCHANGED pass
  BY DEF Sending
<1>3. ASSUME NEW b \in Bridges, NEW pc, NEW was, Has(b, pc, was)
      PROVE  b = c /\ pc \in {"check", "send"}
  BY <1>1, <1>3 DEF Sending
<1>4. ASSUME NEW b \in Bridges, NEW pc, Goes(b, pc)
      PROVE  b = c /\ pc \in {"check", "send"}
  BY <1>3, <1>4 DEF Goes
<1>5. ASSUME NEW d \in Deliveries,
             arrives(d) \/ renew(d) \/ renewFails(d) \/ handlerFails(d) \/ wakeThrows(d)
               \/ Handles(d) \/ Wakes(d)
      PROVE  FALSE
  BY <1>2, <1>5
  DEF arrives, renew, renewFails, handlerFails, wakeThrows, Handles, Wakes, receive, reclaim, hold,
      rehold, wakeEnds, resolveRoutine, resolveAgent, findRoutines, reserveWake, deliverWake, notRow
<1>6. CASE runEnds \/ timePasses \/ UNCHANGED chatVars
  BY <1>2, <1>6 DEF runEnds, timePasses, chatVars
<1>7. ASSUME NEW b \in Bridges,
             \/ reconcileBegins(b) \/ bridgeStarts(b)
             \/ listExpired(b) \/ lookupWake(b) \/ recoverExpired(b) \/ requeueExpired(b)
             \/ evaluateAmbient(b) \/ nothingToJudge(b) \/ promoteAmbient(b) \/ markAmbientIgnored(b)
             \/ listReceived(b) \/ findWake(b) \/ abandonForRoutine(b) \/ claimQueueing(b)
             \/ barrier(b) \/ createRun(b) \/ recheckWake(b) \/ cancelFallback(b) \/ linkRun(b)
             \/ enqueueRun(b) \/ listRunning(b) \/ findPosted(b)
      PROVE  FALSE
  BY <1>3, <1>4, <1>7
  DEF reconcileBegins, bridgeStarts, listExpired, lookupWake,
      recoverExpired, requeueExpired, evaluateAmbient, nothingToJudge, promoteAmbient,
      markAmbientIgnored, listReceived, findWake, abandonForRoutine, claimQueueing, barrier,
      createRun, recheckWake, cancelFallback, linkRun, enqueueRun, listRunning, findPosted
<1>8. ASSUME NEW b \in Bridges,
             unconfirm(b) \/ sendReply(b) \/ storeHandle(b) \/ markDelivered(b) \/ retry(b)
               \/ retryWrites(b) \/ passFails(b)
      PROVE  FALSE
  BY <1>3, <1>4, <1>8
  DEF unconfirm, sendReply, storeHandle, markDelivered, retry, retryWrites, passFails
<1>9. ASSUME NEW b \in Bridges, bridgeDies(b)
      PROVE  FALSE
  <2>1. Has(b, "down", "none")
    BY <1>9 DEF bridgeDies, Has
  <2> QED
    BY <1>3, <2>1
<1>10. ASSUME NEW b \in Bridges, checkHandle(b)
       PROVE  FALSE
  <2>1. b = c
    BY <1>3, <1>4, <1>10 DEF checkHandle
  <2> QED
    BY <1>10, <2>1 DEF checkHandle, Sending
<1>11. ASSUME NEW b \in Bridges, reserveDelivery(b)
       PROVE  /\ b = c /\ MayReserve /\ UNCHANGED posts
              /\ ext'.status = "delivering"
              /\ \A o \in Bridges \ {c} : pass'[o] = pass[o]
  <2>1. b = c /\ MayReserve
    BY <1>4, <1>11 DEF reserveDelivery
  <2>2. \A o \in Bridges \ {c} : pass'[o] = pass[o]
    BY <1>1, <1>11, <2>1 DEF reserveDelivery, Goes
  <2>3. ext' = [ext EXCEPT !.status = "delivering", !.reason = ext.reason, !.at = "soon"]
    BY <1>11, <2>1 DEF reserveDelivery, WriteIf, Write
  <2> QED
    BY <1>0, <1>11, <2>1, <2>2, <2>3 DEF reserveDelivery, notRow, ChatRow
<1> QED
  BY <1>5, <1>6, <1>7, <1>8, <1>9, <1>10, <1>11 DEF ChatNext, Reconciles

(* Only a post counts. *)
LEMMA PostsBySending ==
  ASSUME ChatTyped, [ChatNext]_chatVars, posts' # posts
  PROVE  \E b \in Bridges : /\ Sending(b) /\ posts' = posts + 1
                            /\ pass'[b].pc \notin {"check", "send"}
                            /\ \A o \in Bridges \ {b} : pass'[o] = pass[o]
<1>0. pass \in [Bridges -> PassStep]
  BY DEF ChatTyped, PassesTyped
<1>1. ASSUME NEW d \in Deliveries,
             arrives(d) \/ renew(d) \/ renewFails(d) \/ handlerFails(d) \/ wakeThrows(d)
               \/ Handles(d) \/ Wakes(d)
      PROVE  FALSE
  BY <1>1
  DEF arrives, renew, renewFails, handlerFails, wakeThrows, Handles, Wakes, receive, reclaim, hold,
      rehold, wakeEnds, resolveRoutine, resolveAgent, findRoutines, reserveWake, deliverWake, notRow
<1>2. CASE runEnds \/ timePasses \/ UNCHANGED chatVars
  BY <1>2 DEF runEnds, timePasses, chatVars
<1>3. ASSUME NEW b \in Bridges,
             \/ reconcileBegins(b) \/ bridgeStarts(b) \/ passFails(b) \/ bridgeDies(b)
             \/ listExpired(b) \/ lookupWake(b) \/ recoverExpired(b) \/ requeueExpired(b)
             \/ evaluateAmbient(b) \/ nothingToJudge(b) \/ promoteAmbient(b) \/ markAmbientIgnored(b)
             \/ listReceived(b) \/ findWake(b) \/ abandonForRoutine(b) \/ claimQueueing(b)
             \/ barrier(b) \/ createRun(b) \/ recheckWake(b) \/ cancelFallback(b) \/ linkRun(b)
             \/ enqueueRun(b) \/ listRunning(b) \/ reserveDelivery(b) \/ findPosted(b)
             \/ unconfirm(b) \/ checkHandle(b) \/ storeHandle(b) \/ markDelivered(b) \/ retry(b)
             \/ retryWrites(b)
      PROVE  FALSE
  BY <1>3
  DEF reconcileBegins, bridgeStarts, passFails, bridgeDies, listExpired, lookupWake,
      recoverExpired, requeueExpired, evaluateAmbient, nothingToJudge, promoteAmbient,
      markAmbientIgnored, listReceived, findWake, abandonForRoutine, claimQueueing, barrier,
      createRun, recheckWake, cancelFallback, linkRun, enqueueRun, listRunning, reserveDelivery,
      findPosted, unconfirm, checkHandle, storeHandle, markDelivered, retry, retryWrites, notRow
<1>4. ASSUME NEW b \in Bridges, sendReply(b)
      PROVE  /\ Sending(b) /\ posts' = posts + 1
             /\ pass'[b].pc \notin {"check", "send"}
             /\ \A o \in Bridges \ {b} : pass'[o] = pass[o]
  BY <1>0, <1>4 DEF sendReply, Goes, Has, Sending
<1> QED
  BY <1>1, <1>2, <1>3, <1>4 DEF ChatNext, Reconciles

LEMMA ReplyNext == ChatTyped /\ ReplyInv /\ [ChatNext]_chatVars => ReplyInv'
<1> SUFFICES ASSUME ChatTyped, ReplyInv, [ChatNext]_chatVars PROVE ReplyInv'
  OBVIOUS
<1>1. ASSUME NEW c \in Bridges, Sending(c)', ~Sending(c)
      PROVE  ReplyInv'
  <2>1. /\ ext.status = "running" /\ ext'.status = "delivering" /\ posts' = posts
        /\ \A b \in Bridges \ {c} : pass'[b] = pass[b]
    BY <1>1, SendsGoOn DEF MayReserve
  <2>2. posts = 0 /\ \A b \in Bridges : ~Sending(b)
    BY <2>1 DEF ReplyInv, SendersAlone, PostedOnce, Replying
  <2>3. \A b \in Bridges : Sending(b)' => b = c
    BY <2>1, <2>2 DEF Sending
  <2> QED
    BY <2>1, <2>2, <2>3 DEF ReplyInv, SendersAlone, PostedOnce, Replying
<1>2. CASE (\A c \in Bridges : Sending(c)' => Sending(c)) /\ posts' = posts
  BY <1>2, ReplyingStays DEF ReplyInv, SendersAlone, PostedOnce
<1>3. CASE (\A c \in Bridges : Sending(c)' => Sending(c)) /\ posts' # posts
  <2>1. PICK b \in Bridges : /\ Sending(b) /\ posts' = posts + 1
                             /\ pass'[b].pc \notin {"check", "send"}
    BY <1>3, PostsBySending
  <2>2. posts' = 1 /\ ext'.status \in Replying
    BY <2>1, ReplyingStays DEF ReplyInv, SendersAlone
  <2>3. \A c \in Bridges : ~Sending(c)'
    BY <1>3, <2>1 DEF ReplyInv, SendersAlone, Sending
  <2> QED
    BY <2>1, <2>2, <2>3 DEF ReplyInv, SendersAlone, PostedOnce
<1> QED
  BY <1>1, <1>2, <1>3

-----------------------------------------------------------------------------
(* One answer *)

Calm(c) == c.faults = 0 /\ c.crashes = 0
(* No handler outlasts its reservation, and the webhook is not delivered   *)
(* again where something fails or dies.                                    *)
Orderly(c) ==
  /\ ~c.renewals /\ ~c.stalls
  /\ Calm(c) \/ \A d, e \in c.deliveries : d = e

Claiming == {"claimed", "barrier", "lastLook", "create", "recheck", "cancel", "abandon", "link"}
HandlingBy(d) == hand[d].pc \in Acting \cup {"hold"}
(* The bot has not been asked, and nobody is about to ask it. *)
Unasked == agent = "none" /\ \A b \in Bridges : pass[b].pc \notin Claiming
Early == {"absent", "deferred", "received", "observed"}

(* A handler that decides who answers has the row to itself: it is         *)
(* deferred and its reservation has not run out.                           *)
HandlersOwn ==
  \A d \in Deliveries :
    /\ hand[d].wake \in {"find", "reserve", "deliver"} =>
         hand[d].pc \in {"race", "rehold", "held", "await"}
    /\ HandlingBy(d) =>
         /\ ext.status = "deferred" /\ ext.at \in {"soon", "held"} /\ late = {}
         /\ Unasked
         /\ \A e \in Deliveries : HandlingBy(e) => e = d
         /\ woken => hand[d].wake = "true" /\ hand[d].pc \notin {"release", "hold"}
    /\ hand[d].pc # "none" => d \in chat.deliveries
    /\ ~Calm(chat) =>
         /\ hand[d].pc # "reclaim"
         /\ d \in chat.deliveries /\ hand[d].pc \in {"none", "receive"} => ext.status = "absent"

(* As long as the message is nobody's, or is a routine's, the bot has not  *)
(* been asked; and what a pass has read before it was woken is not used.   *)
RowKnows ==
  /\ ext.status = "absent" => Unasked /\ late = {} /\ ~woken
  /\ Calm(chat) /\ ext.status \in Early => Unasked
  /\ ~Calm(chat) /\ (ext.status = "absent" \/ Handling \/ woken) =>
       \A b \in Bridges : pass[b].pc \notin {"promote", "free"} /\ (pass[b].pc = "lookup" => woken)
  /\ woken => Unasked /\ ext.status \in {"deferred", "ignored"}
  /\ woken /\ Calm(chat) => ext.status = "ignored" \/ Handling

(* Where nothing fails, one bridge at a time queues the message. *)
QueueKnows ==
  Calm(chat) =>
    /\ \A b \in Bridges : pass[b].pc \notin {"retry", "retried", "down"}
    /\ \A b \in Bridges : pass[b].pc \in Claiming =>
         ext.status = "queueing" /\ \A c \in Bridges : pass[c].pc \in Claiming => c = b
    /\ ext.status = "queueing" =>
         /\ late = {} /\ ext.at = "soon" /\ ext.reason = "agent" /\ ~ext.linked
         /\ \E b \in Bridges : pass[b].pc \in Claiming

DeliveringKnows ==
  /\ \A b \in Bridges : pass[b].pc \in Delivering => ext.status \in {"running", "delivering", "delivered"}
  /\ ext.handle # "none" \/ ext.linked => ext.status \in {"running", "delivering", "delivered"}

AnswerInv == HandlersOwn /\ RowKnows /\ QueueKnows /\ DeliveringKnows

(* A pass that goes on and leaves the row, the bot and the handlers. *)
LEMMA PassReads ==
  ASSUME ChatTyped, AnswerInv, NEW b \in Bridges, NEW pc, NEW was, Has(b, pc, was),
         UNCHANGED <<chat, ext, late, woken, agent, hand>>,
         pc \in Claiming => pass[b].pc \in Claiming,
         Calm(chat) => /\ pc \notin {"retry", "retried", "down"}
                       /\ pass[b].pc \in Claiming => pc \in Claiming \/ ext.status # "queueing",
         pc \in Delivering => ext.status \in {"running", "delivering", "delivered"},
         pc \in {"promote", "free"} => Calm(chat) \/ ~(ext.status = "absent" \/ Handling \/ woken),
         pc = "lookup" => Calm(chat) \/ woken \/ ~(ext.status = "absent" \/ Handling)
  PROVE  AnswerInv'
<1>0. /\ pass \in [Bridges -> PassStep]
      /\ pass'[b].pc = pc /\ \A o \in Bridges \ {b} : pass'[o] = pass[o]
  BY DEF ChatTyped, PassesTyped, Has
<1>1. \A o \in Bridges : pass'[o].pc \in Claiming => pass[o].pc \in Claiming
  BY <1>0
<1>2. Unasked => Unasked'
  BY <1>1 DEF Unasked
<1>3. Handling' <=> Handling
  BY DEF Handling
<1>4. HandlersOwn'
  BY <1>2 DEF AnswerInv, HandlersOwn, HandlingBy, Calm
<1>5. RowKnows'
  BY <1>0, <1>2, <1>3 DEF AnswerInv, RowKnows, Calm
<1>6. QueueKnows'
  BY <1>0, <1>1 DEF AnswerInv, QueueKnows, Calm
<1>7. DeliveringKnows'
  BY <1>0 DEF AnswerInv, DeliveringKnows
<1> QED
  BY <1>4, <1>5, <1>6, <1>7 DEF AnswerInv

(* A pass that writes the row when nobody handles the message. *)
LEMMA PassWrites ==
  ASSUME ChatTyped, AnswerInv, NEW b \in Bridges, NEW pc, NEW was, Has(b, pc, was),
         UNCHANGED <<chat, woken, agent, hand>>,
         ~Handling, ext.status # "absent", ext'.status # "absent",
         pc \notin {"promote", "free", "lookup", "retry", "retried", "down"} \cup Claiming,
         Calm(chat) /\ ext'.status \in Early => ext.status \in Early,
         woken => ext'.status \in {"deferred", "ignored"} /\ (ext.status = "ignored" => ext'.status = "ignored"),
         Calm(chat) => /\ ext'.status # "queueing"
                       /\ ext.status = "queueing" => pass[b].pc \in Claiming,
         DeliveringKnows'
  PROVE  AnswerInv'
<1>0. /\ pass \in [Bridges -> PassStep]
      /\ pass'[b].pc = pc /\ \A o \in Bridges \ {b} : pass'[o] = pass[o]
  BY DEF ChatTyped, PassesTyped, Has
<1>1. \A o \in Bridges : pass'[o].pc \in Claiming => pass[o].pc \in Claiming
  BY <1>0
<1>2. Unasked => Unasked'
  BY <1>1 DEF Unasked
<1>3. ~Handling' /\ \A d \in Deliveries : ~HandlingBy(d) /\ ~HandlingBy(d)'
  BY DEF Handling, HandlingBy
<1>4. HandlersOwn'
  BY <1>3 DEF AnswerInv, HandlersOwn, Calm
<1>5. RowKnows'
  BY <1>0, <1>2, <1>3 DEF AnswerInv, RowKnows, Calm
<1>6. QueueKnows'
  BY <1>0, <1>1 DEF AnswerInv, QueueKnows, Calm
<1> QED
  BY <1>4, <1>5, <1>6 DEF AnswerInv

(* Where nothing fails there is no fault. *)
LEMMA CalmIsCalm ==
  ASSUME ChatTyped, Calm(chat)
  PROVE  ~ChatFault /\ ~(trouble.crashes < chat.crashes)
BY DEF ChatTyped, Calm, ChatFault

(* The passes that only read. *)
LEMMA ReadingKeeps ==
  ASSUME ChatTyped, AnswerInv, NEW b \in Bridges,
         \/ listExpired(b) \/ lookupWake(b) \/ evaluateAmbient(b) \/ nothingToJudge(b)
         \/ listReceived(b) \/ findWake(b) \/ barrier(b) \/ recheckWake(b) \/ enqueueRun(b)
         \/ listRunning(b) \/ findPosted(b) \/ checkHandle(b) \/ sendReply(b) \/ retry(b)
         \/ passFails(b)
  PROVE  AnswerInv'
<1> DEFINE Rest == UNCHANGED <<chat, ext, late, woken, agent, hand>>
           From == pass[b].pc
<1>0. /\ ~Calm(chat) /\ (ext.status = "absent" \/ Handling \/ woken) =>
            From \notin {"promote", "free"} /\ (From = "lookup" => woken)
      /\ Calm(chat) => From \notin {"retry", "retried", "down"}
      /\ Calm(chat) /\ From \in Claiming => ext.status = "queueing"
      /\ Calm(chat) /\ ext.status = "queueing" => ext.reason = "agent" /\ late = {}
      /\ From \in Delivering => ext.status \in {"running", "delivering", "delivered"}
      /\ ext.handle # "none" => ext.status \in {"running", "delivering", "delivered"}
      /\ Handling => late = {}
  BY DEF AnswerInv, RowKnows, QueueKnows, DeliveringKnows, HandlersOwn, Handling, HandlingBy
<1>1. Claiming = {"claimed", "barrier", "lastLook", "create", "recheck", "cancel", "abandon", "link"}
      /\ Delivering = {"reserve", "posted", "unconfirm", "check", "send", "store", "finish", "silence"}
  BY DEF Claiming, Delivering
<1>2. ASSUME NEW pc, NEW was, Has(b, pc, was), Rest,
             pc \in Claiming => From \in Claiming,
             Calm(chat) => /\ pc \notin {"retry", "retried", "down"}
                           /\ From \in Claiming => pc \in Claiming,
             pc \in Delivering => ext.status \in {"running", "delivering", "delivered"},
             pc \notin {"promote", "free", "lookup"}
      PROVE  AnswerInv'
  BY <1>2, PassReads
<1>3. ASSUME NEW pc, Goes(b, pc), Rest,
             pc \in Claiming => From \in Claiming,
             Calm(chat) => /\ pc \notin {"retry", "retried", "down"}
                           /\ From \in Claiming => pc \in Claiming,
             pc \in Delivering => ext.status \in {"running", "delivering", "delivered"},
             pc \notin {"promote", "free", "lookup"}
      PROVE  AnswerInv'
  BY <1>2, <1>3 DEF Goes
<1>4. CASE listExpired(b)
  <2>1. CASE ext.status = "deferred" /\ b \in late
    <3>1. Has(b, "lookup", ext.reason) /\ Rest /\ From = "expired"
      BY <1>4, <2>1 DEF listExpired, notRow
    <3>2. ~(ext.status = "absent" \/ Handling)
      BY <1>0, <2>1
    <3> QED
      BY <1>1, <3>1, <3>2, PassReads
  <2>2. CASE ~(ext.status = "deferred" /\ b \in late)
    <3>1. Goes(b, "requeue") /\ Rest /\ From = "expired"
      BY <1>4, <2>2 DEF listExpired, notRow
    <3> QED
      BY <1>1, <1>3, <3>1
  <2> QED
    BY <2>1, <2>2
<1>5. CASE lookupWake(b)
  <2>1. Rest /\ From = "lookup"
    BY <1>5 DEF lookupWake, notRow
  <2>2. \/ Goes(b, "yield") \/ Goes(b, "requeue")
        \/ ~woken /\ \E pc \in {"promote", "free"} : Goes(b, pc)
    BY <1>5 DEF lookupWake
  <2>3. CASE Goes(b, "yield") \/ Goes(b, "requeue")
    BY <1>1, <1>3, <2>1, <2>3
  <2>4. ASSUME ~woken, NEW pc \in {"promote", "free"}, Goes(b, pc)
        PROVE  AnswerInv'
    <3>1. Calm(chat) \/ ~(ext.status = "absent" \/ Handling \/ woken)
      BY <1>0, <2>1, <2>4
    <3> QED
      BY <1>1, <2>1, <2>4, <3>1, PassReads DEF Goes
  <2> QED
    BY <2>2, <2>3, <2>4
<1>6. CASE evaluateAmbient(b) \/ nothingToJudge(b) \/ listReceived(b) \/ enqueueRun(b)
  <2>1. Rest /\ From \in {"judge", "received", "enqueue"}
    BY <1>6 DEF evaluateAmbient, nothingToJudge, listReceived, enqueueRun, notRow
  <2>2. \E pc \in {"engage", "ignore", "received", "queue", "running"} : Goes(b, pc)
    BY <1>6 DEF evaluateAmbient, nothingToJudge, listReceived, enqueueRun
  <2> QED
    BY <1>1, <1>3, <2>1, <2>2
<1>7. CASE findWake(b)
  <2>1. Rest
    BY <1>7 DEF findWake, notRow
  <2>2. \/ From = "queue" /\ \E pc \in {"giveway", "claim"} : Goes(b, pc)
        \/ From \in {"claimed", "lastLook"} /\ \E pc \in {"abandon", "barrier", "create"} : Goes(b, pc)
    BY <1>7 DEF findWake
  <2> QED
    BY <1>1, <1>3, <2>1, <2>2
<1>8. CASE barrier(b) \/ recheckWake(b)
  <2>1. Rest /\ From \in {"barrier", "recheck"}
    BY <1>8 DEF barrier, recheckWake, notRow
  <2>2. \E pc \in {"lastLook", "abandon", "cancel", "link"} : Goes(b, pc)
    BY <1>8 DEF barrier, recheckWake
  <2> QED
    BY <1>1, <1>3, <2>1, <2>2
<1>9. CASE listRunning(b)
  <2>1. Rest /\ From = "running"
    BY <1>9 DEF listRunning, notRow
  <2>2. \/ Goes(b, "idle")
        \/ /\ ext.status \in {"running", "delivering"}
           /\ \E pc \in {"silence", "reserve"} : Goes(b, pc)
    BY <1>9 DEF listRunning
  <2> QED
    BY <1>1, <1>3, <2>1, <2>2
<1>10. CASE findPosted(b) \/ checkHandle(b)
  <2>1. Rest /\ From \in {"posted", "check"}
    BY <1>10 DEF findPosted, checkHandle, notRow
  <2>2. \/ Has(b, "finish", ext.handle)
        \/ \E pc \in {"unconfirm", "send"} : Goes(b, pc)
    BY <1>10 DEF findPosted, checkHandle
  <2>3. ext.status \in {"running", "delivering", "delivered"}
    BY <1>0, <1>1, <2>1
  <2> QED
    BY <1>1, <1>2, <1>3, <2>1, <2>2, <2>3
<1>11. CASE sendReply(b)
  <2>1. Rest /\ From = "send"
    BY <1>11 DEF sendReply
  <2>2. ext.status \in {"running", "delivering", "delivered"}
    BY <1>0, <1>1, <2>1
  <2>3. Goes(b, "store") \/ (ChatFault /\ Goes(b, "retry"))
    BY <1>11 DEF sendReply
  <2> QED
    BY <1>1, <1>3, <2>1, <2>2, <2>3, CalmIsCalm
<1>12. CASE retry(b)
  <2>1. Rest /\ From = "retry"
    BY <1>12 DEF retry, notRow
  <2>2. \/ ext.handle # "none" /\ Has(b, "finish", ext.handle)
        \/ Goes(b, "idle")
        \/ Has(b, "retried", ext.status)
    BY <1>12 DEF retry
  <2> QED
    BY <1>0, <1>1, <1>2, <1>3, <2>1, <2>2
<1>13. CASE passFails(b)
  <2>1. Rest /\ ~Calm(chat)
    BY <1>13, CalmIsCalm DEF passFails
  <2>2. \E pc \in {"retry", "idle"} : Goes(b, pc)
    BY <1>13 DEF passFails
  <2> QED
    BY <1>1, <1>3, <2>1, <2>2
<1> QED
  BY <1>4, <1>5, <1>6, <1>7, <1>8, <1>9, <1>10, <1>11, <1>12, <1>13

(* The passes that write the row, where the condition of the write holds   *)
(* and where it does not.                                                  *)
LEMMA WritingKeeps ==
  ASSUME ChatTyped, AnswerInv, NEW b \in Bridges,
         \/ recoverExpired(b) \/ requeueExpired(b) \/ promoteAmbient(b) \/ markAmbientIgnored(b)
         \/ abandonForRoutine(b) \/ linkRun(b) \/ reserveDelivery(b) \/ unconfirm(b)
         \/ storeHandle(b) \/ markDelivered(b) \/ bridgeStarts(b)
  PROVE  AnswerInv'
<1> DEFINE Rest == UNCHANGED <<chat, woken, agent, hand>>
           From == pass[b].pc
           Done == {"running", "delivering", "delivered"}
           Quiet == {"requeue", "judge", "received", "running", "enqueue", "check", "posted", "idle",
                     "finish"}
<1>0. /\ ~Calm(chat) /\ woken => From \notin {"promote", "free"}
      /\ Calm(chat) => From \notin {"retry", "retried", "down"}
      /\ Calm(chat) /\ From \in Claiming => ext.status = "queueing"
      /\ Calm(chat) /\ ext.status = "queueing" => ext.reason = "agent" /\ late = {} /\ ~ext.linked
      /\ From \in Delivering => ext.status \in Done
      /\ ext.handle # "none" \/ ext.linked => ext.status \in Done
      /\ \A c \in Bridges : pass[c].pc \in Delivering => ext.status \in Done
      /\ Handling => late = {} /\ ext.status = "deferred" /\ ext.at \in {"soon", "held"}
      /\ woken => ext.status \in {"deferred", "ignored"}
      /\ woken /\ Calm(chat) => ext.status = "ignored" \/ Handling
      /\ pass \in [Bridges -> PassStep] /\ ext \in ChatRow
  BY DEF AnswerInv, RowKnows, QueueKnows, DeliveringKnows, HandlersOwn, Handling, HandlingBy,
         ChatTyped, PassesTyped, RowTyped
<1>1. Claiming = {"claimed", "barrier", "lastLook", "create", "recheck", "cancel", "abandon", "link"}
      /\ Delivering = {"reserve", "posted", "unconfirm", "check", "send", "store", "finish", "silence"}
      /\ Early = {"absent", "deferred", "received", "observed"}
  BY DEF Claiming, Delivering, Early
<1>2. \A pc, was : Has(b, pc, was) =>
        pass'[b].pc = pc /\ \A o \in Bridges \ {b} : pass'[o] = pass[o]
  BY <1>0 DEF Has
(* The condition does not hold. *)
<1>3. ASSUME NEW pc, NEW was, Has(b, pc, was), Rest, UNCHANGED <<ext, late>>,
             pc \in Quiet, pc \in {"check", "posted", "finish"} => ext.status \in Done,
             Calm(chat) /\ From \in Claiming => ext.status # "queueing"
      PROVE  AnswerInv'
  BY <1>1, <1>3, PassReads
(* It does. *)
<1>4. ASSUME NEW pc, NEW was, Has(b, pc, was), Rest,
             pc \in Quiet, pc \in {"check", "posted", "finish"} => ext'.status \in Done,
             ~Handling, ext.status # "absent", ext'.status # "absent",
             Calm(chat) /\ ext'.status \in Early => ext.status \in Early,
             ext.status \in Done => ext'.status \in Done,
             woken => ext'.status \in {"deferred", "ignored"} /\ (ext.status = "ignored" => ext'.status = "ignored"),
             Calm(chat) => ext'.status # "queueing" /\ (ext.status = "queueing" => From \in Claiming),
             (ext'.handle = ext.handle /\ ext'.linked = ext.linked) \/ ext'.status \in Done
      PROVE  AnswerInv'
  <2>1. DeliveringKnows'
    BY <1>0, <1>1, <1>2, <1>4 DEF DeliveringKnows
  <2> QED
    BY <1>1, <1>4, <2>1, PassWrites
<1>5. \A status, reason, at : Write(status, reason, at) =>
        ext'.status = status /\ ext'.handle = ext.handle /\ ext'.linked = ext.linked
  BY <1>0 DEF Write, ChatRow
<1>6. \A status, reason : WriteNow(b, status, reason) =>
        ext'.status = status /\ ext'.handle = ext.handle /\ ext'.linked = ext.linked
  BY <1>0 DEF WriteNow, ChatRow
<1>7. CASE recoverExpired(b)
  <2>1. Goes(b, "requeue") /\ Rest /\ From \in {"yield", "free", "promote"}
    BY <1>7 DEF recoverExpired, notRow
  <2>2. \/ UNCHANGED <<ext, late>>
        \/ /\ ext.status = "deferred" /\ b \in late
           /\ \/ Write("ignored", "wake", "null")
              \/ WriteNow(b, "deferred", "none")
              \/ From = "promote" /\ Write(Open, "none", "null")
    BY <1>7 DEF recoverExpired, WriteIf
  <2>3. Open \in {"received", "observed"}
    BY DEF Open
  <2>4. CASE UNCHANGED <<ext, late>>
    BY <1>1, <1>3, <2>1, <2>4 DEF Goes
  <2>5. CASE /\ ext.status = "deferred" /\ b \in late
             /\ Write("ignored", "wake", "null") \/ WriteNow(b, "deferred", "none")
    BY <1>0, <1>1, <1>4, <1>5, <1>6, <2>1, <2>5 DEF Goes
  <2>6. CASE /\ ext.status = "deferred" /\ b \in late
             /\ From = "promote" /\ Write(Open, "none", "null")
    <3>1. ~Handling /\ ~woken
      BY <1>0, <2>6
    <3>2. ext'.status \in {"received", "observed"} /\ ext'.handle = ext.handle /\ ext'.linked = ext.linked
      BY <1>5, <2>3, <2>6
    <3> QED
      BY <1>0, <1>1, <1>4, <2>1, <2>6, <3>1, <3>2 DEF Goes
  <2> QED
    BY <2>2, <2>4, <2>5, <2>6
<1>8. CASE requeueExpired(b)
  <2>1. Goes(b, "judge") /\ Rest /\ From = "requeue"
    BY <1>8 DEF requeueExpired, notRow
  <2>2. CASE ext.status = "queueing" /\ b \in late
    <3>1. ext'.status = "received" /\ ext'.handle = ext.handle /\ ext'.linked = ext.linked /\ ~Calm(chat)
      BY <1>0, <1>5, <1>8, <2>2 DEF requeueExpired, WriteIf
    <3> QED
      BY <1>0, <1>1, <1>4, <2>1, <2>2, <3>1 DEF Goes
  <2>3. CASE ~(ext.status = "queueing" /\ b \in late)
    BY <1>1, <1>3, <1>8, <2>1, <2>3 DEF requeueExpired, WriteIf, Goes
  <2> QED
    BY <2>2, <2>3
<1>9. CASE promoteAmbient(b) \/ markAmbientIgnored(b)
  <2>1. Goes(b, "received") /\ Rest /\ UNCHANGED late /\ From \in {"engage", "ignore"}
    BY <1>9 DEF promoteAmbient, markAmbientIgnored, notRow
  <2>2. CASE ext.status = "observed"
    <3>1. ext'.status \in {"received", "ignored"} /\ ext'.handle = ext.handle /\ ext'.linked = ext.linked
      BY <1>0, <1>9, <2>2 DEF promoteAmbient, markAmbientIgnored, ChatRow
    <3> QED
      BY <1>0, <1>1, <1>4, <2>1, <2>2, <3>1 DEF Goes
  <2>3. CASE ext.status # "observed"
    <3>1. UNCHANGED ext
      BY <1>9, <2>3 DEF promoteAmbient, markAmbientIgnored
    <3> QED
      BY <1>1, <1>3, <2>1, <3>1 DEF Goes
  <2> QED
    BY <2>2, <2>3
<1>10. CASE abandonForRoutine(b)
  <2>1. Goes(b, "running") /\ Rest /\ From \in {"giveway", "abandon"}
    BY <1>10 DEF abandonForRoutine, notRow
  <2>2. CASE UNCHANGED <<ext, late>> /\ ~(From = "abandon" /\ ext.status = "queueing" /\ ~ext.linked)
    BY <1>0, <1>1, <1>3, <2>1, <2>2 DEF Goes
  <2>3. CASE /\ Write("ignored", "wake", "null")
             /\ \/ From = "giveway" /\ ext.status = "received"
                \/ From = "abandon" /\ ext.status = "queueing"
    BY <1>0, <1>1, <1>4, <1>5, <2>1, <2>3 DEF Goes
  <2> QED
    BY <1>10, <2>2, <2>3 DEF abandonForRoutine, WriteIf
<1>11. CASE linkRun(b)
  <2>1. Rest /\ From = "link"
    BY <1>11 DEF linkRun, notRow
  <2>2. CASE ext.status = "queueing" /\ ext.reason = "agent"
    <3>1. Goes(b, "enqueue") /\ ext'.status = "running"
      BY <1>0, <1>11, <2>2 DEF linkRun, ChatRow
    <3> QED
      BY <1>0, <1>1, <1>4, <2>1, <2>2, <3>1 DEF Goes
  <2>3. CASE ~(ext.status = "queueing" /\ ext.reason = "agent")
    <3>1. Goes(b, "retry") /\ UNCHANGED <<ext, late>>
      BY <1>11, <2>3 DEF linkRun
    <3>2. ~Calm(chat)
      BY <1>0, <1>1, <2>1, <2>3
    <3> QED
      BY <1>1, <2>1, <3>1, <3>2, PassReads DEF Goes
  <2> QED
    BY <2>2, <2>3
<1>12. CASE reserveDelivery(b)
  <2>1. Rest /\ From = "reserve"
    BY <1>12 DEF reserveDelivery, notRow
  <2>2. CASE MayReserve
    <3>1. Goes(b, "check") /\ Write("delivering", ext.reason, "soon") /\ ext.status = "running"
      BY <1>12, <2>2 DEF reserveDelivery, WriteIf, MayReserve
    <3> QED
      BY <1>0, <1>1, <1>4, <1>5, <2>1, <3>1 DEF Goes
  <2>3. CASE ~MayReserve
    <3>1. Goes(b, "posted") /\ UNCHANGED <<ext, late>>
      BY <1>12, <2>3 DEF reserveDelivery, WriteIf
    <3> QED
      BY <1>0, <1>1, <1>3, <2>1, <3>1 DEF Goes
  <2> QED
    BY <2>2, <2>3
<1>13. CASE unconfirm(b)
  <2>1. Goes(b, "idle") /\ Rest /\ From = "unconfirm"
    BY <1>13 DEF unconfirm, notRow
  <2>2. CASE UNCHANGED <<ext, late>>
    BY <1>1, <1>3, <2>1, <2>2 DEF Goes
  <2>3. CASE ext' = [ext EXCEPT !.status = "delivered", !.handle = "unconfirmed", !.at = "null"]
    <3>1. ext'.status = "delivered" /\ ext.status \in Done
      BY <1>0, <1>1, <2>1, <2>3 DEF ChatRow
    <3> QED
      BY <1>0, <1>1, <1>4, <2>1, <3>1 DEF Goes
  <2> QED
    BY <1>13, <2>2, <2>3 DEF unconfirm
<1>14. CASE storeHandle(b)
  <2>1. /\ Has(b, "finish", "posted") /\ Rest /\ From = "store"
        /\ ext'.status = ext.status /\ ext.status \in Done
    BY <1>0, <1>1, <1>14 DEF storeHandle, notRow, ChatRow
  <2> QED
    BY <1>0, <1>1, <1>4, <2>1
<1>15. CASE markDelivered(b)
  <2>1. /\ Goes(b, "idle") /\ Rest /\ From \in {"finish", "silence"}
        /\ ext'.status = "delivered" /\ ext.status \in Done
    BY <1>0, <1>1, <1>15 DEF markDelivered, notRow, ChatRow
  <2> QED
    BY <1>0, <1>1, <1>4, <2>1 DEF Goes
<1>16. CASE bridgeStarts(b)
  <2>1. Goes(b, "idle") /\ Rest /\ From = "down" /\ ~Calm(chat)
    BY <1>0, <1>16 DEF bridgeStarts, notRow
  <2>2. CASE UNCHANGED <<ext, late>>
    BY <1>1, <1>3, <2>1, <2>2 DEF Goes
  <2>3. CASE ext.status = "deferred" /\ ext.at = "past" /\ WriteNow(b, "deferred", "none")
    BY <1>0, <1>1, <1>4, <1>6, <2>1, <2>3 DEF Goes
  <2> QED
    BY <1>16, <2>2, <2>3 DEF bridgeStarts
<1> QED
  BY <1>7, <1>8, <1>9, <1>10, <1>11, <1>12, <1>13, <1>14, <1>15, <1>16

(* A bridge that has claimed the message asks the bot, or takes it back. *)
LEMMA ClaimantActs ==
  ASSUME ChatTyped, AnswerInv, NEW b \in Bridges, createRun(b) \/ cancelFallback(b)
  PROVE  AnswerInv'
<1>0. /\ pass \in [Bridges -> PassStep]
      /\ pass[b].pc \in Claiming /\ pass'[b].pc \in Claiming
      /\ \A o \in Bridges \ {b} : pass'[o] = pass[o]
      /\ pass'[b].pc \in {"recheck", "abandon"}
  BY DEF ChatTyped, PassesTyped, createRun, cancelFallback, Goes, Has, Claiming
<1>1. UNCHANGED <<chat, ext, late, woken, hand>>
  BY DEF createRun, cancelFallback
<1>2. ~Unasked /\ (Handling' <=> Handling) /\ \A d \in Deliveries : HandlingBy(d)' <=> HandlingBy(d)
  BY <1>0, <1>1 DEF Unasked, Handling, HandlingBy
<1>3. /\ ext.status # "absent" /\ ~woken /\ ~Handling /\ (Calm(chat) => ext.status \notin Early)
      /\ \A d \in Deliveries : ~HandlingBy(d)
  BY <1>2 DEF AnswerInv, RowKnows, HandlersOwn, Handling, HandlingBy
<1>4. HandlersOwn'
  BY <1>1, <1>2, <1>3 DEF AnswerInv, HandlersOwn, Calm
<1>5. RowKnows'
  BY <1>1, <1>2, <1>3 DEF RowKnows, Calm
<1>6. QueueKnows'
  BY <1>0, <1>1 DEF AnswerInv, QueueKnows, Calm
<1>7. DeliveringKnows'
  BY <1>0, <1>1 DEF AnswerInv, DeliveringKnows, Claiming, Delivering
<1> QED
  BY <1>4, <1>5, <1>6, <1>7 DEF AnswerInv

(* The claim: the message is nobody's, and no other bridge queues it. *)
LEMMA ClaimKeeps ==
  ASSUME ChatTyped, AnswerInv, NEW b \in Bridges, claimQueueing(b)
  PROVE  AnswerInv'
<1>0. pass \in [Bridges -> PassStep] /\ ext \in ChatRow
  BY DEF ChatTyped, PassesTyped, RowTyped
<1>1. pass[b].pc = "claim" /\ UNCHANGED <<chat, woken, agent, hand>>
  BY DEF claimQueueing, notRow
<1>2. CASE ~Claimable
  <2>1. Goes(b, "running") /\ UNCHANGED <<ext, late>>
    BY <1>2 DEF claimQueueing, WriteIf
  <2> QED
    BY <1>1, <2>1, PassReads DEF Goes, Claiming, Delivering
<1>3. CASE Claimable
  <2>1. /\ pass'[b].pc = "claimed" /\ \A o \in Bridges \ {b} : pass'[o] = pass[o]
        /\ ext'.status = "queueing" /\ ext'.reason = "agent" /\ ext'.at = "soon" /\ late' = {}
        /\ ext'.handle = ext.handle /\ ext'.linked = ext.linked
        /\ ext.status = "received"
    BY <1>0, <1>3 DEF claimQueueing, WriteIf, Write, ChatRow, Goes, Has, Claimable
  <2>2. /\ ~woken /\ ~Handling /\ \A d \in Deliveries : ~HandlingBy(d)
        /\ ext.handle = "none" /\ ~ext.linked
    BY <2>1 DEF AnswerInv, RowKnows, HandlersOwn, DeliveringKnows, Handling, HandlingBy
  <2>3. ~Handling' /\ ~woken' /\ \A d \in Deliveries : ~HandlingBy(d)'
    BY <1>1, <2>2 DEF Handling, HandlingBy
  <2>4. HandlersOwn'
    BY <1>1, <2>1, <2>3 DEF AnswerInv, HandlersOwn, Calm
  <2>5. RowKnows'
    BY <1>1, <2>1, <2>3 DEF RowKnows, Early
  <2>6. QueueKnows'
    <3> SUFFICES ASSUME Calm(chat)' PROVE QueueKnows'
      BY DEF QueueKnows
    <3>1. Calm(chat) /\ Unasked
      BY <1>1, <2>1 DEF AnswerInv, RowKnows, Calm, Early
    <3>2. \A o \in Bridges : pass'[o].pc \in Claiming => o = b
      BY <2>1, <3>1 DEF Unasked
    <3> QED
      BY <2>1, <2>2, <3>1, <3>2 DEF AnswerInv, QueueKnows, Claiming
  <2>7. DeliveringKnows'
    BY <2>1, <2>2 DEF AnswerInv, DeliveringKnows, Delivering
  <2> QED
    BY <2>4, <2>5, <2>6, <2>7 DEF AnswerInv
<1> QED
  BY <1>2, <1>3

(* A pass begins: what it takes for expired is not handled. *)
LEMMA BeginningKeeps ==
  ASSUME ChatTyped, AnswerInv, NEW b \in Bridges, reconcileBegins(b)
  PROVE  AnswerInv'
<1>0. /\ pass \in [Bridges -> PassStep] /\ pass[b].pc = "idle"
      /\ pass'[b].pc = "expired" /\ \A o \in Bridges \ {b} : pass'[o] = pass[o]
      /\ ext.status # "absent"
      /\ UNCHANGED <<chat, ext, woken, agent, hand>>
  BY DEF ChatTyped, PassesTyped, reconcileBegins, Goes, Has, notRow
<1>1. ext.at # "past" /\ late = {} => late' = {}
  BY DEF reconcileBegins
<1>2. \A o \in Bridges : pass'[o].pc \in Claiming <=> pass[o].pc \in Claiming
  BY <1>0 DEF Claiming
<1>3. /\ Unasked => Unasked'
      /\ Handling' <=> Handling
      /\ \A d \in Deliveries : HandlingBy(d)' <=> HandlingBy(d)
  BY <1>0, <1>2 DEF Unasked, Handling, HandlingBy
<1>4. HandlersOwn'
  BY <1>0, <1>1, <1>3 DEF AnswerInv, HandlersOwn, Calm
<1>5. RowKnows'
  BY <1>0, <1>3 DEF AnswerInv, RowKnows, Calm
<1>6. QueueKnows'
  BY <1>0, <1>1, <1>2 DEF AnswerInv, QueueKnows, Calm
<1>7. DeliveringKnows'
  BY <1>0 DEF AnswerInv, DeliveringKnows, Delivering
<1> QED
  BY <1>4, <1>5, <1>6, <1>7 DEF AnswerInv

(* What has failed is put off, or received again. *)
LEMMA RetryKeeps ==
  ASSUME ChatTyped, AnswerInv, NEW b \in Bridges, retryWrites(b)
  PROVE  AnswerInv'
<1>0. /\ pass \in [Bridges -> PassStep] /\ ext \in ChatRow
      /\ pass[b].pc = "retried" /\ Goes(b, "running")
      /\ UNCHANGED <<chat, woken, agent, hand>>
  BY DEF ChatTyped, PassesTyped, RowTyped, retryWrites, notRow
<1>1. ~Calm(chat)
  BY <1>0 DEF AnswerInv, QueueKnows
<1>2. CASE UNCHANGED <<ext, late>>
  BY <1>0, <1>2, PassReads DEF Goes, Claiming, Delivering
<1>3. CASE /\ ext.handle = "none" /\ ext.status = "queueing"
           /\ Write("received", "none", "soon")
  <2>1. ext'.status = "received" /\ ext'.handle = ext.handle /\ ext'.linked = ext.linked
    BY <1>0, <1>3 DEF Write, ChatRow
  <2>2. ~Handling /\ ~woken
    BY <1>3 DEF AnswerInv, HandlersOwn, RowKnows, Handling, HandlingBy
  <2>3. DeliveringKnows'
    BY <1>0, <1>3, <2>1 DEF AnswerInv, DeliveringKnows, Goes, Has, Delivering
  <2> QED
    BY <1>0, <1>1, <1>3, <2>1, <2>2, <2>3, PassWrites DEF Goes, Claiming
<1>4. CASE Write(ext.status, ext.reason, "soon")
  <2>1. /\ ext'.status = ext.status /\ ext'.handle = ext.handle /\ ext'.linked = ext.linked
        /\ ext'.at = "soon" /\ late' = {}
        /\ pass'[b].pc = "running" /\ \A o \in Bridges \ {b} : pass'[o] = pass[o]
    BY <1>0, <1>4 DEF Write, ChatRow, Goes, Has
  <2>2. /\ Unasked => Unasked'
        /\ Handling' <=> Handling
        /\ \A d \in Deliveries : HandlingBy(d)' <=> HandlingBy(d)
    BY <1>0, <2>1 DEF Unasked, Handling, HandlingBy, Claiming
  <2>3. HandlersOwn'
    BY <1>0, <2>1, <2>2 DEF AnswerInv, HandlersOwn, Calm
  <2>4. RowKnows'
    BY <1>0, <1>1, <2>1, <2>2 DEF AnswerInv, RowKnows, Calm
  <2>5. QueueKnows'
    BY <1>0, <1>1 DEF QueueKnows, Calm
  <2>6. DeliveringKnows'
    BY <2>1 DEF AnswerInv, DeliveringKnows, Delivering
  <2> QED
    BY <2>3, <2>4, <2>5, <2>6 DEF AnswerInv
<1> QED
  BY <1>2, <1>3, <1>4 DEF retryWrites, WriteIf, BackFrom

(* With the process die its pass and the handlers in it. *)
LEMMA DyingKeeps ==
  ASSUME ChatTyped, AnswerInv, NEW b \in Bridges, bridgeDies(b)
  PROVE  AnswerInv'
<1>0. /\ pass \in [Bridges -> PassStep] /\ hand \in [Deliveries -> HandStep]
      /\ pass'[b].pc = "down" /\ \A o \in Bridges \ {b} : pass'[o] = pass[o]
      /\ UNCHANGED <<chat, ext, late, woken, agent>>
  BY DEF ChatTyped, PassesTyped, bridgeDies
<1>1. ~Calm(chat)
  BY CalmIsCalm DEF bridgeDies
<1>2. \A d \in Deliveries :
        hand'[d] = hand[d] \/ (hand[d].pc # "none" /\ hand'[d] = [pc |-> "dead", wake |-> "none"])
  BY DEF bridgeDies
<1>3. /\ Unasked => Unasked'
      /\ \A d \in Deliveries : HandlingBy(d)' => HandlingBy(d) /\ hand'[d] = hand[d]
      /\ Handling' => Handling
  BY <1>0, <1>2 DEF Unasked, Handling, HandlingBy, Claiming, Acting
<1>4. HandlersOwn'
  BY <1>0, <1>1, <1>2, <1>3 DEF AnswerInv, HandlersOwn, Calm
<1>5. RowKnows'
  BY <1>0, <1>1, <1>3 DEF AnswerInv, RowKnows, Calm
<1>6. QueueKnows'
  BY <1>0, <1>1 DEF QueueKnows, Calm
<1>7. DeliveringKnows'
  BY <1>0 DEF AnswerInv, DeliveringKnows, Delivering
<1> QED
  BY <1>4, <1>5, <1>6, <1>7 DEF AnswerInv

(* A handler's step by which it goes on deciding. *)
LEMMA HandlerGoesOn ==
  ASSUME ChatTyped, AnswerInv, NEW d \in Deliveries, NEW step, HandlingBy(d),
         hand' = [hand EXCEPT ![d] = step], UNCHANGED <<chat, woken, agent, pass>>,
         step.pc \in Acting,
         step.wake \in {"find", "reserve", "deliver"} => step.pc \in {"race", "rehold", "held", "await"},
         woken => step.wake = "true" /\ step.pc # "release",
         \/ UNCHANGED <<ext, late>>
         \/ \E reason \in Reasons : Write("deferred", reason, "held")
  PROVE  AnswerInv'
<1>0. ext \in ChatRow /\ hand \in [Deliveries -> HandStep]
  BY DEF ChatTyped, RowTyped
<1>1. /\ ext'.status = ext.status /\ ext.status = "deferred" /\ ext'.at \in {"soon", "held"}
      /\ late' = {} /\ ext'.handle = ext.handle /\ ext'.linked = ext.linked
  BY <1>0 DEF AnswerInv, HandlersOwn, Write, ChatRow
<1>2. hand'[d] = step /\ \A e \in Deliveries \ {d} : hand'[e] = hand[e]
  BY <1>0
<1>3. /\ Unasked <=> Unasked'
      /\ Handling /\ Handling'
      /\ \A e \in Deliveries : HandlingBy(e)' <=> HandlingBy(e)
  BY <1>2 DEF Unasked, Handling, HandlingBy
<1>4. Acting \cap {"hold", "none", "reclaim", "receive"} = {} /\ hand[d].pc # "none"
  BY DEF Acting, HandlingBy
<1>5. HandlersOwn'
  BY <1>1, <1>2, <1>3, <1>4 DEF AnswerInv, HandlersOwn, Calm
<1>6. RowKnows'
  BY <1>1, <1>3 DEF AnswerInv, RowKnows, Calm
<1>7. QueueKnows'
  BY <1>1 DEF AnswerInv, QueueKnows, Calm
<1>8. DeliveringKnows'
  BY <1>1 DEF AnswerInv, DeliveringKnows
<1> QED
  BY <1>5, <1>6, <1>7, <1>8 DEF AnswerInv

(* It ends: with the row settled, with the row given to the agent if no    *)
(* routine was woken, or by a failure that leaves the row to a bridge.     *)
LEMMA HandlerEnds ==
  ASSUME ChatTyped, AnswerInv, NEW d \in Deliveries, HandlingBy(d), HandTo(d, "done"),
         UNCHANGED <<chat, woken, agent, pass>>,
         hand[d].wake \notin {"find", "reserve", "deliver"},
         \/ UNCHANGED <<ext, late>> /\ ~Calm(chat)
         \/ Write("ignored", "wake", "null")
         \/ Write(Open, "none", "null") /\ ~woken
  PROVE  AnswerInv'
<1>0. ext \in ChatRow /\ hand \in [Deliveries -> HandStep]
  BY DEF ChatTyped, RowTyped
<1>1. /\ ext.status = "deferred" /\ late = {}
      /\ ext'.status \in {"deferred", "ignored", "received", "observed"}
      /\ late' = {} /\ ext'.handle = ext.handle /\ ext'.linked = ext.linked
      /\ woken => ext'.status \in {"deferred", "ignored"}
      /\ woken /\ Calm(chat) => ext'.status = "ignored"
  BY <1>0 DEF AnswerInv, HandlersOwn, Write, ChatRow, Open
<1>2. /\ hand'[d].pc = "done" /\ hand'[d].wake = hand[d].wake
      /\ \A e \in Deliveries \ {d} : hand'[e] = hand[e]
  BY <1>0 DEF HandTo, HandStep
<1>3. Handling /\ Unasked /\ Unasked' /\ d \in chat.deliveries
  BY DEF AnswerInv, HandlersOwn, Handling, HandlingBy, Unasked, Acting
<1>4. ~Handling' /\ \A e \in Deliveries : ~HandlingBy(e)'
  BY <1>2 DEF AnswerInv, HandlersOwn, Handling, HandlingBy, Acting
<1>5. HandlersOwn'
  BY <1>1, <1>2, <1>3, <1>4 DEF AnswerInv, HandlersOwn, Calm
<1>6. RowKnows'
  BY <1>1, <1>3 DEF AnswerInv, RowKnows, Calm
<1>7. QueueKnows'
  BY <1>1, <1>3 DEF AnswerInv, QueueKnows, Calm
<1>8. DeliveringKnows'
  BY <1>1 DEF AnswerInv, DeliveringKnows
<1> QED
  BY <1>5, <1>6, <1>7, <1>8 DEF AnswerInv

(* It begins with a row that is nobody's. *)
LEMMA HandlerBegins ==
  ASSUME ChatTyped, AnswerInv, NEW d \in Deliveries,
         hand[d].pc \in {"receive", "reclaim"}, HandTo(d, "hold"),
         UNCHANGED <<chat, woken, agent, pass>>,
         NEW reason \in Reasons, Write("deferred", reason, "soon"),
         ~Handling, ~woken, ext.status \in Early,
         ~Calm(chat) => ext.status = "absent" /\ \A e, f \in chat.deliveries : e = f
  PROVE  AnswerInv'
<1>0. ext \in ChatRow /\ hand \in [Deliveries -> HandStep]
  BY DEF ChatTyped, RowTyped
<1>1. /\ ext'.status = "deferred" /\ ext'.at = "soon" /\ late' = {}
      /\ ext'.handle = ext.handle /\ ext'.linked = ext.linked
  BY <1>0 DEF Write, ChatRow
<1>2. /\ hand'[d].pc = "hold" /\ hand'[d].wake = hand[d].wake
      /\ \A e \in Deliveries \ {d} : hand'[e] = hand[e]
  BY <1>0 DEF HandTo, HandStep
<1>3. Unasked /\ Unasked'
  BY DEF AnswerInv, RowKnows, Unasked
<1>4. /\ \A e \in Deliveries : ~HandlingBy(e)
      /\ \A e \in Deliveries : HandlingBy(e)' <=> e = d
      /\ d \in chat.deliveries
      /\ hand[d].wake \notin {"find", "reserve", "deliver"}
  BY <1>2 DEF Handling, HandlingBy, AnswerInv, HandlersOwn, Acting
<1>5. HandlersOwn'
  BY <1>1, <1>2, <1>3, <1>4 DEF AnswerInv, HandlersOwn, Calm
<1>6. RowKnows'
  BY <1>1, <1>3 DEF AnswerInv, RowKnows, Calm
<1>7. QueueKnows'
  BY <1>1, <1>3 DEF AnswerInv, QueueKnows, Calm, Unasked
<1>8. DeliveringKnows'
  BY <1>1 DEF AnswerInv, DeliveringKnows, Early
<1> QED
  BY <1>5, <1>6, <1>7, <1>8 DEF AnswerInv

(* A delivery that has not come to the row, or has left it alone. *)
LEMMA HandlerStands ==
  ASSUME ChatTyped, AnswerInv, NEW d \in Deliveries, NEW pc, HandTo(d, pc),
         UNCHANGED <<chat, ext, late, woken, agent, pass>>,
         hand[d].pc \in {"none", "receive", "reclaim"}, d \in chat.deliveries,
         pc \in {"receive", "reclaim", "done"},
         pc = "receive" => hand[d].pc \in {"none", "receive"},
         pc = "reclaim" => Calm(chat)
  PROVE  AnswerInv'
<1>0. hand \in [Deliveries -> HandStep]
  BY DEF ChatTyped
<1>1. /\ hand'[d].pc = pc /\ hand'[d].wake = hand[d].wake
      /\ \A e \in Deliveries \ {d} : hand'[e] = hand[e]
  BY <1>0 DEF HandTo, HandStep
<1>2. /\ Unasked <=> Unasked'
      /\ Handling' <=> Handling
      /\ \A e \in Deliveries : HandlingBy(e)' <=> HandlingBy(e)
      /\ \A e \in Deliveries : HandlingBy(e)' => hand'[e] = hand[e]
  BY <1>1 DEF Unasked, Handling, HandlingBy, Acting
<1>3. HandlersOwn'
  BY <1>1, <1>2 DEF AnswerInv, HandlersOwn, Calm
<1>4. RowKnows'
  BY <1>2 DEF AnswerInv, RowKnows, Calm
<1>5. QueueKnows'
  BY DEF AnswerInv, QueueKnows, Calm
<1>6. DeliveringKnows'
  BY DEF AnswerInv, DeliveringKnows
<1> QED
  BY <1>3, <1>4, <1>5, <1>6 DEF AnswerInv

(* A message that is not stored yet, and where nobody wakes routines. *)
LEMMA StoringKeeps ==
  ASSUME ChatTyped, AnswerInv, NEW d \in Deliveries, hand[d].pc = "receive", HandTo(d, "done"),
         UNCHANGED <<chat, woken, agent, pass>>,
         ext.status = "absent", Write(Open, "none", "null"),
         ~Calm(chat) => \A e, f \in chat.deliveries : e = f
  PROVE  AnswerInv'
<1>0. ext \in ChatRow /\ hand \in [Deliveries -> HandStep]
  BY DEF ChatTyped, RowTyped
<1>1. /\ ext'.status \in {"received", "observed"} /\ late' = {}
      /\ ext'.handle = ext.handle /\ ext'.linked = ext.linked
  BY <1>0 DEF Write, ChatRow, Open
<1>2. /\ hand'[d].pc = "done" /\ hand'[d].wake = hand[d].wake
      /\ \A e \in Deliveries \ {d} : hand'[e] = hand[e]
  BY <1>0 DEF HandTo, HandStep
<1>3. Unasked /\ Unasked' /\ ~woken /\ d \in chat.deliveries
  BY DEF AnswerInv, RowKnows, HandlersOwn, Unasked
<1>4. /\ \A e \in Deliveries : ~HandlingBy(e) /\ ~HandlingBy(e)'
      /\ ~Handling'
      /\ hand[d].wake \notin {"find", "reserve", "deliver"}
  BY <1>2 DEF Handling, HandlingBy, AnswerInv, HandlersOwn, Acting
<1>5. HandlersOwn'
  BY <1>2, <1>3, <1>4 DEF AnswerInv, HandlersOwn, Calm
<1>6. RowKnows'
  BY <1>1, <1>3, <1>4 DEF AnswerInv, RowKnows, Calm
<1>7. QueueKnows'
  BY <1>1, <1>3 DEF AnswerInv, QueueKnows, Calm, Unasked
<1>8. DeliveringKnows'
  BY <1>1 DEF AnswerInv, DeliveringKnows
<1> QED
  BY <1>5, <1>6, <1>7, <1>8 DEF AnswerInv

(* The routine is woken while its handler has the row. *)
LEMMA WakingKeeps ==
  ASSUME ChatTyped, AnswerInv, NEW d \in Deliveries, deliverWake(d)
  PROVE  AnswerInv'
<1>0. hand \in [Deliveries -> HandStep]
  BY DEF ChatTyped
<1>1. /\ woken' = TRUE /\ hand[d].wake = "deliver"
      /\ UNCHANGED <<chat, ext, late, agent, pass>>
      /\ hand'[d].wake = "true" /\ hand'[d].pc = hand[d].pc
      /\ \A e \in Deliveries \ {d} : hand'[e] = hand[e]
  BY <1>0 DEF deliverWake, WakeTo, HandStep
<1>2. /\ hand[d].pc \in {"race", "rehold", "held", "await"}
      /\ HandlingBy(d) /\ Handling
  BY <1>1 DEF AnswerInv, HandlersOwn, Handling, HandlingBy, Acting
<1>3. /\ Unasked /\ Unasked'
      /\ ext.status = "deferred"
      /\ Handling'
      /\ \A e \in Deliveries : HandlingBy(e)' <=> HandlingBy(e)
      /\ \A e \in Deliveries : HandlingBy(e) => e = d
  BY <1>1, <1>2 DEF AnswerInv, HandlersOwn, Handling, HandlingBy, Unasked
<1>4. HandlersOwn'
  BY <1>1, <1>2, <1>3 DEF AnswerInv, HandlersOwn, Calm
<1>5. RowKnows'
  BY <1>1, <1>2, <1>3 DEF AnswerInv, RowKnows, Calm
<1>6. QueueKnows'
  BY <1>1 DEF AnswerInv, QueueKnows, Calm
<1>7. DeliveringKnows'
  BY <1>1 DEF AnswerInv, DeliveringKnows
<1> QED
  BY <1>4, <1>5, <1>6, <1>7 DEF AnswerInv

LEMMA DeliveryKeeps ==
  ASSUME ChatTyped, AnswerInv, Orderly(chat), NEW d \in Deliveries,
         arrives(d) \/ renew(d) \/ renewFails(d) \/ handlerFails(d) \/ wakeThrows(d)
           \/ Handles(d) \/ Wakes(d)
  PROVE  AnswerInv'
<1> DEFINE Rest == UNCHANGED <<chat, woken, agent, pass>>
           Row == UNCHANGED <<ext, late>>
           Asks == {"race", "rehold", "held", "await"}
<1>0. /\ ext \in ChatRow /\ ext.reason \in Reasons /\ {"routing", "none"} \subseteq Reasons
      /\ hand \in [Deliveries -> HandStep]
      /\ Acting = {"race", "rehold", "held", "await", "own", "release"}
  BY DEF ChatTyped, RowTyped, ChatRow, Reasons, Acting
<1>1. /\ hand[d].wake \in {"find", "reserve", "deliver"} => hand[d].pc \in Asks
      /\ HandlingBy(d) => /\ ext.status = "deferred"
                          /\ woken => hand[d].wake = "true" /\ hand[d].pc \notin {"release", "hold"}
      /\ hand[d].pc # "none" => d \in chat.deliveries
      /\ ~Calm(chat) => /\ hand[d].pc # "reclaim"
                        /\ d \in chat.deliveries /\ hand[d].pc \in {"none", "receive"} => ext.status = "absent"
      /\ ~Calm(chat) => \A e, f \in chat.deliveries : e = f
  BY DEF AnswerInv, HandlersOwn, Orderly
<1>2. HandlingBy(d) <=> hand[d].pc \in Acting \cup {"hold"}
  BY DEF HandlingBy
<1>3. ChatFault => ~Calm(chat)
  BY CalmIsCalm
(* The handler goes on, by a step of its own or of the wake. *)
<1>4. ASSUME NEW pc \in Acting, HandTo(d, pc), HandlingBy(d), Rest,
             Row \/ \E reason \in Reasons : Write("deferred", reason, "held"),
             hand[d].wake \in {"find", "reserve", "deliver"} => pc \in Asks,
             woken => pc # "release"
      PROVE  AnswerInv'
  <2>1. hand' = [hand EXCEPT ![d] = [@ EXCEPT !.pc = pc]]
    BY <1>4 DEF HandTo
  <2>2. [hand[d] EXCEPT !.pc = pc].pc = pc /\ [hand[d] EXCEPT !.pc = pc].wake = hand[d].wake
    BY <1>0 DEF HandStep
  <2> QED
    BY <1>1, <1>4, <2>1, <2>2, HandlerGoesOn
<1>5. ASSUME NEW w \in {"reserve", "deliver", "false", "threw"}, WakeTo(d, w), Rest,
             hand[d].wake \in {"find", "reserve", "deliver"},
             Row \/ \E reason \in Reasons : Write("deferred", reason, "held")
      PROVE  AnswerInv'
  <2>1. hand' = [hand EXCEPT ![d] = [@ EXCEPT !.wake = w]]
    BY <1>5 DEF WakeTo
  <2>2. [hand[d] EXCEPT !.wake = w].pc = hand[d].pc /\ [hand[d] EXCEPT !.wake = w].wake = w
    BY <1>0 DEF HandStep
  <2>3. hand[d].pc \in Asks /\ HandlingBy(d) /\ hand[d].pc \in Acting /\ ~woken
    BY <1>0, <1>1, <1>2, <1>5
  <2> QED
    BY <1>5, <2>1, <2>2, <2>3, HandlerGoesOn
<1>6. CASE arrives(d)
  BY <1>6, HandlerStands DEF arrives, notRow
<1>7. CASE receive(d)
  <2>1. Rest /\ hand[d].pc = "receive" /\ d \in chat.deliveries
    BY <1>1, <1>7 DEF receive, notRow
  <2>2. CASE ext.status = "absent" /\ chat.wakes
    <3>1. ~Handling /\ ~woken /\ ext.status \in Early
      BY <2>2 DEF AnswerInv, HandlersOwn, RowKnows, Handling, HandlingBy, Early
    <3>2. Write("deferred", "none", "soon") /\ HandTo(d, "hold")
      BY <1>7, <2>2 DEF receive
    <3> QED
      BY <1>0, <1>1, <2>1, <2>2, <3>1, <3>2, HandlerBegins
  <2>3. CASE ext.status = "absent" /\ ~chat.wakes
    <3>1. Write(Open, "none", "null") /\ HandTo(d, "done")
      BY <1>7, <2>3 DEF receive
    <3> QED
      BY <1>1, <2>1, <2>3, <3>1, StoringKeeps
  <2>4. CASE ext.status # "absent"
    <3>1. Row /\ \E pc \in {"reclaim", "done"} : HandTo(d, pc)
      BY <1>7, <2>4 DEF receive
    <3>2. Calm(chat)
      BY <1>1, <2>1, <2>4
    <3> QED
      BY <2>1, <3>1, <3>2, HandlerStands
  <2> QED
    BY <2>2, <2>3, <2>4
<1>8. CASE reclaim(d)
  <2>1. Rest /\ hand[d].pc = "reclaim" /\ d \in chat.deliveries /\ Calm(chat)
    BY <1>1, <1>8 DEF reclaim, notRow
  <2>2. CASE Reclaimable
    <3>1. ext.status \in {"received", "observed", "deferred"} /\ (ext.status = "deferred" => ext.at = "past")
      BY <2>2 DEF Reclaimable, Waiting
    <3>2. ~Handling /\ ext.status \in Early
      BY <3>1 DEF AnswerInv, HandlersOwn, Handling, HandlingBy, Early
    <3>3. ~woken
      BY <2>1, <3>1, <3>2 DEF AnswerInv, RowKnows
    <3>4. Write("deferred", ext.reason, "soon") /\ HandTo(d, "hold")
      BY <1>8, <2>2 DEF reclaim, WriteIf
    <3> QED
      BY <1>0, <2>1, <3>2, <3>3, <3>4, HandlerBegins
  <2>3. CASE ~Reclaimable
    <3>1. Row /\ HandTo(d, "done")
      BY <1>8, <2>3 DEF reclaim, WriteIf
    <3> QED
      BY <2>1, <3>1, HandlerStands
  <2> QED
    BY <2>2, <2>3
<1>9. ext.status = "deferred" /\ Extend => \E reason \in Reasons : Write("deferred", reason, "held")
  BY <1>0 DEF Extend, WriteIf
<1>10. CASE hold(d)
  <2>1. Rest /\ hand[d].pc = "hold" /\ HandlingBy(d) /\ ext.status = "deferred" /\ ~woken
    BY <1>1, <1>2, <1>10 DEF hold, notRow
  <2>2. hand' = [hand EXCEPT ![d] = [pc |-> "race", wake |-> "find"]]
    BY <1>10, <2>1 DEF hold
  <2>3. \E reason \in Reasons : Write("deferred", reason, "held")
    BY <1>9, <1>10, <2>1 DEF hold
  <2>4. hand' = [hand EXCEPT ![d] = [pc |-> "race", wake |-> "find"]] /\ "race" \in Acting
    BY <1>0, <2>2
  <2> DEFINE step == [pc |-> "race", wake |-> "find"]
  <2>5. /\ hand' = [hand EXCEPT ![d] = step] /\ step.pc \in Acting /\ step.pc \in Asks
        /\ step.wake = "find"
    BY <2>4
  <2> HIDE DEF step
  <2> QED
    BY <2>1, <2>3, <2>5, HandlerGoesOn
<1>11. CASE renew(d)
  <2>1. Rest /\ hand[d].pc \in {"race", "held"} /\ HandlingBy(d) /\ ext.status = "deferred"
    BY <1>0, <1>1, <1>2, <1>11 DEF renew, notRow
  <2>2. UNCHANGED hand /\ \E reason \in Reasons : Write("deferred", reason, "held")
    BY <1>9, <1>11, <2>1 DEF renew
  <2>3. hand' = [hand EXCEPT ![d] = hand[d]]
    BY <1>0, <2>2
  <2> QED
    BY <1>0, <1>1, <2>1, <2>2, <2>3, HandlerGoesOn
<1>12. CASE rehold(d)
  <2>1. Rest /\ hand[d].pc = "rehold" /\ HandlingBy(d) /\ ext.status = "deferred"
    BY <1>0, <1>1, <1>2, <1>12 DEF rehold, notRow
  <2>2. HandTo(d, "held") /\ \E reason \in Reasons : Write("deferred", reason, "held")
    BY <1>9, <1>12, <2>1 DEF rehold
  <2> QED
    BY <1>0, <1>4, <2>1, <2>2
<1>13. CASE wakeEnds(d)
  <2>1. /\ Rest /\ Row /\ HandlingBy(d) /\ hand[d].wake \in {"true", "false", "threw"}
        /\ \E pc \in {"own", "release"} : HandTo(d, pc) /\ (pc = "release" => hand[d].wake # "true")
    BY <1>0, <1>2, <1>13 DEF wakeEnds, notRow
  <2> QED
    BY <1>0, <1>1, <1>4, <2>1
<1>14. CASE resolveRoutine(d)
  <2>1. Rest /\ hand[d].pc = "own" /\ HandlingBy(d) /\ ext.status = "deferred" /\ HandTo(d, "done")
    BY <1>0, <1>1, <1>2, <1>14 DEF resolveRoutine, notRow
  <2>2. Write("ignored", "wake", "null")
    BY <1>14, <2>1 DEF resolveRoutine, WriteIf, Ownable
  <2> QED
    BY <1>1, <2>1, <2>2, HandlerEnds
<1>15. CASE resolveAgent(d)
  <2>1. /\ Rest /\ hand[d].pc = "release" /\ HandlingBy(d) /\ ext.status = "deferred" /\ ~woken
        /\ HandTo(d, "done")
    BY <1>0, <1>1, <1>2, <1>15 DEF resolveAgent, notRow
  <2>2. Write(Open, "none", "null")
    BY <1>15, <2>1 DEF resolveAgent, WriteIf
  <2> QED
    BY <1>1, <2>1, <2>2, HandlerEnds
<1>16. CASE handlerFails(d)
  <2>1. Rest /\ Row /\ HandTo(d, "done") /\ ~Calm(chat)
    BY <1>3, <1>16 DEF handlerFails
  <2>2. hand[d].pc = "receive" \/ hand[d].pc \in {"hold", "own", "release"}
    BY <1>1, <1>16, <2>1 DEF handlerFails
  <2>3. CASE hand[d].pc = "receive"
    BY <1>1, <2>1, <2>3, HandlerStands
  <2>4. CASE hand[d].pc \in {"hold", "own", "release"}
    BY <1>0, <1>1, <1>2, <2>1, <2>4, HandlerEnds
  <2> QED
    BY <2>2, <2>3, <2>4
<1>17. CASE findRoutines(d)
  BY <1>5, <1>17 DEF findRoutines, notRow
<1>18. CASE reserveWake(d)
  <2>1. Rest /\ hand[d].wake = "reserve" /\ ext.status = "deferred"
    BY <1>0, <1>1, <1>2, <1>18 DEF reserveWake, notRow
  <2>2. /\ \E w \in {"deliver", "false"} : WakeTo(d, w)
        /\ Row \/ \E reason \in Reasons : Write("deferred", reason, "held")
    BY <1>0, <1>18, <2>1 DEF reserveWake, WriteIf
  <2> QED
    BY <1>5, <2>1, <2>2
<1>19. CASE deliverWake(d)
  BY <1>19, WakingKeeps
<1>20. CASE wakeThrows(d)
  BY <1>5, <1>20 DEF wakeThrows
<1>21. CASE renewFails(d)
  BY <1>21 DEF renewFails, Orderly
<1> QED
  BY <1>6, <1>7, <1>8, <1>10, <1>11, <1>12, <1>13, <1>14, <1>15, <1>16, <1>17, <1>18, <1>19,
     <1>20, <1>21
  DEF Handles, Wakes

(* The run ends, and the clock goes on. *)
LEMMA RunEndKeeps == ChatTyped /\ AnswerInv /\ runEnds => AnswerInv'
<1> SUFFICES ASSUME ChatTyped, AnswerInv, runEnds PROVE AnswerInv'
  OBVIOUS
<1>1. ~Unasked /\ UNCHANGED <<chat, ext, late, woken, hand, pass>>
  BY DEF runEnds, Unasked
<1>2. (Handling' <=> Handling) /\ \A d \in Deliveries : HandlingBy(d)' <=> HandlingBy(d)
  BY <1>1 DEF Handling, HandlingBy
<1>3. HandlersOwn'
  BY <1>1, <1>2 DEF AnswerInv, HandlersOwn, Calm
<1>4. RowKnows'
  BY <1>1, <1>2 DEF AnswerInv, RowKnows, Calm
<1>5. QueueKnows' /\ DeliveringKnows'
  BY <1>1 DEF AnswerInv, QueueKnows, DeliveringKnows, Calm
<1> QED
  BY <1>3, <1>4, <1>5 DEF AnswerInv

LEMMA TimeKeeps == ChatTyped /\ AnswerInv /\ Orderly(chat) /\ timePasses => AnswerInv'
<1> SUFFICES ASSUME ChatTyped, AnswerInv, Orderly(chat), timePasses PROVE AnswerInv'
  OBVIOUS
<1>0. ext \in ChatRow
  BY DEF ChatTyped, RowTyped
<1>1. /\ UNCHANGED <<chat, late, woken, agent, hand, pass>>
      /\ ext'.status = ext.status /\ ext'.reason = ext.reason /\ ext'.handle = ext.handle
      /\ ext'.linked = ext.linked
      /\ ~Handling
  BY <1>0 DEF timePasses, Orderly, ChatRow
<1>2. /\ Unasked <=> Unasked'
      /\ ~Handling'
      /\ \A d \in Deliveries : ~HandlingBy(d) /\ ~HandlingBy(d)'
  BY <1>1 DEF Unasked, Handling, HandlingBy
<1>3. HandlersOwn'
  BY <1>1, <1>2 DEF AnswerInv, HandlersOwn, Calm
<1>4. RowKnows'
  BY <1>1, <1>2 DEF AnswerInv, RowKnows, Calm
<1>5. Calm(chat) => ext.status # "queueing"
  <2> SUFFICES ASSUME Calm(chat), ext.status = "queueing" PROVE FALSE
    OBVIOUS
  <2>1. Bridging
    BY DEF AnswerInv, QueueKnows, Bridging, Claiming, Queueing
  <2> QED
    BY <2>1, CalmIsCalm DEF timePasses
<1>6. QueueKnows'
  BY <1>1, <1>5 DEF AnswerInv, QueueKnows, Calm
<1>7. DeliveringKnows'
  BY <1>1 DEF AnswerInv, DeliveringKnows
<1> QED
  BY <1>3, <1>4, <1>6, <1>7 DEF AnswerInv

LEMMA AnswerInit == ChatInit => AnswerInv
<1> SUFFICES ASSUME ChatInit PROVE AnswerInv
  OBVIOUS
<1>1. /\ ext.status = "absent" /\ ext.handle = "none" /\ ext.linked = FALSE
      /\ late = {} /\ woken = FALSE /\ agent = "none"
      /\ \A d \in Deliveries : hand[d].pc = "none" /\ hand[d].wake = "none"
      /\ \A b \in Bridges : pass[b].pc = "idle"
  BY DEF ChatInit
<1>2. Unasked /\ ~Handling /\ \A d \in Deliveries : ~HandlingBy(d)
  BY <1>1 DEF Unasked, Handling, HandlingBy, Acting, Claiming
<1>3. HandlersOwn
  BY <1>1, <1>2 DEF HandlersOwn
<1>4. RowKnows
  BY <1>1, <1>2 DEF RowKnows
<1>5. QueueKnows /\ DeliveringKnows
  BY <1>1 DEF QueueKnows, DeliveringKnows, Claiming, Delivering
<1> QED
  BY <1>3, <1>4, <1>5 DEF AnswerInv

LEMMA ChatStays == [ChatNext]_chatVars => UNCHANGED chat
BY DEF ChatNext, chatVars, Reconciles, Handles, Wakes, notRow, arrives, renew, renewFails,
       handlerFails, wakeThrows, receive, reclaim, hold, rehold, wakeEnds, resolveRoutine,
       resolveAgent, findRoutines, reserveWake, deliverWake, reconcileBegins, bridgeStarts,
       passFails, bridgeDies, listExpired, lookupWake, recoverExpired, requeueExpired,
       evaluateAmbient, nothingToJudge, promoteAmbient, markAmbientIgnored, listReceived, findWake,
       abandonForRoutine, claimQueueing, barrier, createRun, recheckWake, cancelFallback, linkRun,
       enqueueRun, listRunning, reserveDelivery, findPosted, unconfirm, checkHandle, sendReply,
       storeHandle, markDelivered, retry, retryWrites, runEnds, timePasses

LEMMA AnswerNext ==
  ChatTyped /\ AnswerInv /\ Orderly(chat) /\ [ChatNext]_chatVars => AnswerInv' /\ Orderly(chat)'
<1> SUFFICES ASSUME ChatTyped, AnswerInv, Orderly(chat), [ChatNext]_chatVars
             PROVE  AnswerInv' /\ Orderly(chat)'
  OBVIOUS
<1>1. Orderly(chat)'
  BY ChatStays DEF Orderly, Calm
<1>2. CASE UNCHANGED chatVars
  BY <1>2 DEF chatVars, AnswerInv, HandlersOwn, RowKnows, QueueKnows, DeliveringKnows, Unasked,
              Handling, HandlingBy, Calm
<1>3. ASSUME NEW b \in Bridges,
             reconcileBegins(b) \/ Reconciles(b) \/ passFails(b) \/ bridgeDies(b) \/ bridgeStarts(b)
      PROVE  AnswerInv'
  BY <1>3, ReadingKeeps, WritingKeeps, ClaimantActs, ClaimKeeps, BeginningKeeps, RetryKeeps,
     DyingKeeps
  DEF Reconciles
<1> QED
  BY <1>1, <1>2, <1>3, DeliveryKeeps, RunEndKeeps, TimeKeeps DEF ChatNext

-----------------------------------------------------------------------------

LEMMA ChatAlwaysTyped == ChatSpec => []ChatTyped
<1> QED
  BY ChatTypedInit, ChatTypedNext, PTL DEF ChatSpec

LEMMA ReplyInit == ChatInit => ReplyInv
BY DEF ChatInit, ReplyInv, SendersAlone, PostedOnce, Sending

LEMMA AlwaysReplyInv == ChatSpec => []ReplyInv
<1>1. ReplyInv /\ ChatTyped /\ [ChatNext]_chatVars => ReplyInv'
  BY ReplyNext
<1> QED
  BY <1>1, ReplyInit, ChatAlwaysTyped, PTL DEF ChatSpec

(* The row, the passes, the handlers and the counts are what their columns *)
(* and statements may be, for any number of processes.                     *)
THEOREM ChatTypeCorrect ==
  ASSUME IsFiniteSet(Bridges)
  PROVE  ChatSpec => []ChatTypeOK
<1>1. ChatTyped /\ ReplyInv => ChatTypeOK
  <2> SUFFICES ASSUME ChatTyped, ReplyInv PROVE ChatTypeOK
    OBVIOUS
  <2>1. posts \in 0..Cardinality(Bridges)
    <3>1. Cardinality(Bridges) \in Nat /\ (Bridges # {} => Cardinality(Bridges) # 0)
      BY FS_CardinalityType, FS_EmptySet
    <3> QED
      BY <3>1 DEF ReplyInv, PostedOnce
  <2>2. ext \in ChatRow /\ late \subseteq Bridges
    BY DEF ChatTyped, RowTyped
  <2>3. \A d \in Deliveries : hand[d] \in HandStep
    BY DEF ChatTyped
  <2>4. \A b \in Bridges : pass[b] \in PassStep
    BY DEF ChatTyped, PassesTyped
  <2>5. /\ ext.status \in Settled \cup {"absent", "deferred", "received", "observed", "queueing",
                                        "running", "delivering"}
        /\ ext.reason \in Reasons /\ ext.at \in Times /\ ext.linked \in BOOLEAN
        /\ ext.handle \in {"none", "posted", "silent", "unconfirmed"}
    BY <2>2 DEF ChatRow, RowStatuses, ReplyHandles
  <2>6. \A d \in Deliveries :
          /\ hand[d].pc \in Acting \cup {"none", "receive", "reclaim", "hold", "done", "dead"}
          /\ hand[d].wake \in {"none", "find", "reserve", "deliver", "true", "false", "threw"}
    BY <2>3 DEF HandStep
  <2>7. \A b \in Bridges :
          pass[b].pc \in Queueing \cup Delivering \cup
            {"down", "idle", "expired", "lookup", "yield", "free", "promote", "requeue", "judge",
             "engage", "ignore", "received", "running", "retry", "retried"}
    BY <2>4 DEF PassStep
  <2> QED
    BY <2>1, <2>2, <2>5, <2>6, <2>7 DEF ChatTypeOK, ChatTyped
<1> QED
  BY <1>1, ChatAlwaysTyped, AlwaysReplyInv, PTL

-----------------------------------------------------------------------------
(* The reply as a promise *)

Ended == {"replied", "quiet", "failed", "cancelled"}
(* The run has ended, and there is something to post, or nothing.          *)
Spoken == agent \in Ended /\ ~(chat.ambient /\ agent # "replied")
Mute == agent \in Ended /\ chat.ambient /\ agent # "replied"

Heard == {"posted", "unconfirmed"}
(* What the row says was posted, was; a silent end is of a mute run.       *)
HandleFits ==
  /\ ext.handle # "none" => ext.status \in Replying
  /\ ext.handle \in {"silent", "unconfirmed"} => ext.status = "delivered"
  /\ ext.handle = "silent" => Mute
  /\ ext.handle \in Heard => Spoken
  /\ ext.handle = "posted" => posts = 1
  /\ posts = 1 => Spoken

Watched == {"reserve", "posted", "unconfirm", "check", "send", "store", "finish", "silence"}
(* A pass that is about to write a handle knows how the run ended, and a   *)
(* pass that has read a handle has read the one that is there.             *)
PassFits(b) ==
  /\ pass[b].pc \in Watched \ {"finish", "silence"} => Spoken
  /\ pass[b].pc = "silence" => Mute
  /\ pass[b].pc = "store" => posts = 1
  /\ pass[b].pc = "finish" =>
       /\ pass[b].was = ext.handle /\ pass[b].was \in Heard
       /\ pass[b].was = "unconfirmed" => posts = 0 /\ \A c \in Bridges : ~Sending(c)
FitInv == HandleFits /\ \A b \in Bridges : PassFits(b)

(* What a step does to the row's end and to the count.                     *)
RowStands ==
  /\ ext'.handle = ext.handle /\ posts' = posts
  /\ ext'.status = ext.status \/ (ext.status \notin Settled /\ ext'.status \notin Settled)
RowIgnored ==
  /\ ext'.handle = ext.handle /\ posts' = posts
  /\ ext.status \notin Replying /\ ext'.status = "ignored"

(* A step of a wake, a claim or a run leaves the reply, or ignores the row. *)
LEMMA RowSteps ==
  ASSUME ChatTyped, [ChatNext]_chatVars
  PROVE  \/ RowStands \/ RowIgnored
         \/ \E b \in Bridges : unconfirm(b) \/ sendReply(b) \/ storeHandle(b) \/ markDelivered(b)
<1>0. ext \in ChatRow
  BY DEF ChatTyped, RowTyped
<1>1. \A status, reason, at : Write(status, reason, at) =>
        ext'.status = status /\ ext'.handle = ext.handle
  BY <1>0 DEF Write, ChatRow
<1>2. \A b, status, reason : WriteNow(b, status, reason) =>
        ext'.status = status /\ ext'.handle = ext.handle
  BY <1>0 DEF WriteNow, ChatRow
<1>3. CASE UNCHANGED ext /\ UNCHANGED posts
  BY <1>3 DEF RowStands
<1>4. ASSUME NEW d \in Deliveries,
             arrives(d) \/ renew(d) \/ renewFails(d) \/ handlerFails(d) \/ wakeThrows(d)
               \/ rehold(d) \/ wakeEnds(d) \/ findRoutines(d) \/ deliverWake(d) \/ hold(d)
      PROVE  RowStands
  BY <1>1, <1>4
  DEF arrives, renew, renewFails, handlerFails, wakeThrows, hold, rehold, wakeEnds, findRoutines,
      deliverWake, Extend, WriteIf, notRow, RowStands, Settled
<1>5. ASSUME NEW d \in Deliveries,
             receive(d) \/ reclaim(d) \/ resolveAgent(d) \/ reserveWake(d)
      PROVE  RowStands
  BY <1>1, <1>5
  DEF receive, reclaim, resolveAgent, reserveWake, WriteIf, Reclaimable, Waiting, Reservable, Open,
      notRow, RowStands, Settled
<1>6. ASSUME NEW d \in Deliveries, resolveRoutine(d)
      PROVE  RowStands \/ RowIgnored
  BY <1>1, <1>6
  DEF resolveRoutine, WriteIf, Ownable, Waiting, notRow, RowStands, RowIgnored, Replying
<1>7. ASSUME NEW b \in Bridges,
             \/ reconcileBegins(b) \/ passFails(b) \/ bridgeDies(b)
             \/ listExpired(b) \/ lookupWake(b)
             \/ evaluateAmbient(b) \/ nothingToJudge(b)
             \/ listReceived(b) \/ findWake(b)
             \/ barrier(b) \/ createRun(b) \/ recheckWake(b) \/ cancelFallback(b)
             \/ enqueueRun(b) \/ listRunning(b) \/ findPosted(b)
             \/ checkHandle(b) \/ retry(b)
      PROVE  RowStands
  BY <1>7
  DEF reconcileBegins, passFails, bridgeDies, listExpired, lookupWake, evaluateAmbient,
      nothingToJudge, listReceived, findWake, barrier, createRun, recheckWake, cancelFallback,
      enqueueRun, listRunning, findPosted, checkHandle, retry, notRow, RowStands
<1>8. ASSUME NEW b \in Bridges,
             \/ bridgeStarts(b) \/ requeueExpired(b) \/ promoteAmbient(b) \/ claimQueueing(b)
             \/ linkRun(b) \/ reserveDelivery(b)
      PROVE  RowStands
  <2>1. CASE bridgeStarts(b)
    BY <1>2, <2>1 DEF bridgeStarts, notRow, RowStands, Settled
  <2>2. CASE requeueExpired(b) \/ claimQueueing(b) \/ reserveDelivery(b)
    BY <1>1, <2>2
    DEF requeueExpired, claimQueueing, reserveDelivery, WriteIf, Claimable, MayReserve, notRow,
        RowStands, Settled
  <2>3. CASE promoteAmbient(b) \/ linkRun(b)
    BY <1>0, <2>3 DEF promoteAmbient, linkRun, notRow, RowStands, Settled, ChatRow
  <2> QED
    BY <1>8, <2>1, <2>2, <2>3
<1>9. ASSUME NEW b \in Bridges, recoverExpired(b) \/ markAmbientIgnored(b) \/ abandonForRoutine(b)
      PROVE  RowStands \/ RowIgnored
  <2>1. CASE recoverExpired(b)
    BY <1>1, <1>2, <2>1 DEF recoverExpired, WriteIf, Open, notRow, RowStands, RowIgnored, Settled, Replying
  <2>2. CASE markAmbientIgnored(b)
    BY <1>0, <2>2 DEF markAmbientIgnored, notRow, RowStands, RowIgnored, Replying, ChatRow
  <2>3. CASE abandonForRoutine(b)
    BY <1>1, <2>3 DEF abandonForRoutine, WriteIf, notRow, RowStands, RowIgnored, Replying
  <2> QED
    BY <1>9, <2>1, <2>2, <2>3
<1>10. ASSUME NEW b \in Bridges, retryWrites(b)
       PROVE  RowStands
  BY <1>1, <1>10 DEF retryWrites, WriteIf, BackFrom, notRow, RowStands, Settled
<1>11. CASE runEnds \/ timePasses
  BY <1>0, <1>11 DEF runEnds, timePasses, ChatRow, RowStands
<1>12. CASE UNCHANGED chatVars
  BY <1>12 DEF chatVars, RowStands
<1> QED
  BY <1>4, <1>5, <1>6, <1>7, <1>8, <1>9, <1>10, <1>11, <1>12
  DEF ChatNext, Reconciles, Handles, Wakes

(* How a run ended does not change, nor does the chat.                     *)
LEMMA EndsStay ==
  ASSUME [ChatNext]_chatVars
  PROVE  (Spoken => Spoken') /\ (Mute => Mute')
<1>1. UNCHANGED chat
  BY ChatStays
<1>2. ASSUME agent \in Ended PROVE agent' = agent
  <2>1. ASSUME NEW d \in Deliveries,
               arrives(d) \/ renew(d) \/ renewFails(d) \/ handlerFails(d) \/ wakeThrows(d)
                 \/ Handles(d) \/ Wakes(d)
        PROVE  UNCHANGED agent
    BY <2>1
    DEF arrives, renew, renewFails, handlerFails, wakeThrows, Handles, Wakes, receive, reclaim, hold,
        rehold, wakeEnds, resolveRoutine, resolveAgent, findRoutines, reserveWake, deliverWake, notRow
  <2>2. ASSUME NEW b \in Bridges,
               \/ reconcileBegins(b) \/ passFails(b) \/ bridgeDies(b) \/ bridgeStarts(b)
               \/ Reconciles(b)
        PROVE  UNCHANGED agent
    BY <1>2, <2>2
    DEF Reconciles, Ended, notRow, reconcileBegins, passFails, bridgeDies, bridgeStarts, listExpired,
        lookupWake, recoverExpired, requeueExpired, evaluateAmbient, nothingToJudge, promoteAmbient,
        markAmbientIgnored, listReceived, findWake, abandonForRoutine, claimQueueing, barrier,
        createRun, recheckWake, cancelFallback, linkRun, enqueueRun, listRunning, reserveDelivery,
        findPosted, unconfirm, checkHandle, sendReply, storeHandle, markDelivered, retry, retryWrites
  <2>3. CASE runEnds \/ timePasses \/ UNCHANGED chatVars
    BY <1>2, <2>3 DEF runEnds, timePasses, chatVars, Ended
  <2> QED
    BY <2>1, <2>2, <2>3 DEF ChatNext
<1> QED
  BY <1>1, <1>2 DEF Spoken, Mute

(* How a pass comes to deliver.                                            *)
LEMMA WatchedBegins ==
  ASSUME ChatTyped, [ChatNext]_chatVars, NEW c \in Bridges,
         pass'[c] # pass[c], pass'[c].pc \in Watched
  PROVE  \/ listRunning(c) \/ reserveDelivery(c) \/ findPosted(c) \/ checkHandle(c) \/ sendReply(c)
         \/ storeHandle(c) \/ retry(c)
<1>0. pass \in [Bridges -> PassStep]
  BY DEF ChatTyped, PassesTyped
<1>1. \A b \in Bridges : \A pc, was : Has(b, pc, was) =>
        pass'[b].pc = pc /\ \A o \in Bridges \ {b} : pass'[o] = pass[o]
  BY <1>0 DEF Has
<1>2. ASSUME NEW b \in Bridges, NEW pc, NEW was, Has(b, pc, was)
      PROVE  b = c /\ pc \in Watched
  BY <1>1, <1>2
<1>3. ASSUME NEW b \in Bridges, NEW pc, Goes(b, pc)
      PROVE  b = c /\ pc \in Watched
  BY <1>2, <1>3 DEF Goes
<1>4. ASSUME NEW d \in Deliveries,
             arrives(d) \/ renew(d) \/ renewFails(d) \/ handlerFails(d) \/ wakeThrows(d)
               \/ Handles(d) \/ Wakes(d)
      PROVE  FALSE
  BY <1>4
  DEF arrives, renew, renewFails, handlerFails, wakeThrows, Handles, Wakes, receive, reclaim, hold,
      rehold, wakeEnds, resolveRoutine, resolveAgent, findRoutines, reserveWake, deliverWake, notRow
<1>5. CASE runEnds \/ timePasses \/ UNCHANGED chatVars
  BY <1>5 DEF runEnds, timePasses, chatVars
<1>6. ASSUME NEW b \in Bridges,
             \/ reconcileBegins(b) \/ bridgeStarts(b)
             \/ listExpired(b) \/ lookupWake(b) \/ recoverExpired(b) \/ requeueExpired(b)
             \/ evaluateAmbient(b) \/ nothingToJudge(b) \/ promoteAmbient(b) \/ markAmbientIgnored(b)
             \/ listReceived(b) \/ findWake(b) \/ abandonForRoutine(b) \/ claimQueueing(b)
             \/ barrier(b) \/ createRun(b) \/ recheckWake(b) \/ cancelFallback(b) \/ linkRun(b)
             \/ enqueueRun(b) \/ unconfirm(b) \/ markDelivered(b) \/ retryWrites(b) \/ passFails(b)
      PROVE  FALSE
  BY <1>2, <1>3, <1>6
  DEF reconcileBegins, bridgeStarts, listExpired, lookupWake, recoverExpired, requeueExpired,
      evaluateAmbient, nothingToJudge, promoteAmbient, markAmbientIgnored, listReceived, findWake,
      abandonForRoutine, claimQueueing, barrier, createRun, recheckWake, cancelFallback, linkRun,
      enqueueRun, unconfirm, markDelivered, retryWrites, passFails, Watched
<1>7. ASSUME NEW b \in Bridges, bridgeDies(b)
      PROVE  FALSE
  <2>1. Has(b, "down", "none")
    BY <1>7 DEF bridgeDies, Has
  <2> QED
    BY <1>2, <2>1 DEF Watched
<1>8. ASSUME NEW b \in Bridges,
             \/ listRunning(b) \/ reserveDelivery(b) \/ findPosted(b) \/ checkHandle(b) \/ sendReply(b)
             \/ storeHandle(b) \/ retry(b)
      PROVE  b = c
  BY <1>2, <1>3, <1>8
  DEF listRunning, reserveDelivery, findPosted, checkHandle, sendReply, storeHandle, retry
<1> QED
  BY <1>4, <1>5, <1>6, <1>7, <1>8 DEF ChatNext, Reconciles

(* What unconfirm, a post, its record and the end of a delivery write.     *)
LEMMA DeliveryWrites ==
  ASSUME ChatTyped, NEW b \in Bridges
  PROVE  /\ unconfirm(b) => /\ pass[b].pc = "unconfirm" /\ posts' = posts
                            /\ \/ ext'.status = ext.status /\ ext'.handle = ext.handle
                               \/ /\ ext.status = "delivering" /\ ext.handle = "none"
                                  /\ ext'.status = "delivered" /\ ext'.handle = "unconfirmed"
         /\ sendReply(b) => /\ pass[b].pc = "send" /\ posts' = posts + 1
                            /\ ext'.status = ext.status /\ ext'.handle = ext.handle
         /\ storeHandle(b) => /\ pass[b].pc = "store" /\ posts' = posts
                              /\ ext'.status = ext.status /\ ext'.handle = "posted"
         /\ markDelivered(b) =>
              /\ posts' = posts /\ ext'.status = "delivered"
              /\ \/ pass[b].pc = "silence" /\ ext'.handle = "silent"
                 \/ pass[b].pc = "finish" /\ ext'.handle = pass[b].was
<1>0. ext \in ChatRow
  BY DEF ChatTyped, RowTyped
<1> QED
  BY <1>0 DEF unconfirm, sendReply, storeHandle, markDelivered, notRow, ChatRow

(* What the row says of its reply stays so. *)
LEMMA HandleFitsNext ==
  ASSUME ChatTyped, ReplyInv, FitInv, [ChatNext]_chatVars
  PROVE  HandleFits'
<1>0. /\ HandleFits /\ posts \in {0, 1} /\ (posts = 1 => ext.status \in Replying)
      /\ (Spoken => Spoken') /\ (Mute => Mute')
      /\ ext.status \in Replying => ext'.status \in Replying
  BY EndsStay, ReplyingStays DEF FitInv, ReplyInv, PostedOnce
<1>1. CASE RowStands \/ RowIgnored
  <2>1. ext'.handle = ext.handle /\ posts' = posts
    BY <1>1 DEF RowStands, RowIgnored
  <2>2. ext.handle \in {"silent", "unconfirmed"} => ext'.status = "delivered"
    BY <1>0, <1>1 DEF RowStands, RowIgnored, HandleFits, Replying, Settled
  <2> QED
    BY <1>0, <2>1, <2>2 DEF HandleFits
<1>2. ASSUME NEW b \in Bridges, unconfirm(b) PROVE HandleFits'
  <2>1. Spoken
    BY <1>2, DeliveryWrites DEF FitInv, PassFits, Watched
  <2> QED
    BY <1>0, <1>2, <2>1, DeliveryWrites DEF HandleFits, Replying, Heard
<1>3. ASSUME NEW b \in Bridges, sendReply(b) PROVE HandleFits'
  <2>1. Spoken /\ posts = 0
    BY <1>3, DeliveryWrites DEF FitInv, PassFits, Watched, ReplyInv, SendersAlone, Sending
  <2> QED
    BY <1>0, <1>3, <2>1, DeliveryWrites DEF HandleFits, Replying, Heard
<1>4. ASSUME NEW b \in Bridges, storeHandle(b) PROVE HandleFits'
  <2>1. Spoken /\ posts = 1
    BY <1>4, DeliveryWrites DEF FitInv, PassFits, Watched
  <2> QED
    BY <1>0, <1>4, <2>1, DeliveryWrites DEF HandleFits, Heard
<1>5. ASSUME NEW b \in Bridges, markDelivered(b) PROVE HandleFits'
  <2>1. CASE pass[b].pc = "silence"
    <3>1. Mute
      BY <2>1 DEF FitInv, PassFits
    <3> QED
      BY <1>0, <1>5, <2>1, <3>1, DeliveryWrites DEF HandleFits, Replying, Heard
  <2>2. CASE pass[b].pc = "finish"
    <3>1. pass[b].was = ext.handle /\ ext.handle \in Heard
      BY <2>2 DEF FitInv, PassFits
    <3> QED
      BY <1>0, <1>5, <2>2, <3>1, DeliveryWrites DEF HandleFits, Replying, Heard
  <2> QED
    BY <1>5, <2>1, <2>2, DeliveryWrites
<1> QED
  BY <1>1, <1>2, <1>3, <1>4, <1>5, RowSteps

(* A handle that was posted, or given up, stays where it is read.          *)
LEMMA HandleStays ==
  ASSUME ChatTyped, ReplyInv, FitInv, [ChatNext]_chatVars, ext.handle \in Heard,
         ext.handle = "unconfirmed" => posts = 0
  PROVE  ext'.handle = ext.handle
<1>0. HandleFits /\ ext.handle # "none" /\ Spoken
  BY DEF FitInv, HandleFits, Heard
<1>1. CASE RowStands \/ RowIgnored
  BY <1>1 DEF RowStands, RowIgnored
<1>2. ASSUME NEW b \in Bridges, unconfirm(b) \/ sendReply(b) PROVE ext'.handle = ext.handle
  BY <1>0, <1>2, DeliveryWrites
<1>3. ASSUME NEW b \in Bridges, storeHandle(b) PROVE ext'.handle = ext.handle
  BY <1>0, <1>3, DeliveryWrites DEF Heard, FitInv, PassFits
<1>4. ASSUME NEW b \in Bridges, markDelivered(b) PROVE ext'.handle = ext.handle
  <2>1. pass[b].pc # "silence"
    BY <1>0 DEF FitInv, PassFits, Spoken, Mute
  <2> QED
    BY <1>4, <2>1, DeliveryWrites DEF FitInv, PassFits
<1> QED
  BY <1>1, <1>2, <1>3, <1>4, RowSteps

(* What a pass that has not moved knew still holds.                        *)
LEMMA StillFits ==
  ASSUME ChatTyped, ReplyInv, FitInv, [ChatNext]_chatVars, NEW b \in Bridges, pass'[b] = pass[b]
  PROVE  PassFits(b)'
<1>0. /\ PassFits(b) /\ (Spoken => Spoken') /\ (Mute => Mute')
  BY EndsStay DEF FitInv
<1>1. posts = 1 => posts' = 1
  BY PostsBySending DEF ReplyInv, SendersAlone
<1>2. ASSUME pass[b].pc = "finish"
      PROVE  /\ pass[b].was = ext'.handle
             /\ pass[b].was = "unconfirmed" => posts' = 0 /\ \A c \in Bridges : ~Sending(c)'
  <2>1. /\ pass[b].was = ext.handle /\ ext.handle \in Heard
        /\ pass[b].was = "unconfirmed" => posts = 0 /\ \A c \in Bridges : ~Sending(c)
    BY <1>0, <1>2 DEF PassFits
  <2>2. ext'.handle = ext.handle
    BY <2>1, HandleStays
  <2>3. ASSUME pass[b].was = "unconfirmed"
        PROVE  posts' = 0 /\ \A c \in Bridges : ~Sending(c)'
    <3>1. posts' = posts
      BY <2>1, <2>3, PostsBySending
    <3>2. ext.status = "delivered"
      BY <2>1, <2>3 DEF FitInv, HandleFits
    <3>3. \A c \in Bridges : Sending(c)' => Sending(c)
      BY <3>2, SendsGoOn DEF MayReserve
    <3> QED
      BY <2>1, <2>3, <3>1, <3>3
  <2> QED
    BY <2>1, <2>2, <2>3
<1>3. pass'[b].pc = "finish" => pass[b].was \in Heard
  BY <1>0 DEF PassFits
<1> QED
  BY <1>0, <1>1, <1>2, <1>3 DEF PassFits

(* A pass that moves towards the end of a delivery has read what it needs. *)
LEMMA BeginsFit ==
  ASSUME ChatTyped, ReplyInv, FitInv, [ChatNext]_chatVars, NEW b \in Bridges,
         pass'[b] # pass[b], pass'[b].pc \in Watched
  PROVE  PassFits(b)'
<1>0. /\ pass \in [Bridges -> PassStep] /\ ext \in ChatRow
      /\ HandleFits /\ PassFits(b) /\ (Spoken => Spoken') /\ (Mute => Mute')
      /\ posts \in {0, 1}
  BY EndsStay DEF FitInv, ChatTyped, PassesTyped, RowTyped, ReplyInv, PostedOnce
<1>1. \A pc, was : Has(b, pc, was) => /\ pass'[b].pc = pc /\ pass'[b].was = was
                                      /\ \A o \in Bridges \ {b} : pass'[o] = pass[o]
  BY <1>0 DEF Has
<1>2. \A pc : Goes(b, pc) => pass'[b].pc = pc
  BY <1>1 DEF Goes
<1>3. CASE listRunning(b)
  <2>1. /\ agent \notin {"none", "active"}
        /\ pass'[b].pc = IF chat.ambient /\ agent # "replied" THEN "silence" ELSE "reserve"
    BY <1>2, <1>3 DEF listRunning, Watched
  <2>2. IF chat.ambient /\ agent # "replied" THEN Mute ELSE Spoken
    BY <2>1 DEF ChatTyped, Mute, Spoken, Ended
  <2> QED
    BY <1>0, <2>1, <2>2 DEF PassFits, Watched
<1>4. CASE reserveDelivery(b)
  BY <1>0, <1>2, <1>4 DEF reserveDelivery, PassFits, Watched
<1>5. CASE findPosted(b)
  <2>1. CASE ext.status = "delivering" /\ ext.handle # "none"
    <3>1. /\ pass'[b].pc = "finish" /\ pass'[b].was = ext.handle
          /\ ext' = ext
      BY <1>1, <1>5, <2>1 DEF findPosted
    <3>2. ext.handle = "posted"
      BY <1>0, <2>1 DEF HandleFits, ChatRow, ReplyHandles
    <3> QED
      BY <3>1, <3>2 DEF PassFits, Heard
  <2>2. CASE ~(ext.status = "delivering" /\ ext.handle # "none")
    BY <1>0, <1>2, <1>5, <2>2 DEF findPosted, PassFits, Watched
  <2> QED
    BY <2>1, <2>2
<1>6. CASE checkHandle(b)
  <2>1. CASE ext.handle # "none"
    <3>1. /\ pass'[b].pc = "finish" /\ pass'[b].was = ext.handle /\ pass[b].pc = "check"
          /\ ext' = ext /\ posts' = posts
          /\ \A o \in Bridges \ {b} : pass'[o] = pass[o]
      BY <1>1, <1>6, <2>1 DEF checkHandle, notRow
    <3>2. Spoken /\ posts = 0 /\ \A c \in Bridges : Sending(c) => c = b
      BY <1>0, <3>1 DEF PassFits, Watched, ReplyInv, SendersAlone, Sending
    <3>3. ext.handle = "unconfirmed"
      BY <1>0, <2>1, <3>2 DEF HandleFits, ChatRow, ReplyHandles, Spoken, Mute
    <3>4. \A c \in Bridges : ~Sending(c)'
      BY <3>1, <3>2 DEF Sending
    <3> QED
      BY <3>1, <3>2, <3>3, <3>4 DEF PassFits, Heard
  <2>2. CASE ext.handle = "none"
    BY <1>0, <1>2, <1>6, <2>2 DEF checkHandle, PassFits, Watched
  <2> QED
    BY <2>1, <2>2
<1>7. CASE sendReply(b)
  <2>1. pass'[b].pc = "store" /\ posts' = posts + 1 /\ pass[b].pc = "send"
    BY <1>2, <1>7 DEF sendReply, Watched
  <2>2. posts = 0 /\ Spoken
    BY <1>0, <2>1 DEF ReplyInv, SendersAlone, Sending, PassFits, Watched
  <2> QED
    BY <1>0, <2>1, <2>2 DEF PassFits
<1>8. CASE storeHandle(b)
  <2>1. pass'[b].pc = "finish" /\ pass'[b].was = "posted"
    BY <1>1, <1>8 DEF storeHandle
  <2>2. ext'.handle = "posted"
    BY <1>8, DeliveryWrites
  <2> QED
    BY <2>1, <2>2 DEF PassFits, Heard
<1>9. CASE retry(b)
  <2>1. /\ ext.handle # "none" /\ ext.status # "delivered"
        /\ pass'[b].pc = "finish" /\ pass'[b].was = ext.handle /\ ext' = ext
    BY <1>1, <1>2, <1>9 DEF retry, Watched
  <2>2. ext.handle = "posted"
    BY <1>0, <2>1 DEF HandleFits, ChatRow, ReplyHandles
  <2> QED
    BY <2>1, <2>2 DEF PassFits, Heard
<1> QED
  BY <1>3, <1>4, <1>5, <1>6, <1>7, <1>8, <1>9, WatchedBegins

(* All of it is kept by every step, and holds throughout. *)
LEMMA FitNext == ChatTyped /\ ReplyInv /\ FitInv /\ [ChatNext]_chatVars => FitInv'
<1> SUFFICES ASSUME ChatTyped, ReplyInv, FitInv, [ChatNext]_chatVars PROVE FitInv'
  OBVIOUS
<1>1. ASSUME NEW b \in Bridges PROVE PassFits(b)'
  <2>1. CASE pass'[b].pc \notin Watched
    BY <2>1 DEF PassFits, Watched
  <2> QED
    BY <2>1, StillFits, BeginsFit
<1> QED
  BY <1>1, HandleFitsNext DEF FitInv

LEMMA AlwaysFit == ChatSpec => []FitInv
<1>1. ChatInit => FitInv
  BY DEF ChatInit, FitInv, HandleFits, PassFits, Watched, Heard
<1> QED
  BY <1>1, FitNext, ChatAlwaysTyped, AlwaysReplyInv, PTL DEF ChatSpec

Said == IF ext.status \in Settled /\ Answer # "open" THEN {Answer} ELSE {}
PromiseStep == [ReplyPromise!PromiseNext]_(ReplyPromise!promiseVars)

(* The answer that a row holds. *)
LEMMA Answers ==
  ASSUME ChatTyped, HandleFits
  PROVE  /\ Answer \in {"open", "done", "refused"}
         /\ Answer = "done" <=> ext.handle = "posted"
         /\ Answer = "refused" <=> ext.status = "ignored" \/ ext.handle = "silent"
BY DEF Answer, HandleFits, Replying

(* The steps of a promise, as what they do to the answer. *)
LEMMA StutterKeeps ==
  ASSUME Answer' = Answer, Said' = Said, posts' = posts
  PROVE  PromiseStep
BY DEF Said, PromiseStep, ReplyPromise!promiseVars

LEMMA SettleKeeps ==
  ASSUME Answer = "open", Answer' \in {"done", "refused"}, posts' = posts,
         Answer' = "done" => posts = 1, Answer' = "refused" => posts = 0,
         Said' \in {{}, {Answer'}}
  PROVE  PromiseStep
<1>1. Said = {}
  BY DEF Said
<1>2. ReplyPromise!Settle("reply")
  BY <1>1 DEF ReplyPromise!Settle, ReplyPromise!Verdicts, Said
<1> QED
  BY <1>2 DEF PromiseStep, ReplyPromise!PromiseNext

LEMMA TellKeeps ==
  ASSUME Answer # "open", Answer' = Answer, posts' = posts, Said' = {Answer}
  PROVE  PromiseStep
<1>1. ReplyPromise!Tell("reply")
  BY DEF ReplyPromise!Tell, Said
<1> QED
  BY <1>1 DEF PromiseStep, ReplyPromise!PromiseNext

LEMMA RunKeeps ==
  ASSUME Answer = "open", Answer' = Answer, Said' = Said, posts = 0, posts' = 1
  PROVE  PromiseStep
<1>1. ReplyPromise!Run("reply")
  BY DEF ReplyPromise!Run, Said
<1> QED
  BY <1>1 DEF PromiseStep, ReplyPromise!PromiseNext

(* Every step of the chat is one of them. *)
LEMMA ChatKeepsPromise ==
  ASSUME ChatTyped, ChatTyped', ReplyInv, FitInv, FitInv', [ChatNext]_chatVars
  PROVE  PromiseStep
<1>0. /\ Answer \in {"open", "done", "refused"}
      /\ Answer = "done" <=> ext.handle = "posted"
      /\ Answer = "refused" <=> ext.status = "ignored" \/ ext.handle = "silent"
      /\ HandleFits
  BY Answers DEF FitInv
<1>1. /\ Answer' \in {"open", "done", "refused"}
      /\ Answer' = "done" <=> ext'.handle = "posted"
      /\ Answer' = "refused" <=> ext'.status = "ignored" \/ ext'.handle = "silent"
      /\ HandleFits'
  BY DEF FitInv, Answer, HandleFits, Replying
<1>2. posts \in {0, 1} /\ (posts = 1 => ext.status \in Replying /\ Spoken)
  BY <1>0 DEF ReplyInv, PostedOnce, HandleFits
<1>3. /\ Said = IF ext.status \in Settled /\ Answer # "open" THEN {Answer} ELSE {}
      /\ Said' = IF ext'.status \in Settled /\ Answer' # "open" THEN {Answer'} ELSE {}
  BY DEF Said
<1>4. CASE RowStands
  <2>1. Answer' = Answer
    BY <1>0, <1>1, <1>4 DEF RowStands, Settled
  <2> QED
    BY <1>3, <1>4, <2>1, StutterKeeps DEF RowStands
<1>5. CASE RowIgnored
  <2>1. ext.handle = "none" /\ posts = 0 /\ posts' = posts /\ ext'.status = "ignored"
    BY <1>0, <1>2, <1>5 DEF RowIgnored, HandleFits
  <2>2. Answer' = "refused" /\ Said' = {Answer'}
    BY <1>1, <1>3, <2>1 DEF Settled
  <2>3. CASE ext.status = "ignored"
    BY <1>0, <1>3, <2>1, <2>2, <2>3, StutterKeeps DEF Settled
  <2>4. CASE ext.status # "ignored"
    BY <1>0, <2>1, <2>2, <2>4, SettleKeeps
  <2> QED
    BY <2>3, <2>4
<1>6. ASSUME NEW b \in Bridges, unconfirm(b) PROVE PromiseStep
  <2>1. \/ ext'.status = ext.status /\ ext'.handle = ext.handle
        \/ /\ ext.status = "delivering" /\ ext.handle = "none"
           /\ ext'.status = "delivered" /\ ext'.handle = "unconfirmed"
    BY <1>6, DeliveryWrites
  <2>2. posts' = posts
    BY <1>6, DeliveryWrites
  <2>3. Answer' = Answer
    BY <1>0, <1>1, <2>1
  <2>4. Said' = Said
    BY <1>0, <1>1, <1>3, <2>1, <2>3
  <2> QED
    BY <2>2, <2>3, <2>4, StutterKeeps
<1>7. ASSUME NEW b \in Bridges, sendReply(b) PROVE PromiseStep
  <2>1. /\ pass[b].pc = "send" /\ posts = 0 /\ ext.status \in Replying /\ posts' = posts + 1
        /\ ext'.status = ext.status /\ ext'.handle = ext.handle
    BY <1>7, DeliveryWrites DEF ReplyInv, SendersAlone, Sending
  <2>2. Spoken
    BY <2>1 DEF FitInv, PassFits, Watched
  <2>3. Answer = "open" /\ Answer' = "open"
    BY <1>0, <1>1, <2>1, <2>2 DEF HandleFits, Replying, Spoken, Mute
  <2> QED
    BY <1>3, <2>1, <2>3, RunKeeps
<1>8. ASSUME NEW b \in Bridges, storeHandle(b) PROVE PromiseStep
  <2>1. /\ posts' = posts /\ posts = 1 /\ Spoken /\ ext'.status = ext.status /\ ext'.handle = "posted"
    BY <1>8, DeliveryWrites DEF FitInv, PassFits, Watched
  <2>2. Answer # "refused" /\ Answer' = "done"
    BY <1>0, <1>1, <1>2, <2>1 DEF HandleFits, Replying, Spoken, Mute
  <2>3. CASE Answer = "done"
    BY <1>3, <2>1, <2>2, <2>3, StutterKeeps
  <2>4. CASE Answer = "open"
    BY <1>3, <2>1, <2>2, <2>4, SettleKeeps
  <2> QED
    BY <1>0, <2>2, <2>3, <2>4
<1>9. ASSUME NEW b \in Bridges, markDelivered(b), pass[b].pc = "silence" PROVE PromiseStep
  <2>1. /\ posts' = posts /\ Mute /\ ext'.status = "delivered" /\ ext'.handle = "silent"
    BY <1>9, DeliveryWrites DEF FitInv, PassFits
  <2>2. posts = 0 /\ Answer # "done"
    BY <1>0, <1>2, <2>1 DEF HandleFits, Heard, Spoken, Mute
  <2>3. Answer' = "refused" /\ Said' = {Answer'}
    BY <1>1, <1>3, <2>1 DEF Settled
  <2>4. CASE Answer = "refused"
    BY <2>1, <2>3, <2>4, TellKeeps
  <2>5. CASE Answer = "open"
    BY <2>1, <2>2, <2>3, <2>5, SettleKeeps
  <2> QED
    BY <1>0, <2>2, <2>4, <2>5
<1>10. ASSUME NEW b \in Bridges, markDelivered(b), pass[b].pc = "finish" PROVE PromiseStep
  <2>1. /\ posts' = posts /\ ext'.status = "delivered" /\ ext'.handle = ext.handle
        /\ ext.handle \in Heard
    BY <1>10, DeliveryWrites DEF FitInv, PassFits
  <2>2. CASE ext.handle = "posted"
    <3>1. Answer = "done" /\ Answer' = "done" /\ Said' = {Answer}
      BY <1>0, <1>1, <1>3, <2>1, <2>2 DEF Settled
    <3> QED
      BY <2>1, <3>1, TellKeeps
  <2>3. CASE ext.handle = "unconfirmed"
    <3>1. Answer = "open" /\ Answer' = "open"
      BY <1>0, <1>1, <2>1, <2>3 DEF HandleFits
    <3> QED
      BY <1>3, <2>1, <3>1, StutterKeeps
  <2> QED
    BY <2>1, <2>2, <2>3 DEF Heard
<1> QED
  BY <1>4, <1>5, <1>6, <1>7, <1>8, <1>9, <1>10, RowSteps, DeliveryWrites

(* The reply to a message of a team chat is posted at most once, never     *)
(* after the message was ignored or its run ended with nothing to say, and *)
(* what the row says of it at the end is so, whatever fails, stalls or     *)
(* dies: the bridge implements the promise of EffectPromise.               *)
THEOREM ReplyImplements == ChatSpec => ReplyKeepsPromise
<1>1. ChatInit => ReplyPromise!PromiseInit
  BY DEF ChatInit, ReplyPromise!PromiseInit, Answer, Settled
<1>2. ChatTyped /\ ChatTyped' /\ ReplyInv /\ FitInv /\ FitInv' /\ [ChatNext]_chatVars
        => [ReplyPromise!PromiseNext]_(ReplyPromise!promiseVars)
  BY ChatKeepsPromise DEF PromiseStep
<1> QED
  BY <1>1, <1>2, ChatAlwaysTyped, AlwaysReplyInv, AlwaysFit, PTL
  DEF ChatSpec, ReplyKeepsPromise, ReplyPromise!PromiseSpec

(* A message of a team chat is answered once, by a routine or by the bot,  *)
(* where no renewal fails and no handler outlasts its reservation, and the *)
(* webhook is not delivered again where something fails or a process dies  *)
(* (README, Disagreements, says what happens otherwise).                   *)
THEOREM OneAnswer == ChatSpec /\ []Orderly(chat) => AnsweredOnce
<1> DEFINE Inv == Orderly(chat) => AnswerInv
<1>1. ChatInit => Inv
  BY AnswerInit
<1>2. ChatTyped /\ Inv /\ [ChatNext]_chatVars => Inv'
  <2> SUFFICES ASSUME ChatTyped, Inv, [ChatNext]_chatVars, Orderly(chat)' PROVE AnswerInv'
    OBVIOUS
  <2>1. Orderly(chat)
    BY ChatStays DEF Orderly, Calm
  <2> QED
    BY <2>1, AnswerNext
<1>3. Inv => (Orderly(chat) => (~chat.renewals => OneAnswers))
  BY DEF AnswerInv, RowKnows, Unasked, OneAnswers
<1> HIDE DEF Inv
<1>4. ChatSpec => []Inv
  BY <1>1, <1>2, ChatAlwaysTyped, PTL DEF ChatSpec
<1> QED
  BY <1>3, <1>4, ReplyImplements, PTL DEF AnsweredOnce

-----------------------------------------------------------------------------
(* Messages between bots: types *)

RunRow ==
  [state : {"active", "ended", "cancelled"}, bot : Bots, from : Bots \cup {NoBot}, of : Nat,
   intent : Intents \cup {"none"}, hop : Nat, auto : BOOLEAN]
Returner == [pc : {"idle", "read", "deliver", "mark", "rotate"}, run : Nat]

TeamTyped ==
  /\ team \in Teams
  /\ runs \in Seq(RunRow)
  /\ waiting \in Seq(Nat)
  /\ returner \in [Ids \cup Recs -> Returner]
  /\ archived \subseteq Bots
  /\ setbacks \in Nat /\ setbacks <= team.setbacks

(* The least-number principle, for sets of numbers. *)
LEMMA LeastNumber ==
  ASSUME NEW S \in SUBSET Nat, S # {}
  PROVE  \E x \in S : \A y \in S : x <= y
<1> DEFINE R == OpToRel(<, Nat)
<1>1. IsWellFoundedOn(R, Nat)
  BY NatLessThanWellFounded
<1>2. \A x, y \in Nat : y < x => <<y, x>> \in R
  BY DEF OpToRel
<1> HIDE DEF R
<1>3. PICK x \in S : \A y \in S : <<y, x>> \notin R
  BY <1>1, WFMin
<1>4. x \in Nat /\ \A y \in S : y \in Nat
  OBVIOUS
<1>5. \A y \in S : ~(y < x)
  BY <1>2, <1>3, <1>4
<1>6. \A y \in S : x <= y
  BY <1>4, <1>5
<1> QED
  BY <1>6

(* What is left of the list of ended runs, without one of them. *)
LEMMA WithoutIsOfWaiting ==
  ASSUME TeamTyped, NEW i \in Nat
  PROVE  /\ Without(i) \in Seq(Nat)
         /\ \A k \in DOMAIN Without(i) : \E l \in DOMAIN waiting : Without(i)[k] = waiting[l]
<1>0. waiting \in Seq(Nat)
  BY DEF TeamTyped
<1>1. CASE ~\E k \in 1..Len(waiting) : waiting[k] = i
  BY <1>0, <1>1 DEF Without, RemoveFirst
<1>2. CASE \E k \in 1..Len(waiting) : waiting[k] = i
  <2> DEFINE I == {k \in 1..Len(waiting) : waiting[k] = i}
             n == SelectInSeq(waiting, LAMBDA v : v = i)
  <2>1. I \in SUBSET Nat /\ I # {}
    BY <1>2
  <2>2. \E x \in I : \A y \in I : x <= y
    <3> HIDE DEF I
    <3> QED
      BY <2>1, LeastNumber
  <2>3. Min(I) \in I
    BY <2>2, Zenon DEF Min
  <2>4. n = Min(I)
    BY <2>1 DEF SelectInSeq
  <2>5. Without(i) = SubSeq(waiting, 1, n - 1) \o SubSeq(waiting, n + 1, Len(waiting))
    BY <1>2 DEF Without, RemoveFirst, RemoveAt
  <2>6. n \in 1..Len(waiting)
    BY <2>3, <2>4
  <2> HIDE DEF n, I
  <2> DEFINE before == SubSeq(waiting, 1, n - 1)
             after == SubSeq(waiting, n + 1, Len(waiting))
  <2>7. /\ before \in Seq(Nat) /\ Len(before) = n - 1
        /\ \A k \in 1..n - 1 : before[k] = waiting[k]
    BY <1>0, <2>6
  <2>8. /\ after \in Seq(Nat) /\ Len(after) = Len(waiting) - n
        /\ \A k \in 1..Len(waiting) - n : after[k] = waiting[n + k]
    BY <1>0, <2>6
  <2>9. Without(i) = before \o after
    BY <2>5
  <2> HIDE DEF before, after
  <2> HIDE DEF Without
  <2>10. /\ Without(i) \in Seq(Nat) /\ Len(Without(i)) = Len(waiting) - 1
         /\ \A k \in 1..n - 1 : Without(i)[k] = before[k]
         /\ \A k \in n..Len(waiting) - 1 : Without(i)[k] = after[k - (n - 1)]
    <3>0. \A s, t \in Seq(Nat) :
            /\ s \o t \in Seq(Nat) /\ Len(s \o t) = Len(s) + Len(t)
            /\ \A k \in 1..Len(s) + Len(t) : (s \o t)[k] = IF k <= Len(s) THEN s[k] ELSE t[k - Len(s)]
      OBVIOUS
    <3>1. Without(i) \in Seq(Nat) /\ Len(Without(i)) = Len(before) + Len(after)
      BY <2>7, <2>8, <2>9, <3>0
    <3>2. \A k \in 1..Len(before) + Len(after) :
            Without(i)[k] = IF k <= Len(before) THEN before[k] ELSE after[k - Len(before)]
      BY <2>7, <2>8, <2>9, <3>0
    <3>3. Len(waiting) \in Nat /\ n \in Nat /\ n >= 1 /\ n <= Len(waiting)
      BY <1>0, <2>6
    <3>4. Len(before) = n - 1 /\ Len(after) = Len(waiting) - n
      BY <2>7, <2>8
    <3>5. Len(before) + Len(after) = Len(waiting) - 1
      BY <3>3, <3>4
    <3>6. \A k \in 1..n - 1 : Without(i)[k] = before[k]
      BY <3>2, <3>3, <3>4
    <3>7. ASSUME NEW k \in n..Len(waiting) - 1
          PROVE  Without(i)[k] = after[k - (n - 1)]
      <4>1. k \in 1..Len(before) + Len(after) /\ ~(k <= Len(before))
        BY <3>3, <3>4, <3>5
      <4> QED
        BY <3>2, <3>4, <4>1
    <3> QED
      BY <3>1, <3>5, <3>6, <3>7
  <2>11. ASSUME NEW k \in DOMAIN Without(i)
         PROVE  \E l \in DOMAIN waiting : Without(i)[k] = waiting[l]
    <3>1. k \in 1..Len(waiting) - 1
      BY <1>0, <2>10, <2>11
    <3>2. CASE k < n
      <4>1. k \in 1..n - 1 /\ k \in DOMAIN waiting
        BY <1>0, <2>6, <3>1, <3>2
      <4> QED
        BY <2>7, <2>10, <4>1
    <3>3. CASE k >= n
      <4>1. k \in n..Len(waiting) - 1 /\ k - (n - 1) \in 1..Len(waiting) - n /\ k + 1 \in DOMAIN waiting
            /\ n + (k - (n - 1)) = k + 1
        BY <1>0, <2>6, <3>1, <3>3
      <4>2. Without(i)[k] = waiting[k + 1]
        BY <2>8, <2>10, <4>1
      <4> QED
        BY <4>1, <4>2
    <3> QED
      BY <2>6, <3>1, <3>2, <3>3
  <2> QED
    BY <2>10, <2>11
<1> QED
  BY <1>1, <1>2

LEMMA TeamAllows ==
  ASSUME TeamTyped
  PROVE  /\ team.asks \subseteq Bots /\ team.bots \subseteq Bots /\ team.archives \subseteq Bots
         /\ team.intents \subseteq {"request", "result"}
         /\ team.sends \in Nat /\ team.setbacks \in Nat /\ team.recs \subseteq Recs
BY TeamAssumption DEF TeamTyped

(* A step keeps the message of a run, and an ended run ended. *)
Kept(i) ==
  /\ runs'[i].bot = runs[i].bot /\ runs'[i].from = runs[i].from /\ runs'[i].of = runs[i].of
  /\ runs'[i].intent = runs[i].intent /\ runs'[i].hop = runs[i].hop /\ runs'[i].auto = runs[i].auto
  /\ runs[i].state # "active" => runs'[i].state # "active"
RunsStay ==
  /\ runs' \in Seq(RunRow) /\ DOMAIN runs' = DOMAIN runs
  /\ \A i \in DOMAIN runs : Kept(i)
RunsGrow(run) ==
  /\ runs' \in Seq(RunRow) /\ Len(runs) \in Nat
  /\ DOMAIN runs = 1..Len(runs) /\ DOMAIN runs' = DOMAIN runs \cup {Len(runs) + 1}
  /\ runs'[Len(runs) + 1] = run
  /\ \A i \in DOMAIN runs : runs'[i] = runs[i]

LEMMA RunsAppend ==
  ASSUME TeamTyped, NEW run \in RunRow, runs' = Append(runs, run)
  PROVE  RunsGrow(run)
<1>1. runs \in Seq(RunRow)
  BY DEF TeamTyped
<1>2. /\ Append(runs, run) \in Seq(RunRow) /\ Len(Append(runs, run)) = Len(runs) + 1
      /\ Append(runs, run)[Len(runs) + 1] = run
      /\ \A i \in 1..Len(runs) : Append(runs, run)[i] = runs[i]
  BY <1>1
<1>3. DOMAIN runs = 1..Len(runs) /\ DOMAIN runs' = 1..Len(runs) + 1 /\ Len(runs) \in Nat
  BY <1>1, <1>2
<1> QED
  BY <1>2, <1>3 DEF RunsGrow

LEMMA RunsEnd ==
  ASSUME TeamTyped, NEW i \in DOMAIN runs, NEW state \in {"ended", "cancelled"},
         runs' = [runs EXCEPT ![i].state = state]
  PROVE  RunsStay
<1>1. runs \in Seq(RunRow)
  BY DEF TeamTyped
<1>2. runs[i] \in RunRow /\ [runs[i] EXCEPT !.state = state] \in RunRow
  <2>1. runs[i] \in RunRow
    BY <1>1
  <2> QED
    BY <2>1 DEF RunRow
<1>3. runs' = [runs EXCEPT ![i] = [runs[i] EXCEPT !.state = state]]
  OBVIOUS
<1>4. runs' \in Seq(RunRow) /\ DOMAIN runs' = DOMAIN runs
  BY <1>1, <1>2, <1>3
<1>5. ASSUME NEW j \in DOMAIN runs
      PROVE  Kept(j)
  <2>1. CASE j = i
    BY <1>2, <1>3, <2>1 DEF Kept, RunRow
  <2>2. CASE j # i
    <3>1. runs'[j] = runs[j]
      BY <1>3, <2>2
    <3> QED
      BY <3>1 DEF Kept
  <2> QED
    BY <2>1, <2>2
<1> QED
  BY <1>4, <1>5 DEF RunsStay

LEMMA RunsCancelled ==
  ASSUME TeamTyped, NEW b \in Bots, archiveCommits(b)
  PROVE  RunsStay
<1>1. runs \in Seq(RunRow) /\ DOMAIN runs = 1..Len(runs) /\ Len(runs) \in Nat
  BY DEF TeamTyped
<1> DEFINE new(i) == IF i \in archiving[b] THEN [runs[i] EXCEPT !.state = "cancelled"] ELSE runs[i]
<1>2. \A i \in DOMAIN runs : runs[i] \in RunRow
  BY <1>1
<1>3. \A i \in DOMAIN runs : new(i) \in RunRow
  BY <1>2 DEF RunRow
<1>4. runs' = [i \in 1..Len(runs) |-> new(i)]
  BY <1>1 DEF archiveCommits
<1>5. \A i \in DOMAIN runs : runs'[i] = new(i)
  BY <1>1, <1>4
<1>6. \A i \in DOMAIN runs : Kept(i)
  BY <1>2, <1>5 DEF Kept, RunRow
<1> HIDE DEF new
<1>7. runs' \in Seq(RunRow) /\ DOMAIN runs' = DOMAIN runs
  BY <1>1, <1>3, <1>4
<1> QED
  BY <1>6, <1>7 DEF RunsStay

LEMMA RunsUnchanged == TeamTyped /\ UNCHANGED runs => RunsStay
BY DEF TeamTyped, RunsStay, Kept

(* What is sent is typed. *)
LEMMA RunTyped ==
  ASSUME NEW bot \in Bots, NEW from \in Bots \cup {NoBot}, NEW of \in Nat,
         NEW intent \in Intents \cup {"none"}, NEW hop \in Nat, NEW auto \in BOOLEAN
  PROVE  Run(bot, from, of, intent, hop, auto) \in RunRow
BY DEF Run, RunRow

LEMMA AskGrows ==
  ASSUME TeamTyped, NEW b \in Bots, ask(b)
  PROVE  RunsGrow(Run(b, NoBot, 0, "none", 0, FALSE))
BY RunTyped, RunsAppend DEF ask

LEMMA MessageGrows ==
  ASSUME TeamTyped, NEW i \in DOMAIN runs, NEW target \in Bots, NEW intent \in team.intents,
         messageBot(i, target, intent)
  PROVE  RunsGrow(Run(target, runs[i].bot, i, intent, runs[i].hop + 1, FALSE))
<1>1. runs[i] \in RunRow /\ i \in Nat
  BY DEF TeamTyped
<1>2. runs[i].bot \in Bots /\ runs[i].hop + 1 \in Nat
  BY <1>1 DEF RunRow
<1>3. intent \in Intents
  BY TeamAllows DEF Intents
<1>4. Run(target, runs[i].bot, i, intent, runs[i].hop + 1, FALSE) \in RunRow
  BY <1>1, <1>2, <1>3, RunTyped
<1> QED
  BY <1>4, RunsAppend DEF messageBot, nextBotMessageHop


-----------------------------------------------------------------------------
(* Outcomes *)

(* The run has not sent a result itself. *)
Untold(i) ==
  ~\E j \in DOMAIN runs :
     runs[j].of = i /\ ~runs[j].auto /\ runs[j].intent = "result" /\ runs[j].bot = runs[i].from

(* What a run's messages say of the run they are of: an outcome is of a    *)
(* request whose run has ended without telling it, and it is alone.        *)
IsOutcome(j, i) == runs[j].auto /\ runs[j].of = i
OutcomesKnow ==
  /\ \A j \in DOMAIN runs :
       /\ runs[j].of < j /\ (runs[j].intent # "none" => runs[j].from # NoBot)
       /\ runs[j].auto => runs[j].of # 0 /\ runs[j].intent \in {"result", "status"}
  /\ \A i, j \in DOMAIN runs : IsOutcome(j, i) =>
       /\ runs[i].intent = "request" /\ runs[i].state # "active" /\ Untold(i)
       /\ \A k \in DOMAIN runs : IsOutcome(k, i) => k = j
WaitingEnded == \A k \in DOMAIN waiting : waiting[k] \in DOMAIN runs /\ runs[waiting[k]].state # "active"
ReturnersKnow ==
  \A r \in Ids \cup Recs :
    LET i == returner[r].run IN
    /\ returner[r].pc # "idle" => i \in DOMAIN runs /\ runs[i].state # "active"
    /\ returner[r].pc = "deliver" => runs[i].intent = "request" /\ Untold(i)
OutcomeInv == OutcomesKnow /\ WaitingEnded /\ ReturnersKnow

LEMMA StayKeeps ==
  ASSUME TeamTyped, OutcomesKnow, RunsStay
  PROVE  /\ OutcomesKnow'
         /\ \A i \in DOMAIN runs : Untold(i) => Untold(i)'
<1>1. \A i \in DOMAIN runs : Untold(i) => Untold(i)'
  BY DEF RunsStay, Kept, Untold
<1>2. OutcomesKnow'
  BY <1>1 DEF RunsStay, Kept, OutcomesKnow, IsOutcome
<1> QED
  BY <1>1, <1>2

(* A new run is of an active one, of none, or the only outcome of one.     *)
LEMMA GrowthKeeps ==
  ASSUME TeamTyped, OutcomesKnow, NEW run, RunsGrow(run), run.of \in Nat, run.of <= Len(runs),
         run.intent # "none" => run.from # NoBot,
         \/ ~run.auto /\ (run.of \in DOMAIN runs => runs[run.of].state = "active")
         \/ /\ run.auto /\ run.intent \in {"result", "status"} /\ run.of \in DOMAIN runs
            /\ runs[run.of].intent = "request" /\ runs[run.of].state # "active"
            /\ Untold(run.of) /\ ~Delivered(run.of)
  PROVE  /\ OutcomesKnow'
         /\ \A i \in DOMAIN runs : runs[i].state # "active" /\ Untold(i) => Untold(i)'
<1>0. PICK n \in Nat : n = Len(runs) + 1
  BY DEF RunsGrow
<1>1. /\ DOMAIN runs' = DOMAIN runs \cup {n} /\ runs'[n] = run /\ n \notin DOMAIN runs
      /\ \A i \in DOMAIN runs : runs'[i] = runs[i] /\ i \in Nat /\ i < n
  BY <1>0 DEF RunsGrow
<1>2. ASSUME NEW i \in DOMAIN runs, runs[i].state # "active", Untold(i)
      PROVE  Untold(i)'
  BY <1>1, <1>2 DEF Untold
<1>3. run.of < n
  BY <1>0 DEF RunsGrow
<1>4. \A i, j \in DOMAIN runs : IsOutcome(j, i)' <=> IsOutcome(j, i)
  BY <1>1 DEF IsOutcome
<1>5. \A i \in DOMAIN runs : IsOutcome(n, i)' <=> run.auto /\ i = run.of
  BY <1>1 DEF IsOutcome
<1>6. \A j \in DOMAIN runs : ~(run.auto /\ IsOutcome(j, run.of))
  BY DEF IsOutcome, Delivered
<1>7. \A j \in DOMAIN runs' : ~IsOutcome(j, n)'
  BY <1>1, <1>3 DEF OutcomesKnow, IsOutcome
<1>8. ASSUME NEW i \in DOMAIN runs', NEW j \in DOMAIN runs', IsOutcome(j, i)'
      PROVE  /\ runs'[i].intent = "request" /\ runs'[i].state # "active" /\ Untold(i)'
             /\ \A k \in DOMAIN runs' : IsOutcome(k, i)' => k = j
  <2>1. i \in DOMAIN runs
    BY <1>1, <1>7, <1>8
  <2>2. CASE j \in DOMAIN runs
    <3>1. IsOutcome(j, i)
      BY <1>4, <1>8, <2>1, <2>2
    <3>2. \A k \in DOMAIN runs' : IsOutcome(k, i)' => k = j
      BY <1>1, <1>4, <1>5, <1>6, <2>1, <2>2, <3>1 DEF OutcomesKnow
    <3> QED
      BY <1>1, <1>2, <2>1, <2>2, <3>1, <3>2 DEF OutcomesKnow
  <2>3. CASE j = n
    <3>1. run.auto /\ i = run.of
      BY <1>5, <1>8, <2>1, <2>3
    <3>2. \A k \in DOMAIN runs' : IsOutcome(k, i)' => k = j
      BY <1>1, <1>4, <1>6, <2>1, <2>3, <3>1
    <3> QED
      BY <1>1, <1>2, <2>1, <3>1, <3>2
  <2> QED
    BY <1>1, <2>2, <2>3
<1>9. \A j \in DOMAIN runs' :
        /\ runs'[j].of < j /\ (runs'[j].intent # "none" => runs'[j].from # NoBot)
        /\ runs'[j].auto => runs'[j].of # 0 /\ runs'[j].intent \in {"result", "status"}
  BY <1>1, <1>3 DEF OutcomesKnow
<1>10. OutcomesKnow'
  BY <1>8, <1>9 DEF OutcomesKnow
<1> QED
  BY <1>2, <1>10

(* Runs, and what is known of them, only go on. *)
RunsOnward ==
  /\ OutcomesKnow'
  /\ \A i \in DOMAIN runs :
       i \in DOMAIN runs' /\ Kept(i) /\ (runs[i].state # "active" /\ Untold(i) => Untold(i)')

LEMMA StayOnward ==
  ASSUME TeamTyped, OutcomeInv, RunsStay
  PROVE  RunsOnward
BY StayKeeps DEF RunsOnward, OutcomeInv, RunsStay

LEMMA GrowthOnward ==
  ASSUME TeamTyped, OutcomeInv, NEW run, RunsGrow(run), run.of \in Nat, run.of <= Len(runs),
         run.intent # "none" => run.from # NoBot,
         \/ ~run.auto /\ (run.of \in DOMAIN runs => runs[run.of].state = "active")
         \/ /\ run.auto /\ run.intent \in {"result", "status"} /\ run.of \in DOMAIN runs
            /\ runs[run.of].intent = "request" /\ runs[run.of].state # "active"
            /\ Untold(run.of) /\ ~Delivered(run.of)
  PROVE  RunsOnward
<1>1. /\ OutcomesKnow'
      /\ \A i \in DOMAIN runs : runs[i].state # "active" /\ Untold(i) => Untold(i)'
  BY GrowthKeeps DEF OutcomeInv
<1>2. \A i \in DOMAIN runs : i \in DOMAIN runs' /\ Kept(i)
  BY DEF RunsGrow, Kept
<1> QED
  BY <1>1, <1>2 DEF RunsOnward

LEMMA WaitingKeeps ==
  ASSUME OutcomeInv, RunsOnward,
         \A k \in DOMAIN waiting' :
           \/ \E l \in DOMAIN waiting : waiting'[k] = waiting[l]
           \/ waiting'[k] \in DOMAIN runs' /\ runs'[waiting'[k]].state # "active"
  PROVE  WaitingEnded'
<1> SUFFICES ASSUME NEW k \in DOMAIN waiting'
             PROVE  waiting'[k] \in DOMAIN runs' /\ runs'[waiting'[k]].state # "active"
  BY DEF WaitingEnded
<1>1. ASSUME NEW l \in DOMAIN waiting, waiting'[k] = waiting[l]
      PROVE  waiting'[k] \in DOMAIN runs' /\ runs'[waiting'[k]].state # "active"
  BY <1>1 DEF OutcomeInv, WaitingEnded, RunsOnward, Kept
<1> QED
  BY <1>1

LEMMA ReturnersKeep ==
  ASSUME OutcomeInv, RunsOnward,
         \A r \in Ids \cup Recs :
           \/ returner'[r] = returner[r]
           \/ returner'[r].pc = "idle"
           \/ \E i \in DOMAIN runs :
                /\ returner'[r].run = i /\ runs'[i].state # "active"
                /\ returner'[r].pc = "deliver" =>
                     runs[i].state # "active" /\ runs[i].intent = "request" /\ Untold(i)
  PROVE  ReturnersKnow'
<1>1. ASSUME NEW r \in Ids \cup Recs, NEW i, i = returner'[r].run
      PROVE  /\ returner'[r].pc # "idle" => i \in DOMAIN runs' /\ runs'[i].state # "active"
             /\ returner'[r].pc = "deliver" => runs'[i].intent = "request" /\ Untold(i)'
  <2>1. CASE returner'[r] = returner[r]
    <3>1. /\ returner[r].pc # "idle" => i \in DOMAIN runs /\ runs[i].state # "active"
          /\ returner[r].pc = "deliver" => runs[i].intent = "request" /\ Untold(i)
      BY <1>1, <2>1 DEF OutcomeInv, ReturnersKnow
    <3> QED
      BY <2>1, <3>1 DEF RunsOnward, Kept
  <2>2. CASE returner'[r].pc = "idle"
    BY <2>2
  <2>3. ASSUME i \in DOMAIN runs, runs'[i].state # "active",
               returner'[r].pc = "deliver" =>
                 runs[i].state # "active" /\ runs[i].intent = "request" /\ Untold(i)
        PROVE  /\ i \in DOMAIN runs' /\ runs'[i].state # "active"
               /\ returner'[r].pc = "deliver" => runs'[i].intent = "request" /\ Untold(i)'
    BY <2>3 DEF RunsOnward, Kept
  <2> QED
    BY <1>1, <2>1, <2>2, <2>3
<1>2. \A r \in Ids \cup Recs : \A i : i = returner'[r].run =>
             /\ returner'[r].pc # "idle" => i \in DOMAIN runs' /\ runs'[i].state # "active"
             /\ returner'[r].pc = "deliver" => runs'[i].intent = "request" /\ Untold(i)'
  BY <1>1
<1> QED
  BY <1>2 DEF ReturnersKnow, Untold

(* Steps of a returner. *)
LEMMA ReturnerSteps ==
  ASSUME TeamTyped, NEW r \in Ids \cup Recs
  PROVE  /\ \A pc \in {"idle", "read", "deliver", "mark", "rotate"} : ReturnerTo(r, pc) =>
              /\ returner' \in [Ids \cup Recs -> Returner]
              /\ returner'[r].pc = pc /\ returner'[r].run = returner[r].run
              /\ \A o \in (Ids \cup Recs) \ {r} : returner'[o] = returner[o]
         /\ ReturnEnds(r) =>
              /\ returner' \in [Ids \cup Recs -> Returner]
              /\ returner'[r].pc = "idle"
              /\ \A o \in (Ids \cup Recs) \ {r} : returner'[o] = returner[o]
<1>1. returner \in [Ids \cup Recs -> Returner] /\ returner[r] \in Returner
  BY DEF TeamTyped
<1>2. ASSUME NEW pc \in {"idle", "read", "deliver", "mark", "rotate"}, ReturnerTo(r, pc)
      PROVE  /\ returner' \in [Ids \cup Recs -> Returner]
             /\ returner'[r].pc = pc /\ returner'[r].run = returner[r].run
             /\ \A o \in (Ids \cup Recs) \ {r} : returner'[o] = returner[o]
  <2>1. /\ [returner[r] EXCEPT !.pc = pc] \in Returner
        /\ [returner[r] EXCEPT !.pc = pc].pc = pc
        /\ [returner[r] EXCEPT !.pc = pc].run = returner[r].run
    BY <1>1 DEF Returner
  <2>2. returner' = [returner EXCEPT ![r] = [returner[r] EXCEPT !.pc = pc]]
    BY <1>2 DEF ReturnerTo
  <2> QED
    BY <1>1, <2>1, <2>2
<1>3. ASSUME ReturnEnds(r)
      PROVE  /\ returner' \in [Ids \cup Recs -> Returner]
             /\ returner'[r].pc = "idle"
             /\ \A o \in (Ids \cup Recs) \ {r} : returner'[o] = returner[o]
  <2>1. Returning \in Returner /\ Returning.pc = "idle"
    BY DEF Returning, Returner
  <2> QED
    BY <1>1, <1>3, <2>1 DEF ReturnEnds
<1> QED
  BY <1>2, <1>3

LEMMA ReturnerReads ==
  ASSUME TeamTyped, NEW r, NEW i \in Nat,
         returner' = [returner EXCEPT ![r] = [pc |-> "read", run |-> i]]
  PROVE  /\ returner' \in [Ids \cup Recs -> Returner]
         /\ \A o \in Ids \cup Recs :
              returner'[o] = returner[o] \/ (returner'[o].pc = "read" /\ returner'[o].run = i)
<1>1. [pc |-> "read", run |-> i] \in Returner
  BY DEF Returner
<1> QED
  BY <1>1 DEF TeamTyped

(* A run is asked for, or messages another bot. *)
LEMMA AskKeeps ==
  ASSUME TeamTyped, OutcomeInv, NEW b \in Bots, ask(b)
  PROVE  TeamTyped' /\ OutcomeInv'
<1> DEFINE run == Run(b, NoBot, 0, "none", 0, FALSE)
<1>1. RunsGrow(run) /\ UNCHANGED <<team, waiting, returner, archived, setbacks>>
  BY AskGrows DEF ask
<1>2. run.of = 0 /\ ~run.auto /\ run.intent = "none"
  BY DEF Run
<1> HIDE DEF run
<1>3. 0 \notin DOMAIN runs /\ runs' \in Seq(RunRow) /\ 0 <= Len(runs)
  BY <1>1 DEF RunsGrow
<1>4. RunsOnward
  BY <1>1, <1>2, <1>3, GrowthOnward
<1>5. WaitingEnded' /\ ReturnersKnow'
  BY <1>1, <1>4, WaitingKeeps, ReturnersKeep
<1> QED
  BY <1>1, <1>3, <1>4, <1>5 DEF TeamTyped, OutcomeInv, RunsOnward

LEMMA MessageKeeps ==
  ASSUME TeamTyped, OutcomeInv, NEW i \in DOMAIN runs, NEW target \in Bots,
         NEW intent \in team.intents, messageBot(i, target, intent)
  PROVE  TeamTyped' /\ OutcomeInv'
<1> DEFINE run == Run(target, runs[i].bot, i, intent, runs[i].hop + 1, FALSE)
<1>1. RunsGrow(run) /\ UNCHANGED <<team, waiting, returner, archived, setbacks>>
  BY MessageGrows DEF messageBot
<1>2. run.of = i /\ ~run.auto /\ runs[i].state = "active" /\ run.from # NoBot
  <2>1. runs[i] \in RunRow
    BY DEF TeamTyped
  <2>2. runs[i].bot # NoBot
    BY <2>1, TeamAssumption DEF RunRow
  <2> QED
    BY <2>2 DEF Run, messageBot
<1> HIDE DEF run
<1>3. runs' \in Seq(RunRow) /\ i \in Nat /\ i <= Len(runs)
  BY <1>1 DEF RunsGrow
<1>4. RunsOnward
  BY <1>1, <1>2, <1>3, GrowthOnward
<1>5. WaitingEnded' /\ ReturnersKnow'
  BY <1>1, <1>4, WaitingKeeps, ReturnersKeep
<1> QED
  BY <1>1, <1>3, <1>4, <1>5 DEF TeamTyped, OutcomeInv, RunsOnward

(* Runs end or are stopped. *)
LEMMA EndKeeps ==
  ASSUME TeamTyped, OutcomeInv, NEW i \in DOMAIN runs, finalizeRun(i)
  PROVE  TeamTyped' /\ OutcomeInv'
<1>0. runs \in Seq(RunRow) /\ i \in Nat /\ runs[i] \in RunRow
  BY DEF TeamTyped
<1>1. runs' = [runs EXCEPT ![i].state = "ended"] /\ UNCHANGED <<team, archived, setbacks>>
  BY DEF finalizeRun
<1>2. RunsStay
  BY <1>1, RunsEnd
<1>3. runs'[i].state = "ended" /\ i \in DOMAIN runs'
  BY <1>0, <1>1 DEF RunRow
<1>4. RunsOnward
  BY <1>2, StayOnward
<1>5. /\ waiting' \in Seq(Nat)
      /\ \A k \in DOMAIN waiting' : (\E l \in DOMAIN waiting : waiting'[k] = waiting[l]) \/ waiting'[k] = i
  <2>1. UNCHANGED waiting \/ waiting' = Append(waiting, i)
    BY DEF finalizeRun
  <2>2. waiting \in Seq(Nat)
    BY DEF TeamTyped
  <2>3. CASE waiting' = Append(waiting, i)
    <3>1. /\ waiting' \in Seq(Nat) /\ Len(waiting') = Len(waiting) + 1 /\ waiting'[Len(waiting) + 1] = i
          /\ \A k \in 1..Len(waiting) : waiting'[k] = waiting[k]
      BY <1>0, <2>2, <2>3
    <3> QED
      BY <2>2, <3>1
  <2> QED
    BY <2>1, <2>2, <2>3
<1>6. /\ returner' \in [Ids \cup Recs -> Returner]
      /\ \A o \in Ids \cup Recs :
           returner'[o] = returner[o] \/ (returner'[o].pc = "read" /\ returner'[o].run = i)
  <2>1. UNCHANGED returner \/ returner' = [returner EXCEPT ![i] = [pc |-> "read", run |-> i]]
    BY DEF finalizeRun
  <2> QED
    BY <1>0, <2>1, ReturnerReads DEF TeamTyped
<1>7. WaitingEnded'
  BY <1>3, <1>4, <1>5, WaitingKeeps
<1>8. ReturnersKnow'
  BY <1>3, <1>4, <1>6, ReturnersKeep
<1> QED
  BY <1>1, <1>2, <1>4, <1>5, <1>6, <1>7, <1>8 DEF TeamTyped, OutcomeInv, RunsOnward, RunsStay

LEMMA StopKeeps ==
  ASSUME TeamTyped, OutcomeInv,
         (\E i \in DOMAIN runs : stop(i)) \/ (\E b \in Bots : archiveBot(b) \/ archiveCommits(b))
  PROVE  TeamTyped' /\ OutcomeInv'
<1>1. UNCHANGED <<team, waiting, returner, setbacks>> /\ archived' \subseteq Bots
  BY DEF stop, archiveBot, archiveCommits, TeamTyped
<1>2. RunsStay
  <2>1. ASSUME NEW i \in DOMAIN runs, stop(i)
        PROVE  RunsStay
    BY <2>1, RunsEnd DEF stop
  <2>2. ASSUME NEW b \in Bots, archiveBot(b)
        PROVE  RunsStay
    BY <2>2, RunsUnchanged DEF archiveBot
  <2> QED
    BY <2>1, <2>2, RunsCancelled
<1>3. RunsOnward
  BY <1>2, StayOnward
<1>4. WaitingEnded' /\ ReturnersKnow'
  BY <1>1, <1>3, WaitingKeeps, ReturnersKeep
<1> QED
  BY <1>1, <1>2, <1>3, <1>4 DEF TeamTyped, OutcomeInv, RunsOnward, RunsStay

(* The reconciler comes round. *)
LEMMA ListKeeps ==
  ASSUME TeamTyped, OutcomeInv, NEW r \in Recs, listOutcomes(r)
  PROVE  TeamTyped' /\ OutcomeInv'
<1> DEFINE ended == {k \in DOMAIN waiting : runs[waiting[k]].state = "ended"}
<1>0. waiting \in Seq(Nat)
  BY DEF TeamTyped
<1>1. /\ ended # {} /\ UNCHANGED <<team, runs, waiting, archived, setbacks>>
      /\ returner' = [returner EXCEPT ![r] = [pc |-> "read", run |-> waiting[Min(ended)]]]
  BY DEF listOutcomes
<1>2. Min(ended) \in ended
  <2>1. ended \in SUBSET Nat
    BY <1>0
  <2> HIDE DEF ended
  <2>2. \E x \in ended : \A y \in ended : x <= y
    BY <1>1, <2>1, LeastNumber
  <2> QED
    BY <2>2, Zenon DEF Min
<1>3. PICK k \in DOMAIN waiting : k = Min(ended)
  BY <1>2
<1> HIDE DEF ended
<1>4. waiting[k] \in Nat /\ waiting[k] \in DOMAIN runs /\ runs[waiting[k]].state # "active"
  BY <1>0 DEF OutcomeInv, WaitingEnded
<1>5. PICK i \in DOMAIN runs : i = waiting[k] /\ i \in Nat /\ runs[i].state # "active"
  BY <1>4
<1>6. /\ returner' \in [Ids \cup Recs -> Returner]
      /\ \A o \in Ids \cup Recs :
           returner'[o] = returner[o] \/ (returner'[o].pc = "read" /\ returner'[o].run = i)
  BY <1>1, <1>3, <1>5, ReturnerReads
<1>7. RunsStay
  BY <1>1, RunsUnchanged
<1>8. RunsOnward
  BY <1>7, StayOnward
<1>9. WaitingEnded'
  BY <1>1, <1>8, WaitingKeeps
<1>10. ReturnersKnow'
  <2>1. runs'[i].state # "active"
    BY <1>1, <1>5
  <2> QED
    BY <1>6, <1>8, <2>1, ReturnersKeep
<1> QED
  BY <1>1, <1>6, <1>7, <1>8, <1>9, <1>10 DEF TeamTyped, OutcomeInv, RunsOnward, RunsStay

(* A returner's step that leaves the runs. *)
LEMMA ReturnKeeps ==
  ASSUME TeamTyped, OutcomeInv, NEW r \in Ids \cup Recs, NEW pc \in {"idle", "deliver", "mark", "rotate"},
         UNCHANGED <<team, runs, archived>>,
         returner[r].pc # "idle",
         ReturnerTo(r, pc) \/ (ReturnEnds(r) /\ pc = "idle"),
         pc = "deliver" => Owes(returner[r].run),
         setbacks' = setbacks \/ Setback,
         \/ waiting' = waiting
         \/ waiting' = Without(returner[r].run)
         \/ waiting' = Append(Without(returner[r].run), returner[r].run)
  PROVE  TeamTyped' /\ OutcomeInv'
<1>0. PICK i \in DOMAIN runs : i = returner[r].run /\ i \in Nat /\ runs[i].state # "active"
  BY DEF OutcomeInv, ReturnersKnow, TeamTyped
<1>1. /\ returner' \in [Ids \cup Recs -> Returner]
      /\ returner'[r].pc = pc /\ (pc # "idle" => returner'[r].run = i)
      /\ \A o \in (Ids \cup Recs) \ {r} : returner'[o] = returner[o]
  BY <1>0, ReturnerSteps
<1>2. RunsStay
  BY RunsUnchanged
<1>3. RunsOnward
  BY <1>2, StayOnward
<1>4. pc = "deliver" => runs[i].intent = "request" /\ Untold(i)
  BY <1>0 DEF Owes, Untold
<1>5. ReturnersKnow'
  <2>1. runs'[i].state # "active"
    BY <1>0
  <2> QED
    BY <1>0, <1>1, <1>3, <1>4, <2>1, ReturnersKeep
<1>6. /\ waiting' \in Seq(Nat)
      /\ \A k \in DOMAIN waiting' : (\E l \in DOMAIN waiting : waiting'[k] = waiting[l]) \/ waiting'[k] = i
  <2>1. waiting \in Seq(Nat)
    BY DEF TeamTyped
  <2>2. /\ Without(i) \in Seq(Nat)
        /\ \A k \in DOMAIN Without(i) : \E l \in DOMAIN waiting : Without(i)[k] = waiting[l]
    BY <1>0, WithoutIsOfWaiting
  <2>3. CASE waiting' = waiting
    BY <2>1, <2>3
  <2>4. CASE waiting' = Without(i)
    BY <2>2, <2>4
  <2>5. CASE waiting' = Append(Without(i), i)
    <3> HIDE DEF Without
    <3>1. /\ waiting' \in Seq(Nat) /\ DOMAIN waiting' = 1..Len(Without(i)) + 1
          /\ waiting'[Len(Without(i)) + 1] = i
          /\ \A k \in 1..Len(Without(i)) : waiting'[k] = Without(i)[k]
          /\ DOMAIN Without(i) = 1..Len(Without(i)) /\ Len(Without(i)) \in Nat
      BY <1>0, <2>2, <2>5
    <3>2. ASSUME NEW k \in DOMAIN waiting'
          PROVE  (\E l \in DOMAIN waiting : waiting'[k] = waiting[l]) \/ waiting'[k] = i
      <4>1. k \in 1..Len(Without(i)) \/ k = Len(Without(i)) + 1
        BY <3>1
      <4> QED
        BY <2>2, <3>1, <4>1
    <3> QED
      BY <3>1, <3>2
  <2> QED
    BY <1>0, <2>3, <2>4, <2>5
<1>7. WaitingEnded'
  BY <1>0, <1>3, <1>6, WaitingKeeps
<1>8. setbacks' \in Nat /\ setbacks' <= team'.setbacks
  BY TeamAllows DEF Setback, TeamTyped
<1> QED
  BY <1>1, <1>2, <1>3, <1>5, <1>6, <1>7, <1>8 DEF TeamTyped, OutcomeInv, RunsOnward, RunsStay

(* The outcome is delivered, unless it has been, or cannot be. *)
LEMMA DeliveryTells ==
  ASSUME TeamTyped, OutcomeInv, NEW r \in Ids \cup Recs, NEW intent \in {"result", "status"},
         deliverOutcome(r, intent)
  PROVE  TeamTyped' /\ OutcomeInv'
<1>0. PICK i \in DOMAIN runs : i = returner[r].run /\ i \in Nat /\ runs[i].state # "active"
                               /\ runs[i].intent = "request" /\ Untold(i) /\ runs[i].from # NoBot
  <2>1. runs \in Seq(RunRow) /\ returner[r].pc = "deliver"
    BY DEF TeamTyped, deliverOutcome
  <2>2. \A i \in DOMAIN runs : i \in Nat /\ (runs[i].intent = "request" => runs[i].from # NoBot)
    BY <2>1 DEF OutcomeInv, OutcomesKnow
  <2> QED
    BY <2>1, <2>2 DEF OutcomeInv, ReturnersKnow
<1>1. UNCHANGED <<team, waiting, archived, setbacks>> /\ returner[r].pc = "deliver"
  BY DEF deliverOutcome
<1>2. CASE UNCHANGED runs /\ (ReturnerTo(r, "mark") \/ ReturnerTo(r, "rotate"))
  <2>1. /\ UNCHANGED <<team, runs, archived>> /\ waiting' = waiting /\ setbacks' = setbacks
        /\ returner[r].pc # "idle"
    BY <1>1, <1>2
  <2>2. CASE ReturnerTo(r, "mark")
    <3>1. PICK pc \in {"idle", "deliver", "mark", "rotate"} : pc = "mark" /\ ReturnerTo(r, pc)
      BY <2>2
    <3> QED
      BY <2>1, <3>1, ReturnKeeps
  <2>3. CASE ReturnerTo(r, "rotate")
    <3>1. PICK pc \in {"idle", "deliver", "mark", "rotate"} : pc = "rotate" /\ ReturnerTo(r, pc)
      BY <2>3
    <3> QED
      BY <2>1, <3>1, ReturnKeeps
  <2> QED
    BY <1>2, <2>2, <2>3
<1>3. CASE /\ ~Delivered(i) /\ runs[i].from \notin archived /\ ReturnerTo(r, "mark")
           /\ runs' = Append(runs, Run(runs[i].from, runs[i].bot, i, intent, runs[i].hop + 1, TRUE))
  <2> DEFINE run == Run(runs[i].from, runs[i].bot, i, intent, runs[i].hop + 1, TRUE)
  <2>1. runs[i] \in RunRow
    BY DEF TeamTyped
  <2>2. run \in RunRow
    <3>1. runs[i].from \in Bots /\ runs[i].bot \in Bots \cup {NoBot} /\ runs[i].hop + 1 \in Nat
      BY <1>0, <2>1 DEF RunRow
    <3>2. intent \in Intents \cup {"none"} /\ TRUE \in BOOLEAN
      BY DEF Intents
    <3> QED
      BY <1>0, <3>1, <3>2, RunTyped
  <2>3. run.of = i /\ run.auto /\ run.intent = intent /\ run.from # NoBot
    BY <2>1, TeamAssumption DEF Run, RunRow
  <2>4. runs' = Append(runs, run)
    BY <1>3
  <2> HIDE DEF run
  <2>5. RunsGrow(run)
    BY <2>2, <2>4, RunsAppend
  <2>6. runs' \in Seq(RunRow) /\ i <= Len(runs)
    BY <2>5 DEF RunsGrow
  <2>7. RunsOnward
    BY <1>0, <1>3, <2>3, <2>5, <2>6, GrowthOnward
  <2>8. /\ returner' \in [Ids \cup Recs -> Returner]
        /\ returner'[r].pc = "mark" /\ returner'[r].run = i
        /\ \A o \in (Ids \cup Recs) \ {r} : returner'[o] = returner[o]
    BY <1>0, <1>3, ReturnerSteps
  <2>9. runs'[i].state # "active"
    BY <1>0, <2>7 DEF RunsOnward, Kept
  <2>10. ReturnersKnow'
    BY <2>7, <2>8, <2>9, ReturnersKeep
  <2>11. WaitingEnded'
    BY <1>1, <2>7, WaitingKeeps
  <2> QED
    BY <1>1, <2>6, <2>7, <2>8, <2>10, <2>11 DEF TeamTyped, OutcomeInv, RunsOnward
<1> QED
  BY <1>0, <1>2, <1>3 DEF deliverOutcome

(* The other steps of a returner: it reads, marks, leaves it, or fails.    *)
LEMMA ReturnsKeep ==
  ASSUME TeamTyped, OutcomeInv, NEW r \in Ids \cup Recs,
         readSource(r) \/ markBotOutcomeReturned(r) \/ rotate(r) \/ returnFails(r)
  PROVE  TeamTyped' /\ OutcomeInv'
<1> DEFINE OneOf(v) == \/ v = waiting
                      \/ v = Without(returner[r].run)
                      \/ v = Append(Without(returner[r].run), returner[r].run)
<1>1. /\ UNCHANGED <<team, runs, archived>> /\ returner[r].pc # "idle"
      /\ setbacks' = setbacks \/ Setback
  BY DEF readSource, markBotOutcomeReturned, rotate, returnFails
<1>2. OneOf(waiting')
  BY DEF readSource, markBotOutcomeReturned, rotate, Rotated, returnFails
<1>3. \/ ReturnEnds(r)
      \/ ReturnerTo(r, "rotate")
      \/ ReturnerTo(r, "deliver") /\ Owes(returner[r].run)
  BY DEF readSource, markBotOutcomeReturned, rotate, returnFails
<1> HIDE DEF OneOf
<1>4. ASSUME NEW pc \in {"idle", "deliver", "mark", "rotate"},
             ReturnerTo(r, pc) \/ (ReturnEnds(r) /\ pc = "idle"),
             pc = "deliver" => Owes(returner[r].run)
      PROVE  TeamTyped' /\ OutcomeInv'
  BY <1>1, <1>2, <1>4, ReturnKeeps DEF OneOf
<1>5. CASE ReturnEnds(r)
  <2>1. PICK pc \in {"idle", "deliver", "mark", "rotate"} : pc = "idle"
    OBVIOUS
  <2> QED
    BY <1>4, <1>5, <2>1
<1>6. CASE ReturnerTo(r, "rotate")
  <2>1. PICK pc \in {"idle", "deliver", "mark", "rotate"} : pc = "rotate" /\ ReturnerTo(r, pc)
    BY <1>6
  <2> QED
    BY <1>4, <2>1
<1>7. CASE ReturnerTo(r, "deliver") /\ Owes(returner[r].run)
  <2>1. PICK pc \in {"idle", "deliver", "mark", "rotate"} : pc = "deliver" /\ ReturnerTo(r, pc)
    BY <1>7
  <2> QED
    BY <1>4, <1>7, <2>1
<1> QED
  BY <1>3, <1>5, <1>6, <1>7

LEMMA TeamStarts == TeamInit => TeamTyped /\ OutcomeInv
<1> SUFFICES ASSUME TeamInit
             PROVE  TeamTyped /\ OutcomeInv
  OBVIOUS
<1>1. team \in Teams /\ team.setbacks \in Nat
  BY TeamAssumption DEF TeamInit
<1>2. returner \in [Ids \cup Recs -> Returner] /\ \A r \in Ids \cup Recs : returner[r].pc = "idle"
  BY DEF TeamInit, Returning, Returner
<1>3. runs = <<>> /\ waiting = <<>> /\ archived = {} /\ setbacks = 0
  BY DEF TeamInit
<1>4. runs \in Seq(RunRow) /\ waiting \in Seq(Nat) /\ DOMAIN runs = {} /\ DOMAIN waiting = {}
  BY <1>3
<1>5. OutcomesKnow /\ WaitingEnded /\ ReturnersKnow
  BY <1>2, <1>4 DEF OutcomesKnow, WaitingEnded, ReturnersKnow
<1> QED
  BY <1>1, <1>2, <1>3, <1>4, <1>5 DEF TeamTyped, OutcomeInv

LEMMA TeamKeeps ==
  ASSUME TeamTyped, OutcomeInv, [TeamNext]_teamVars
  PROVE  TeamTyped' /\ OutcomeInv'
<1>1. CASE UNCHANGED teamVars
  BY <1>1 DEF teamVars, TeamTyped, OutcomeInv, OutcomesKnow, WaitingEnded, ReturnersKnow, IsOutcome, Untold
<1>2. ASSUME NEW b \in Bots, ask(b) \/ archiveBot(b) \/ archiveCommits(b)
      PROVE  TeamTyped' /\ OutcomeInv'
  BY <1>2, AskKeeps, StopKeeps
<1>3. ASSUME NEW i \in DOMAIN runs, finalizeRun(i) \/ stop(i)
      PROVE  TeamTyped' /\ OutcomeInv'
  BY <1>3, EndKeeps, StopKeeps
<1>4. ASSUME NEW i \in DOMAIN runs, NEW b \in Bots, NEW intent \in team.intents, messageBot(i, b, intent)
      PROVE  TeamTyped' /\ OutcomeInv'
  BY <1>4, MessageKeeps
<1>5. ASSUME NEW r \in Recs, listOutcomes(r)
      PROVE  TeamTyped' /\ OutcomeInv'
  BY <1>5, ListKeeps
<1>6. ASSUME NEW r \in Ids \cup Recs, Returns(r) \/ returnFails(r)
      PROVE  TeamTyped' /\ OutcomeInv'
  <2>1. ASSUME NEW intent \in {"result", "status"}, deliverOutcome(r, intent)
        PROVE  TeamTyped' /\ OutcomeInv'
    BY <2>1, DeliveryTells
  <2>2. CASE readSource(r) \/ markBotOutcomeReturned(r) \/ rotate(r) \/ returnFails(r)
    BY <2>2, ReturnsKeep
  <2> QED
    BY <1>6, <2>1, <2>2 DEF Returns
<1> QED
  BY <1>1, <1>2, <1>3, <1>4, <1>5, <1>6 DEF TeamNext

LEMMA ToldOnce == TeamTyped /\ OutcomeInv => OutcomeToldOnce
<1> SUFFICES ASSUME TeamTyped, OutcomeInv, NEW i \in DOMAIN runs,
                    NEW told, told = {j \in DOMAIN runs : runs[j].of = i /\ runs[j].auto}
             PROVE  /\ Cardinality(told) <= 1
                    /\ told # {} =>
                         /\ ~runs[i].auto
                         /\ ~\E j \in DOMAIN runs : runs[j].of = i /\ ~runs[j].auto
                              /\ runs[j].intent = "result" /\ runs[j].bot = runs[i].from
  BY DEF OutcomeToldOnce
<1>1. \A j \in told : /\ runs[i].intent = "request" /\ Untold(i)
                      /\ \A k \in told : k = j
  BY DEF OutcomeInv, OutcomesKnow, IsOutcome
<1>2. runs[i].auto => runs[i].intent # "request"
  BY DEF OutcomeInv, OutcomesKnow
<1>3. CASE told = {}
  BY <1>3, FS_EmptySet
<1>4. CASE told # {}
  <2>1. PICK j \in told : \A k \in told : k = j
    BY <1>1, <1>4
  <2>2. told = {j}
    BY <2>1
  <2>3. Cardinality(told) = 1
    BY <2>2, FS_Singleton
  <2> QED
    BY <1>1, <1>2, <1>4, <2>3 DEF Untold
<1> QED
  BY <1>3, <1>4

(* What a delegated run came to is told once, by the run itself or by one  *)
(* of those who do it for it, whoever gets there first, and being told is  *)
(* nothing that is answered in turn (returnBotMessageOutcome, messageBot). *)
THEOREM OutcomeOnce == TeamSpec => []OutcomeToldOnce
<1>1. TeamInit => TeamTyped /\ OutcomeInv
  BY TeamStarts
<1>2. TeamTyped /\ OutcomeInv /\ [TeamNext]_teamVars => TeamTyped' /\ OutcomeInv'
  BY TeamKeeps
<1>3. TeamTyped /\ OutcomeInv => OutcomeToldOnce
  BY ToldOnce
<1> QED
  BY <1>1, <1>2, <1>3, PTL DEF TeamSpec

-----------------------------------------------------------------------------
(* How many runs there are *)

(* The user asks a bot once; a run that has been sent is told of once.     *)
Asked == {i \in DOMAIN runs : runs[i].of = 0}
Outcomes == {i \in DOMAIN runs : runs[i].of # 0 /\ runs[i].auto}
RunsAreFew ==
  /\ \A i \in DOMAIN runs :
       /\ runs[i].hop <= BOT_MESSAGE_MAX_HOPS + 1
       /\ ~runs[i].auto => runs[i].hop <= BOT_MESSAGE_MAX_HOPS
       /\ runs[i].of = 0 => runs[i].intent = "none" /\ runs[i].bot \in team.asks
  /\ \A i, j \in Asked : runs[i].bot = runs[j].bot => i = j
  /\ Cardinality(Sent) <= team.sends

(* A run that is new: the user's question, a message, an outcome.          *)
NewAsk(run) ==
  /\ run.of = 0 /\ ~run.auto /\ run.intent = "none" /\ run.hop = 0 /\ run.bot \in team.asks
  /\ \A i \in Asked : runs[i].bot # run.bot
NewMessage(run) == run.of # 0 /\ ~run.auto /\ MaySend /\ run.hop <= BOT_MESSAGE_MAX_HOPS
NewOutcome(run) ==
  /\ run.of \in DOMAIN runs /\ run.of # 0 /\ run.auto
  /\ runs[run.of].intent = "request" /\ run.hop = runs[run.of].hop + 1
NewRun(run) == NewAsk(run) \/ NewMessage(run) \/ NewOutcome(run)

LEMMA TeamGoesOn ==
  ASSUME TeamTyped, OutcomeInv, [TeamNext]_teamVars
  PROVE  team' = team /\ (RunsStay \/ \E run \in RunRow : RunsGrow(run) /\ NewRun(run))
<1> DEFINE Onward == team' = team /\ (RunsStay \/ \E run \in RunRow : RunsGrow(run) /\ NewRun(run))
<1>0. runs \in Seq(RunRow) /\ \A i \in DOMAIN runs : i \in Nat /\ i # 0 /\ runs[i] \in RunRow
  BY DEF TeamTyped
<1>1. ASSUME UNCHANGED <<team, runs>>
      PROVE  Onward
  BY <1>1, RunsUnchanged
<1>2. ASSUME NEW b \in Bots, ask(b)
      PROVE  Onward
  <2> DEFINE run == Run(b, NoBot, 0, "none", 0, FALSE)
  <2>1. run \in RunRow
    BY RunTyped
  <2>2. /\ b \in team.asks /\ team' = team
        /\ \A i \in Asked : runs[i].bot # b
    BY <1>2 DEF ask, Asked
  <2>3. NewAsk(run)
    BY <2>2 DEF NewAsk, Run
  <2>4. RunsGrow(run)
    BY <1>2, AskGrows
  <2> HIDE DEF run
  <2> QED
    BY <2>1, <2>2, <2>3, <2>4 DEF NewRun
<1>3. ASSUME NEW i \in DOMAIN runs, NEW target \in Bots, NEW intent \in team.intents,
             messageBot(i, target, intent)
      PROVE  Onward
  <2> DEFINE run == Run(target, runs[i].bot, i, intent, runs[i].hop + 1, FALSE)
  <2>1. RunsGrow(run)
    BY <1>3, MessageGrows
  <2>2. /\ MaySend /\ team' = team /\ i # 0 /\ runs[i].hop \in Nat
        /\ ~(runs[i].hop + 1 > BOT_MESSAGE_MAX_HOPS)
    BY <1>0, <1>3 DEF messageBot, nextBotMessageHop, botMessageHopExhausted, RunRow
  <2>3. run.of = i /\ ~run.auto /\ run.hop = runs[i].hop + 1
    BY DEF Run
  <2>4. run \in RunRow
    <3>1. runs[i].bot \in Bots \cup {NoBot} /\ runs[i].hop + 1 \in Nat
      BY <1>0 DEF RunRow
    <3>2. intent \in Intents \cup {"none"} /\ FALSE \in BOOLEAN
      BY TeamAllows DEF Intents
    <3> QED
      BY <1>0, <3>1, <3>2, RunTyped
  <2> HIDE DEF run
  <2>5. NewMessage(run)
    BY <2>2, <2>3, TeamAssumption DEF NewMessage
  <2> QED
    BY <2>1, <2>2, <2>4, <2>5 DEF NewRun
<1>4. ASSUME NEW i \in DOMAIN runs, finalizeRun(i) \/ stop(i)
      PROVE  Onward
  <2>1. team' = team
    BY <1>4 DEF finalizeRun, stop
  <2>2. runs' = [runs EXCEPT ![i].state = "ended"] \/ runs' = [runs EXCEPT ![i].state = "cancelled"]
    BY <1>4 DEF finalizeRun, stop
  <2>3. RunsStay
    BY <2>2, RunsEnd
  <2> QED
    BY <2>1, <2>3
<1>5. ASSUME NEW b \in Bots, archiveBot(b) \/ archiveCommits(b)
      PROVE  Onward
  <2>1. CASE archiveBot(b)
    BY <1>1, <2>1 DEF archiveBot
  <2>2. CASE archiveCommits(b)
    <3>1. team' = team
      BY <2>2 DEF archiveCommits
    <3> QED
      BY <2>2, <3>1, RunsCancelled
  <2> QED
    BY <1>5, <2>1, <2>2
<1>6. ASSUME NEW r \in Ids \cup Recs, NEW intent \in {"result", "status"}, deliverOutcome(r, intent)
      PROVE  Onward
  <2>1. PICK i : i = returner[r].run
    OBVIOUS
  <2>2. i \in DOMAIN runs /\ runs[i].intent = "request"
    BY <1>6, <2>1 DEF OutcomeInv, ReturnersKnow, deliverOutcome
  <2>3. /\ team' = team
        /\ \/ UNCHANGED runs
           \/ runs' = Append(runs, Run(runs[i].from, runs[i].bot, i, intent, runs[i].hop + 1, TRUE))
    BY <1>6, <2>1 DEF deliverOutcome
  <2>4. CASE runs' = Append(runs, Run(runs[i].from, runs[i].bot, i, intent, runs[i].hop + 1, TRUE))
    <3> DEFINE run == Run(runs[i].from, runs[i].bot, i, intent, runs[i].hop + 1, TRUE)
    <3>1. run \in RunRow
      <4>1. runs[i].from \in Bots /\ runs[i].bot \in Bots \cup {NoBot} /\ runs[i].hop + 1 \in Nat
        BY <1>0, <2>2 DEF OutcomeInv, OutcomesKnow, RunRow
      <4>2. intent \in Intents \cup {"none"} /\ TRUE \in BOOLEAN
        BY DEF Intents
      <4> QED
        BY <1>0, <2>2, <4>1, <4>2, RunTyped
    <3>2. run.of = i /\ run.auto /\ run.hop = runs[i].hop + 1
      BY DEF Run
    <3> HIDE DEF run
    <3>3. NewOutcome(run)
      BY <1>0, <2>2, <3>2 DEF NewOutcome
    <3>4. RunsGrow(run)
      BY <2>4, <3>1, RunsAppend DEF run
    <3> QED
      BY <2>3, <3>1, <3>3, <3>4 DEF NewRun
  <2> QED
    BY <1>1, <2>3, <2>4
<1>7. ASSUME NEW r \in Ids \cup Recs,
             \/ listOutcomes(r) \/ readSource(r) \/ markBotOutcomeReturned(r) \/ rotate(r)
             \/ returnFails(r)
      PROVE  Onward
  BY <1>1, <1>7 DEF listOutcomes, readSource, markBotOutcomeReturned, rotate, returnFails
<1> HIDE DEF Onward
<1>8. Onward
  BY <1>1, <1>2, <1>3, <1>4, <1>5, <1>6, <1>7 DEF TeamNext, Returns, teamVars
<1> QED
  BY <1>8 DEF Onward

LEMMA SentAreFinite ==
  ASSUME TeamTyped
  PROVE  /\ DOMAIN runs = 1..Len(runs) /\ Len(runs) \in Nat
         /\ IsFiniteSet(DOMAIN runs) /\ Cardinality(DOMAIN runs) = Len(runs)
         /\ IsFiniteSet(Sent) /\ Cardinality(Sent) \in Nat
<1>1. DOMAIN runs = 1..Len(runs) /\ Len(runs) \in Nat
  BY DEF TeamTyped
<1>2. IsFiniteSet(1..Len(runs)) /\ Cardinality(1..Len(runs)) = Len(runs)
  <2>1. PICK n \in Nat : n = Len(runs)
    BY <1>1
  <2>2. 1 \in Int /\ n \in Int
    BY <2>1
  <2>3. IsFiniteSet(1..n) /\ Cardinality(1..n) = IF 1 > n THEN 0 ELSE n - 1 + 1
    BY <2>2, FS_Interval
  <2> QED
    BY <2>1, <2>3
<1>3. Sent \in SUBSET (DOMAIN runs)
  BY DEF Sent
<1>4. IsFiniteSet(Sent)
  BY <1>1, <1>2, <1>3, FS_Subset
<1> QED
  BY <1>1, <1>2, <1>4, FS_CardinalityType

LEMMA FewKeeps ==
  ASSUME TeamTyped, OutcomeInv, RunsAreFew, [TeamNext]_teamVars
  PROVE  RunsAreFew'
<1>0. team' = team /\ (RunsStay \/ \E run \in RunRow : RunsGrow(run) /\ NewRun(run))
  BY TeamGoesOn
<1>1. CASE RunsStay
  <2>1. Sent' = Sent /\ Asked' = Asked
    BY <1>1 DEF RunsStay, Kept, Sent, Asked
  <2> QED
    BY <1>0, <1>1, <2>1 DEF RunsStay, Kept, RunsAreFew, Asked
<1>2. ASSUME NEW run \in RunRow, RunsGrow(run), NewRun(run)
      PROVE  RunsAreFew'
  <2>0. PICK n \in Nat : n = Len(runs) + 1
    BY <1>2 DEF RunsGrow
  <2>1. /\ DOMAIN runs' = DOMAIN runs \cup {n} /\ runs'[n] = run /\ n \notin DOMAIN runs
        /\ \A i \in DOMAIN runs : runs'[i] = runs[i]
    BY <1>2, <2>0 DEF RunsGrow
  <2>2. /\ run.hop <= BOT_MESSAGE_MAX_HOPS + 1
        /\ ~run.auto => run.hop <= BOT_MESSAGE_MAX_HOPS
        /\ run.of = 0 => run.intent = "none" /\ run.bot \in team.asks
    <3>1. run.hop \in Nat /\ BOT_MESSAGE_MAX_HOPS \in Nat
      BY TeamAssumption DEF RunRow
    <3>2. CASE NewAsk(run) \/ NewMessage(run)
      BY <3>1, <3>2 DEF NewAsk, NewMessage
    <3>3. CASE NewOutcome(run)
      <4>1. /\ ~runs[run.of].auto /\ runs[run.of].hop <= BOT_MESSAGE_MAX_HOPS
            /\ runs[run.of] \in RunRow
        BY <3>3 DEF NewOutcome, OutcomeInv, OutcomesKnow, RunsAreFew, TeamTyped
      <4> QED
        BY <3>1, <3>3, <4>1 DEF NewOutcome, RunRow
    <3> QED
      BY <1>2, <3>2, <3>3 DEF NewRun
  <2>3. /\ Asked' = IF run.of = 0 THEN Asked \cup {n} ELSE Asked
        /\ Sent' = IF run.of # 0 /\ ~run.auto THEN Sent \cup {n} ELSE Sent
    BY <2>1 DEF Asked, Sent
  <2>4. \A i, j \in Asked' : runs'[i].bot = runs'[j].bot => i = j
    <3>1. \A i \in Asked : i \in DOMAIN runs
      BY DEF Asked
    <3>2. run.of = 0 => \A i \in Asked : runs[i].bot # run.bot
      BY <1>2 DEF NewRun, NewAsk, NewMessage, NewOutcome
    <3>3. \A i \in Asked : \A j \in Asked : runs[i].bot = runs[j].bot => i = j
      BY DEF RunsAreFew
    <3> QED
      BY <2>1, <2>3, <3>1, <3>2, <3>3
  <2>5. Cardinality(Sent') <= team.sends
    <3>1. CASE run.of # 0 /\ ~run.auto
      <4>1. Cardinality(Sent) < team.sends /\ team.sends \in Nat
        BY <1>2, <3>1, TeamAllows DEF NewRun, NewAsk, NewMessage, NewOutcome, MaySend
      <4>2. n \notin Sent
        BY <2>1 DEF Sent
      <4>3. Cardinality(Sent \cup {n}) = Cardinality(Sent) + 1 /\ Cardinality(Sent) \in Nat
        BY <4>2, SentAreFinite, FS_AddElement
      <4> QED
        BY <2>3, <3>1, <4>1, <4>3
    <3>2. CASE ~(run.of # 0 /\ ~run.auto)
      BY <2>3, <3>2 DEF RunsAreFew
    <3> QED
      BY <3>1, <3>2
  <2>6. /\ team' = team
        /\ \A i \in DOMAIN runs' :
             /\ runs'[i].hop <= BOT_MESSAGE_MAX_HOPS + 1
             /\ ~runs'[i].auto => runs'[i].hop <= BOT_MESSAGE_MAX_HOPS
             /\ runs'[i].of = 0 => runs'[i].intent = "none" /\ runs'[i].bot \in team.asks
    BY <1>0, <2>1, <2>2 DEF RunsAreFew
  <2> QED
    BY <2>4, <2>5, <2>6 DEF RunsAreFew
<1> QED
  BY <1>0, <1>1, <1>2

(* A question of the user is of a bot he may ask, an outcome of a message. *)
LEMMA FewFit ==
  ASSUME TeamTyped, OutcomeInv, RunsAreFew
  PROVE  Len(runs) <= MaxRuns
<1>1. /\ DOMAIN runs = Asked \cup Sent \cup Outcomes
      /\ IsFiniteSet(Sent) /\ Cardinality(Sent) \in Nat /\ Cardinality(Sent) <= team.sends
      /\ Cardinality(DOMAIN runs) = Len(runs) /\ Len(runs) \in Nat
  <2>1. DOMAIN runs = Asked \cup Sent \cup Outcomes
    BY DEF Asked, Sent, Outcomes
  <2> QED
    BY <2>1, SentAreFinite DEF RunsAreFew
<1>2. /\ IsFiniteSet(team.asks) /\ Cardinality(team.asks) + 2 * team.sends <= MaxRuns
      /\ team.sends \in Nat /\ Cardinality(team.asks) \in Nat /\ MaxRuns \in Nat
  <2>1. IsFiniteSet(team.asks) /\ Cardinality(team.asks) + 2 * team.sends <= MaxRuns /\ MaxRuns \in Nat
    BY TeamAssumption DEF TeamTyped
  <2> QED
    BY <2>1, TeamAllows, FS_CardinalityType
<1>3. /\ IsFiniteSet(Asked) /\ Cardinality(Asked) \in Nat
      /\ Cardinality(Asked) <= Cardinality(team.asks)
  <2> DEFINE f == [i \in Asked |-> runs[i].bot]
  <2>1. f \in Injection(Asked, team.asks)
    BY DEF RunsAreFew, Asked, Injection, IsInjective
  <2> HIDE DEF f
  <2>2. IsFiniteSet(Asked) /\ Cardinality(Asked) <= Cardinality(team.asks)
    BY <1>2, <2>1, FS_Injection
  <2> QED
    BY <2>2, FS_CardinalityType
<1>4. /\ IsFiniteSet(Outcomes) /\ Cardinality(Outcomes) \in Nat
      /\ Cardinality(Outcomes) <= Cardinality(Sent)
  <2> DEFINE f == [i \in Outcomes |-> runs[i].of]
  <2>1. ASSUME NEW i \in Outcomes
        PROVE  runs[i].of \in Sent
    <3>1. i \in DOMAIN runs /\ runs[i] \in RunRow /\ runs[i].auto /\ runs[i].of # 0 /\ runs[i].of < i
      BY DEF Outcomes, OutcomeInv, OutcomesKnow, TeamTyped
    <3>2. runs[i].of \in DOMAIN runs
      BY <3>1, SentAreFinite DEF RunRow
    <3>3. runs[runs[i].of].intent = "request"
      BY <3>1, <3>2 DEF OutcomeInv, OutcomesKnow, IsOutcome
    <3> QED
      BY <3>2, <3>3 DEF Sent, RunsAreFew, OutcomeInv, OutcomesKnow
  <2>2. ASSUME NEW i \in Outcomes, NEW j \in Outcomes, runs[i].of = runs[j].of
        PROVE  i = j
    <3>1. i \in DOMAIN runs /\ j \in DOMAIN runs /\ runs[i].of \in DOMAIN runs
          /\ IsOutcome(i, runs[i].of) /\ IsOutcome(j, runs[i].of)
      BY <2>1, <2>2 DEF Outcomes, IsOutcome, Sent
    <3> QED
      BY <3>1 DEF OutcomeInv, OutcomesKnow
  <2>3. f \in Injection(Outcomes, Sent)
    BY <2>1, <2>2 DEF Injection, IsInjective
  <2> HIDE DEF f
  <2>4. IsFiniteSet(Outcomes) /\ Cardinality(Outcomes) <= Cardinality(Sent)
    BY <1>1, <2>3, FS_Injection
  <2> QED
    BY <2>4, FS_CardinalityType
<1>5. /\ IsFiniteSet(Asked \cup Sent)
      /\ Cardinality(Asked \cup Sent) \in Nat
      /\ Cardinality(Asked \cup Sent) <= Cardinality(Asked) + Cardinality(Sent)
  <2>1. IsFiniteSet(Asked \cup Sent) /\ IsFiniteSet(Asked \cap Sent)
    BY <1>1, <1>3, FS_Union, FS_Intersection
  <2>2. Cardinality(Asked \cup Sent) \in Nat /\ Cardinality(Asked \cap Sent) \in Nat
    BY <2>1, FS_CardinalityType
  <2>3. Cardinality(Asked \cup Sent) = Cardinality(Asked) + Cardinality(Sent) - Cardinality(Asked \cap Sent)
    BY <1>1, <1>3, FS_Union
  <2> QED
    BY <1>1, <1>3, <2>1, <2>2, <2>3
<1>6. Cardinality(DOMAIN runs) <= Cardinality(Asked \cup Sent) + Cardinality(Outcomes)
  <2>1. IsFiniteSet((Asked \cup Sent) \cap Outcomes)
    BY <1>4, <1>5, FS_Intersection
  <2>2. Cardinality((Asked \cup Sent) \cap Outcomes) \in Nat
    BY <2>1, FS_CardinalityType
  <2>3. Cardinality((Asked \cup Sent) \cup Outcomes) =
          Cardinality(Asked \cup Sent) + Cardinality(Outcomes) - Cardinality((Asked \cup Sent) \cap Outcomes)
    BY <1>4, <1>5, FS_Union
  <2> QED
    BY <1>1, <1>4, <1>5, <2>2, <2>3
<1> QED
  BY <1>1, <1>2, <1>3, <1>4, <1>5, <1>6

(* The messages between bots, the runs they wake and those who tell the    *)
(* outcomes have their types, and the ids of the runs do not run out.      *)
THEOREM TeamTypeCorrect == TeamSpec => []TeamTypeOK
<1>1. TeamInit => TeamTyped /\ OutcomeInv /\ RunsAreFew
  <2> SUFFICES ASSUME TeamInit PROVE TeamTyped /\ OutcomeInv /\ RunsAreFew
    OBVIOUS
  <2>1. TeamTyped /\ OutcomeInv
    BY TeamStarts
  <2>2. DOMAIN runs = {}
    BY DEF TeamInit
  <2>3. Sent = {} /\ Asked = {}
    BY <2>2 DEF Sent, Asked
  <2> QED
    BY <2>1, <2>2, <2>3, TeamAllows, FS_EmptySet DEF RunsAreFew
<1>2. TeamTyped /\ OutcomeInv /\ RunsAreFew /\ [TeamNext]_teamVars =>
        TeamTyped' /\ OutcomeInv' /\ RunsAreFew'
  BY TeamKeeps, FewKeeps
<1>3. TeamTyped /\ OutcomeInv /\ RunsAreFew => TeamTypeOK
  <2> SUFFICES ASSUME TeamTyped, OutcomeInv, RunsAreFew PROVE TeamTypeOK
    OBVIOUS
  <2>1. \A i \in DOMAIN runs : i \in Nat /\ runs[i] \in RunRow /\ BOT_MESSAGE_MAX_HOPS \in Nat
    BY TeamAssumption DEF TeamTyped
  <2>2. ASSUME NEW i \in DOMAIN runs
        PROVE  /\ runs[i].state \in {"active", "ended", "cancelled"}
               /\ runs[i].bot \in Bots /\ runs[i].from \in Bots \cup {NoBot}
               /\ runs[i].intent \in Intents \cup {"none"} /\ runs[i].auto \in BOOLEAN
    BY <2>1 DEF RunRow
  <2>3. ASSUME NEW i \in DOMAIN runs
        PROVE  runs[i].of \in 0..i - 1 /\ runs[i].hop \in 0..BOT_MESSAGE_MAX_HOPS + 1
    <3>1. runs[i].of \in Nat /\ runs[i].hop \in Nat /\ runs[i].of < i /\ i \in Nat
          /\ runs[i].hop <= BOT_MESSAGE_MAX_HOPS + 1 /\ BOT_MESSAGE_MAX_HOPS \in Nat
      BY <2>1 DEF RunRow, OutcomeInv, OutcomesKnow, RunsAreFew
    <3> QED
      BY <3>1
  <2>4. Range(waiting) \subseteq DOMAIN runs
    BY DEF Range, OutcomeInv, WaitingEnded
  <2>5. \A r \in Ids \cup Recs : returner[r].pc \in {"idle", "read", "deliver", "mark", "rotate"}
    BY DEF TeamTyped, Returner
  <2>6. Len(runs) <= MaxRuns /\ archived \subseteq Bots /\ setbacks <= team.setbacks
    BY FewFit DEF TeamTyped
  <2> QED
    BY <2>2, <2>3, <2>4, <2>5, <2>6 DEF TeamTypeOK
<1> QED
  BY <1>1, <1>2, <1>3, PTL DEF TeamSpec

-----------------------------------------------------------------------------
(* The three side by side *)

LEMMA ConversationsEach == ConversationSpec => ChatSpec /\ HistorySpec /\ TeamSpec
<1>1. ConversationInit => ChatInit /\ HistoryInit /\ TeamInit
  BY DEF ConversationInit
<1>2. [ConversationNext]_conversationVars =>
        [ChatNext]_chatVars /\ [HistoryNext]_historyVars /\ [TeamNext]_teamVars
  BY DEF ConversationNext, conversationVars
<1> QED
  BY <1>1, <1>2, PTL DEF ConversationSpec, ChatSpec, HistorySpec, TeamSpec

(* Bridges, compactions and bots side by side have their types, and keep   *)
(* what each of them keeps: the promise of a reply, a whole history, an    *)
(* outcome told once.                                                      *)
THEOREM ConversationsSound ==
  ASSUME IsFiniteSet(Bridges)
  PROVE  ConversationSpec =>
           [](ConversationTypeOK /\ HistoryIsWhole /\ OutcomeToldOnce) /\ ReplyKeepsPromise
<1>1. ConversationTypeOK <=> ChatTypeOK /\ HistoryTypeOK /\ TeamTypeOK
  BY DEF ConversationTypeOK
<1>2. /\ ChatSpec => []ChatTypeOK /\ ReplyKeepsPromise
      /\ HistorySpec => []HistoryTypeOK /\ []HistoryIsWhole
      /\ TeamSpec => []TeamTypeOK /\ []OutcomeToldOnce
  BY ChatTypeCorrect, ReplyImplements, HistoryTypeCorrect, HistoryWhole, TeamTypeCorrect, OutcomeOnce
<1> QED
  BY <1>1, <1>2, ConversationsEach, PTL
=============================================================================
