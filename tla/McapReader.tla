----------------------------- MODULE McapReader -----------------------------
(***************************************************************************)
(* The recording that run_dataset plays back, as the vendored MCAP reader  *)
(* (ov_frontend/thirdparty/mcap) delivers it: the summary section or a     *)
(* scan in its place, reading in file order record by record, and reading  *)
(* in log time order with a queue of chunks and messages and the slots     *)
(* that hold the open chunks.                                              *)
(*                                                                         *)
(* A file is a sequence of units, messages and chunks of messages, each at *)
(* the offset of its index; the record of a channel is in front of the     *)
(* channel's first message.  A message is known by its address             *)
(* <<unit, position in the unit>>, a chunk by <<unit, 0>>.                 *)
(***************************************************************************)
EXTENDS Integers, Sequences, SequencesExt, FiniteSetsExt

CONSTANTS
  Files,      \* [data, bad, cut, summary, indexed]: its units, the addresses of broken records,
              \* whether the last unit is cut off, what its summary has, whether chunks have indexes
  Methods,    \* of readSummary
  Options,    \* of readMessages: [readOrder, startTime, endTime, topics]
  MinBucket   \* of the interval tree

\* No chunk is written without a message; times are unsigned.
Unit(messages) ==
  /\ Len(messages) \in Nat \ {0} /\ DOMAIN messages = 1..Len(messages)
  /\ \A k \in DOMAIN messages : messages[k].logTime \in Nat

ASSUME ReaderAssumption ==
  /\ Methods \subseteq {"NoFallbackScan", "AllowFallbackScan", "ForceScan"}
  /\ \A o \in Options : /\ o.readOrder \in {"FileOrder", "LogTimeOrder", "ReverseLogTimeOrder"}
                         /\ o.startTime \in Nat /\ o.endTime \in Nat
  /\ \A f \in Files : f.summary \subseteq {"statistics", "channels", "chunks"} /\ (f.cut => f.summary = {})
  /\ \A f \in Files : /\ Len(f.data) \in Nat /\ DOMAIN f.data = 1..Len(f.data)
                       /\ \A u \in DOMAIN f.data : Unit(f.data[u].messages)
  /\ MinBucket \in Nat \ {0}

VARIABLES
  file,
  channels,        \* the reader's channels_
  chunkIndexes,    \* units of the chunks it knows
  messageIndexes,  \* the chunks' messageIndexLength is not 0
  parsedSummary,
  chunkRanges,     \* the units in the interval tree
  status,          \* "open", "file" or "indexed" while reading, then "done" or "failed"
  options,
  pos,             \* of the next record in file order
  endUnit,
  queue,           \* the jobs: [chunk, time, at, slot]
  selectedChannels,
  chunkSlots,      \* [unit, unreadMessages]
  out              \* addresses of the messages delivered

summaryVars == <<channels, chunkIndexes, messageIndexes, parsedSummary, chunkRanges>>

readVars == <<options, pos, endUnit, queue, selectedChannels, chunkSlots, out>>

readerVars == <<file, summaryVars, status, readVars>>

ReaderInit ==
  /\ file \in Files
  /\ channels = {} /\ chunkIndexes = {} /\ messageIndexes = FALSE
  /\ parsedSummary = FALSE /\ chunkRanges = {}
  /\ status = "open" /\ options = CHOOSE o \in Options : TRUE
  /\ pos = <<0, 0>> /\ endUnit = 0 /\ queue = {} /\ selectedChannels = {} /\ chunkSlots = <<>>
  /\ out = <<>>

-----------------------------------------------------------------------------
Units == DOMAIN file.data

MessageAt(a) == file.data[a[1]].messages[a[2]]

Addresses == UNION {{<<u, k>> : k \in DOMAIN file.data[u].messages} : u \in Units}

Chunks == {u \in Units : file.data[u].chunk}

\* A record that is cut off ends the reading, whatever it is.
Whole == IF file.cut THEN Len(file.data) - 1 ELSE Len(file.data)

\* RecordOffset: by the chunk's offset, then by the offset in the chunk.
Before(a, b) == a[1] < b[1] \/ (a[1] = b[1] /\ a[2] < b[2])

\* Every channel is declared in front of its first message.
Declares(a) == \A b \in Addresses : MessageAt(b).channel = MessageAt(a).channel => ~Before(b, a)

LogTimes(u) == {file.data[u].messages[k].logTime : k \in DOMAIN file.data[u].messages}

messageStartTime(u) == Min(LogTimes(u))
messageEndTime(u) == Max(LogTimes(u))

-----------------------------------------------------------------------------
\* The summary section: nothing without a footer, incomplete without statistics.
readSummarySection ==
  IF file.cut
  THEN [ok |-> FALSE, channels |-> channels, chunkIndexes |-> chunkIndexes, messageIndexes |-> messageIndexes]
  ELSE [ok |-> "statistics" \in file.summary,
        channels |-> channels \cup IF "channels" \in file.summary
                                   THEN {MessageAt(a).channel : a \in Addresses} ELSE {},
        chunkIndexes |-> IF "chunks" \in file.summary THEN Chunks ELSE {},
        messageIndexes |-> file.indexed]

\* The scan of the data section: it fails at the first broken record, what was found so far
\* stays; indexes made from chunks have no message indexes.
readSummaryFromScan ==
  LET broken == {b \in file.bad : b[1] <= Whole}
      Seen(a) == a[1] <= Whole /\ \A b \in broken : Before(a, b) \/ a = b
  IN  [ok |-> broken = {},
       channels |-> {MessageAt(a).channel : a \in {a \in Addresses : Seen(a) /\ Declares(a)}},
       chunkIndexes |-> {u \in Chunks : u <= Whole /\ \A b \in broken : Before(<<u, 0>>, b)},
       messageIndexes |-> FALSE]

\* The section, or the scan where the method allows or demands it.
SummaryBy(method) ==
  LET s == readSummarySection
  IN  IF method # "ForceScan" /\ (s.ok \/ method = "NoFallbackScan") THEN s ELSE readSummaryFromScan

\* What was read stays when it failed, but for the ranges.
KeepSummary(s) ==
  /\ channels' = s.channels /\ chunkIndexes' = s.chunkIndexes /\ messageIndexes' = s.messageIndexes
  /\ parsedSummary' = (parsedSummary \/ s.ok)
  /\ chunkRanges' = IF s.ok THEN s.chunkIndexes ELSE chunkRanges

readSummary(method) ==
  /\ status = "open" /\ ~parsedSummary
  /\ KeepSummary(SummaryBy(method))
  /\ UNCHANGED <<file, status, readVars>>

-----------------------------------------------------------------------------
\* The tree's depth is at most this.
MaxDepth == 16

\* internal::IntervalTree keeps intervals left of, right of and across a center, down to
\* buckets; visit_near goes through the buckets that may overlap the period.
Near(start, stop) ==
  LET near[depth \in 1..MaxDepth] ==
        [ivals \in SUBSET Nat |->
           LET center == (Min({messageStartTime(i) : i \in ivals})
                            + Max({messageEndTime(i) : i \in ivals})) \div 2
               bucket == depth = 1 \/ Cardinality(ivals) < MinBucket
               left == {i \in ivals : messageEndTime(i) < center}
               right == {i \in ivals : messageStartTime(i) > center /\ messageEndTime(i) >= center}
               here == IF bucket THEN ivals ELSE ivals \ (left \cup right)
           IN  (IF \E i \in here : stop >= messageStartTime(i) THEN here ELSE {})
               \cup (IF bucket \/ left = {} \/ start > center THEN {} ELSE near[depth - 1][left])
               \cup (IF bucket \/ right = {} \/ stop < center THEN {} ELSE near[depth - 1][right])]
  IN  near[MaxDepth][chunkRanges]

\* Mistake: only chunks that start within the period.
OnlyStarting(start, stop) == {u \in Near(start, stop) : messageStartTime(u) \in start..stop}

visit_overlapping(start, stop) ==
  {u \in Near(start, stop) : messageEndTime(u) >= start /\ messageStartTime(u) <= stop}

\* Everything, or from the first to the last chunk with messages in the period.
byteRange(o) ==
  LET near == visit_overlapping(o.startTime, o.endTime)
  IN  IF ~parsedSummary \/ chunkRanges = {} THEN <<1, Len(file.data)>>
      ELSE IF near = {} THEN <<1, 0>> ELSE <<Min(near), Max(near)>>

-----------------------------------------------------------------------------
\* LinearMessageView's onMessage: of the period, of a known channel, of the topics.
Passes(a, known) ==
  /\ MessageAt(a).logTime >= options.startTime /\ MessageAt(a).logTime < options.endTime
  /\ MessageAt(a).channel \in known
  /\ MessageAt(a).channel \in options.topics

Deliver(a, known) == out' = IF Passes(a, known) THEN Append(out, a) ELSE out

Forward(o) == o.readOrder # "ReverseLogTimeOrder"

\* Mistake: chunks are due at their end.
KeyedByEnd(u, forward) == messageEndTime(u)

\* TimeComparisonKey: a chunk is due with its first message, in reverse with its last.
ChunkTime(u, forward) == IF forward THEN messageStartTime(u) ELSE messageEndTime(u)

\* The chunks of the period that have an index of a selected channel.
ChunkJobs(o, indexes, selected) ==
  {[chunk |-> TRUE, time |-> ChunkTime(u, Forward(o)), at |-> <<u, 0>>, slot |-> 0] :
     u \in {u \in indexes :
              /\ messageStartTime(u) < o.endTime /\ messageEndTime(u) >= o.startTime
              /\ \E k \in DOMAIN file.data[u].messages : file.data[u].messages[k].channel \in selected}}

\* readMessages in file order.
readInFileOrder(o) ==
  /\ o.readOrder = "FileOrder"
  /\ status' = "file" /\ pos' = <<byteRange(o)[1], 0>> /\ endUnit' = byteRange(o)[2]
  /\ UNCHANGED <<summaryVars, queue, selectedChannels>>

\* The constructor of IndexedMessageReader: it reads the summary itself when no chunk is known.
readInLogOrder(o) ==
  /\ o.readOrder # "FileOrder"
  /\ LET s == IF chunkIndexes = {} THEN SummaryBy("AllowFallbackScan")
              ELSE [ok |-> TRUE, channels |-> channels, chunkIndexes |-> chunkIndexes,
                    messageIndexes |-> messageIndexes]
         selected == s.channels \cap o.topics
     IN  /\ IF chunkIndexes = {} THEN KeepSummary(s) ELSE UNCHANGED summaryVars
         /\ IF s.ok /\ s.chunkIndexes # {} /\ s.messageIndexes
            THEN /\ status' = "indexed" /\ selectedChannels' = selected
                 /\ queue' = ChunkJobs(o, s.chunkIndexes, selected)
            ELSE status' = "failed" /\ UNCHANGED <<selectedChannels, queue>>
  /\ UNCHANGED <<pos, endUnit>>

readMessages(o) ==
  /\ status = "open"
  /\ options' = o
  /\ IF byteRange(o)[2] = 0
     THEN status' = "done" /\ UNCHANGED <<summaryVars, pos, endUnit, queue, selectedChannels>>
     ELSE readInFileOrder(o) \/ readInLogOrder(o)
  /\ UNCHANGED <<file, chunkSlots, out>>

-----------------------------------------------------------------------------
\* The first record of the unit is met at position 0; a broken chunk is passed over.
Following(a) ==
  IF a[2] < Len(file.data[a[1]].messages) /\ <<a[1], 0>> \notin file.bad THEN <<a[1], a[2] + 1>>
  ELSE <<a[1] + 1, 0>>

\* TypedRecordReader in file order: a chunk is entered, a message with the channel that may
\* be declared in front of it is delivered unless it is broken.
NextInFile ==
  /\ status = "file" /\ pos[1] <= endUnit /\ pos[1] <= Whole
  /\ LET known == IF pos[2] > 0 /\ Declares(pos) THEN channels \cup {MessageAt(pos).channel} ELSE channels
     IN  /\ channels' = known
         /\ IF pos[2] > 0 /\ pos \notin file.bad THEN Deliver(pos, known) ELSE UNCHANGED out
  /\ pos' = Following(pos)
  /\ UNCHANGED <<file, chunkIndexes, messageIndexes, parsedSummary, chunkRanges, status, options,
                 endUnit, queue, selectedChannels, chunkSlots>>

\* The end of the data, or a record that is cut off.
EndOfFile ==
  /\ status = "file" /\ (pos[1] > endUnit \/ pos[1] > Whole)
  /\ status' = "done"
  /\ UNCHANGED <<file, summaryVars, readVars>>

-----------------------------------------------------------------------------
\* PositionComparisonKey: in reverse a chunk stands at the end of its indexes, where the next
\* one starts.
Position(job) == IF job.chunk /\ ~Forward(options) THEN <<job.at[1] + 1, 0>> ELSE job.at

\* There a chunk and a message of the next one are each below the other (operator<, of one
\* that is in a chunk and one that is not): the comparison is no order then.
Tangled(t) ==
  \E u \in Units : /\ u + 1 \in Units /\ file.data[u].chunk /\ file.data[u + 1].chunk
                   /\ messageEndTime(u) = t /\ t \in LogTimes(u + 1)

\* CompareForward and CompareReverse: by time, then by position.
Ahead(a, b) ==
  IF Forward(options) THEN a.time < b.time \/ (a.time = b.time /\ Before(Position(a), Position(b)))
  ELSE \/ a.time > b.time
       \/ a.time = b.time /\ ~Tangled(a.time) /\ Before(Position(b), Position(a))

\* pop: a job that no other is ahead of.  The heap keeps the times in order whatever the
\* comparison says of jobs of one time.
Due == {j \in queue : \A i \in queue : ~Ahead(i, j)}

\* Mistake: a slot with one message left is taken for free.
AlmostFree(slots) ==
  LET free == {n \in DOMAIN slots : slots[n].unreadMessages <= 1}
  IN  IF free = {} THEN Len(slots) + 1 ELSE Min(free)

findFreeChunkSlot(slots) ==
  LET free == {n \in DOMAIN slots : slots[n].unreadMessages = 0}
  IN  IF free = {} THEN Len(slots) + 1 ELSE Min(free)

\* The index of the chunk's messages that are wanted.
MessageJobs(u, slot) ==
  {[chunk |-> FALSE, time |-> MessageAt(<<u, k>>).logTime, at |-> <<u, k>>, slot |-> slot] :
     k \in {k \in DOMAIN file.data[u].messages :
              /\ MessageAt(<<u, k>>).channel \in selectedChannels
              /\ MessageAt(<<u, k>>).logTime >= options.startTime
              /\ MessageAt(<<u, k>>).logTime < options.endTime}}

\* A chunk is due: it is decompressed into a free slot and its messages are queued.
OpenChunk(job) ==
  LET u == job.at[1]
      slot == findFreeChunkSlot(chunkSlots)
      jobs == MessageJobs(u, slot)
      opened == [unit |-> u, unreadMessages |-> Cardinality(jobs)
                   + IF slot \in DOMAIN chunkSlots THEN chunkSlots[slot].unreadMessages ELSE 0]
  IN  /\ job.chunk
      /\ IF <<u, 0>> \in file.bad
         THEN status' = "failed" /\ queue' = queue \ {job} /\ UNCHANGED chunkSlots
         ELSE /\ queue' = (queue \ {job}) \cup jobs
              /\ chunkSlots' = IF slot \in DOMAIN chunkSlots THEN [chunkSlots EXCEPT ![slot] = opened]
                               ELSE Append(chunkSlots, opened)
              /\ UNCHANGED status
      /\ UNCHANGED out

\* A message is due: what the slot has at its offset.
ReadMessage(job) ==
  LET slot == chunkSlots[job.slot]
      a == <<slot.unit, job.at[2]>>
  IN  /\ ~job.chunk
      /\ queue' = queue \ {job}
      /\ chunkSlots' = [chunkSlots EXCEPT ![job.slot].unreadMessages = @ - 1]
      /\ IF a \notin Addresses \/ a \in file.bad THEN status' = "failed" /\ UNCHANGED out
         ELSE Deliver(a, channels) /\ UNCHANGED status

NextInIndex ==
  /\ status = "indexed"
  /\ \E job \in Due : OpenChunk(job) \/ ReadMessage(job)
  /\ UNCHANGED <<file, summaryVars, options, pos, endUnit, selectedChannels>>

EndOfQueue ==
  /\ status = "indexed" /\ queue = {}
  /\ status' = "done"
  /\ UNCHANGED <<file, summaryVars, readVars>>

ReaderNext ==
  \/ \E m \in Methods : readSummary(m)
  \/ \E o \in Options : readMessages(o)
  \/ NextInFile \/ EndOfFile
  \/ NextInIndex \/ EndOfQueue

ReaderSpec == ReaderInit /\ [][ReaderNext]_readerVars
-----------------------------------------------------------------------------
\* "messages are stored in log-time order" is no promise of the reader: in file order they
\* come as they were written, in log time order by time, those of one time as written, and
\* in reverse the other way round, but for times at which a chunk ends and the next one has
\* a message; no message comes twice.
InReverse(a, b) ==
  \/ MessageAt(a).logTime > MessageAt(b).logTime
  \/ /\ MessageAt(a).logTime = MessageAt(b).logTime
     /\ Before(b, a) \/ (Tangled(MessageAt(a).logTime) /\ a # b)

DeliveredInOrder ==
  \A i, j \in DOMAIN out : i < j =>
    CASE options.readOrder = "FileOrder" -> Before(out[i], out[j])
      [] options.readOrder = "LogTimeOrder" ->
           \/ MessageAt(out[i]).logTime < MessageAt(out[j]).logTime
           \/ MessageAt(out[i]).logTime = MessageAt(out[j]).logTime /\ Before(out[i], out[j])
      [] OTHER -> InReverse(out[i], out[j])

\* What of the file can be had: not cut off, not broken, nor its chunk or the record of its
\* channel.
Readable(a) == a[1] <= Whole /\ a \notin file.bad /\ <<a[1], 0>> \notin file.bad

Declared(a) ==
  \A b \in Addresses : Declares(b) /\ MessageAt(b).channel = MessageAt(a).channel =>
    b[1] <= Whole /\ <<b[1], 0>> \notin file.bad

\* A reading that ends without a failure has delivered every message of its period and its
\* topics that can be read: of all messages when the file was not summarized before, of the
\* chunks' when it was or the order is by time (the summary then has the channels, or a scan
\* found them).
DeliversAll ==
  /\ status = "done"
  /\ parsedSummary \/ options.readOrder # "FileOrder" =>
       "channels" \in file.summary \/ file.cut \/ file.summary = {}
  =>
    {a \in Addresses : /\ Readable(a)
                       /\ Declared(a) \/ ("channels" \in file.summary /\ parsedSummary)
                       /\ Passes(a, {MessageAt(a).channel})
                       /\ file.data[a[1]].chunk \/ (options.readOrder = "FileOrder" /\ ~parsedSummary)}
      \subseteq ToSet(out)
=============================================================================
