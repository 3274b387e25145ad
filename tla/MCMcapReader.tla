---------------------------- MODULE MCMcapReader ----------------------------
(***************************************************************************)
(* Recordings of two channels with two units, messages or chunks, whole,   *)
(* cut off or with a broken record, and of three overlapping chunks.       *)
(***************************************************************************)
EXTENDS McapReader

Messages(C, T) == [channel : C, logTime : T]

Contents(C, T) == {<<m>> : m \in Messages(C, T)} \cup {<<m, n>> : m, n \in Messages(C, T)}

ChunksOf(C, T) == {[chunk |-> TRUE, messages |-> c] : c \in Contents(C, T)}

Alone(C, T) == {[chunk |-> FALSE, messages |-> <<m>>] : m \in Messages(C, T)}

Summaries == {{"statistics", "channels", "chunks"}, {"statistics", "chunks"}, {"channels", "chunks"},
              {"chunks"}, {}}

Pairs == {<<u, v>> : u, v \in ChunksOf({"imu", "cam"}, 1..2) \cup Alone({"imu", "cam"}, 1..2)}

\* A broken record in one of the units.
Breaks(d) == {{}} \cup {{a} : a \in UNION {{<<u, k>> : k \in DOMAIN d[u].messages} : u \in DOMAIN d}}
                  \cup {{<<u, 0>>} : u \in {u \in DOMAIN d : d[u].chunk}}

Intact ==
  {[data |-> d, bad |-> {}, cut |-> FALSE, summary |-> s, indexed |-> s # {}] : d \in Pairs, s \in Summaries}

Damaged ==
  UNION {{[data |-> d, bad |-> b, cut |-> c, summary |-> IF c THEN {} ELSE {"statistics", "channels", "chunks"},
           indexed |-> TRUE] : b \in Breaks(d), c \in BOOLEAN}
           : d \in {<<u, v>> : u, v \in ChunksOf({"imu", "cam"}, {1}) \cup Alone({"imu"}, {1})}}

Overlapping ==
  {[data |-> d, bad |-> {}, cut |-> FALSE, summary |-> {"statistics", "channels", "chunks"}, indexed |-> TRUE]
     : d \in [1..3 -> ChunksOf({"imu"}, 1..3)]}

MCFiles == Intact \cup Damaged \cup Overlapping

MCOptions ==
  [readOrder : {"FileOrder", "LogTimeOrder", "ReverseLogTimeOrder"},
   startTime : {1}, endTime : {2, 4}, topics : {{"imu", "cam"}}]
  \cup {[readOrder |-> o, startTime |-> 2, endTime |-> 3, topics |-> {"imu"}]
          : o \in {"FileOrder", "LogTimeOrder"}}
=============================================================================
