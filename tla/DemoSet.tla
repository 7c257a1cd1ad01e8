------------------------------ MODULE DemoSet ------------------------------
(***************************************************************************)
(* The demonstrations on disk: the recording job of lesson 15              *)
(* (lab/tasks/task_nfv0.py, train, with nfv/data/record.py) that writes    *)
(* shards and index.json in place, chunk by chunk, and the reader that     *)
(* loads every listed shard (nfv/data/dataset.py).  An episode of the      *)
(* scripted expert is a success or a failure here (Movement models it).    *)
(***************************************************************************)
EXTENDS Naturals, Sequences, FiniteSets
LOCAL INSTANCE FiniteSetsExt

CONSTANTS
    TaskNames,     \* the movements, in the order of their seed blocks
    RecTasks,      \* those the recording job was asked for, in order
    PerTask,       \* demos_per_task
    Chunk,         \* demos recorded between two polls
    Slack,         \* seeds of the pool beyond twice the demos (8 in the code)
    Offset,        \* the form's seed: shifts the window inside the block
    SeedsPerTask,  \* seeds of a block
    OldSets        \* the sets of tasks that may have a whole set of an earlier job

SeqRange(s) == {s[i] : i \in DOMAIN s}

ASSUME DemoAssumption ==
    /\ TaskNames \in Seq(STRING)
    /\ \A i, k \in DOMAIN TaskNames : TaskNames[i] = TaskNames[k] => i = k
    /\ RecTasks \in Seq(SeqRange(TaskNames)) \ {<<>>}
    /\ OldSets \subseteq SUBSET SeqRange(TaskNames)
    /\ {PerTask, Chunk, SeedsPerTask} \subseteq Nat \ {0}
    /\ {Slack, Offset} \subseteq Nat
    /\ PerTask <= SeedsPerTask - Offset

Position(task) == CHOOSE i \in DOMAIN TaskNames : TaskNames[i] = task

\* The check of n and offset never fires for offsets that are not negative.
Block(seed0, task, n, offset) ==
    [i \in 1..n |-> seed0 + (Position(task) - 1) * SeedsPerTask + offset + i - 1]

DemoSeed0 == 1
EvalSeed0 == DemoSeed0 + Len(TaskNames) * SeedsPerTask
DemoSeeds(task, n, offset) == Block(DemoSeed0, task, n, offset)

VARIABLES
    shard,     \* shard[s]: ep_<s>.npz, "none", "torn", or whole of the "old" or "new" job
    index,     \* index[t]: index.json of task t
    rpc,       \* where the recording job is
    ti,        \* the task it is at
    pos,       \* seeds of the pool used by the finished chunks
    tried,     \* and by record_demos since then
    chunk,     \* the demos of this chunk
    episodes,  \* and those of the earlier chunks of the task
    stopAsked  \* the jobs the user asked to stop

recVars == <<rpc, ti, pos, tried, chunk, episodes>>
diskVars == <<shard, index>>
demoVars == <<recVars, diskVars, stopAsked>>

NoIndex == [demos |-> <<>>, by |-> "none", whole |-> FALSE]
TornIndex == [demos |-> <<>>, by |-> "torn", whole |-> FALSE]

Task == RecTasks[ti]
Pool == DemoSeeds(Task, Min({2 * PerTask + Slack, SeedsPerTask - Offset}), Offset)
OldDemos(t) == DemoSeeds(t, PerTask, Offset)

DemoInit ==
    /\ \E old \in OldSets :
       /\ index = [t \in SeqRange(TaskNames) |->
                     IF t \in old THEN [demos |-> OldDemos(t), by |-> "old", whole |-> TRUE]
                     ELSE NoIndex]
       /\ shard = [s \in DemoSeed0..EvalSeed0 - 1 |->
                     IF \E t \in old : \E i \in 1..PerTask : OldDemos(t)[i] = s
                     THEN "old" ELSE "none"]
    /\ rpc = "idle" /\ ti = 1
    /\ pos = 0 /\ tried = 0
    /\ chunk = <<>> /\ episodes = <<>>
    /\ stopAsked = {}

-----------------------------------------------------------------------------
RecordStarts ==
    /\ rpc = "idle"
    /\ rpc' = "poll"
    /\ UNCHANGED <<ti, pos, tried, chunk, episodes, diskVars>>

RecordStops ==
    /\ rpc = "poll"
    /\ "record" \in stopAsked
    /\ rpc' = "stopped"
    /\ UNCHANGED <<ti, pos, tried, chunk, episodes, diskVars>>

\* should_continue may answer unread, less than POLL_S after it looked.
ChunkStarts ==
    /\ rpc = "poll"
    /\ rpc' = "roll"
    /\ UNCHANGED <<ti, pos, tried, chunk, episodes, diskVars>>

Want == Min({Chunk, PerTask - Len(episodes)})

\* record_episode; a failed one is dropped, and the pool may run out.
Roll ==
    /\ rpc = "roll"
    /\ IF pos + tried = Len(Pool)
       THEN rpc' = "failed" /\ UNCHANGED <<tried, shard>>
       ELSE LET seed == Pool[pos + tried + 1] IN
            /\ tried' = tried + 1
            /\ \/ UNCHANGED <<rpc, shard>>
               \/ rpc' = "shard" /\ shard' = [shard EXCEPT ![seed] = "torn"]
    /\ UNCHANGED <<ti, pos, chunk, episodes, index>>

ShardWritten ==
    /\ rpc = "shard"
    /\ LET seed == Pool[pos + tried] IN
         /\ shard' = [shard EXCEPT ![seed] = "new"]
         /\ chunk' = Append(chunk, seed)
    /\ rpc' = IF Len(chunk') < Want THEN "roll" ELSE "index"
    /\ UNCHANGED <<ti, pos, tried, episodes, index>>

\* write_text empties the file first.
IndexOpened ==
    /\ rpc \in {"index", "whole"}
    /\ rpc' = IF rpc = "index" THEN "indexed" ELSE "wholed"
    /\ index' = [index EXCEPT ![Task] = TornIndex]
    /\ UNCHANGED <<ti, pos, tried, chunk, episodes, shard>>

\* Mutant: the pool is advanced by the demos stored, not by the seeds tried.
MutUsed == Len(chunk)

Used == tried

\* record_demos lists its own chunk only; the caller adds it up.
ChunkListed ==
    /\ rpc = "indexed"
    /\ index' = [index EXCEPT ![Task] = [demos |-> chunk, by |-> "new", whole |-> FALSE]]
    /\ pos' = pos + Used
    /\ tried' = 0
    /\ episodes' = episodes \o chunk
    /\ chunk' = <<>>
    /\ rpc' = IF Len(episodes') < PerTask THEN "poll" ELSE "whole"
    /\ UNCHANGED <<ti, shard>>

\* The whole task's index; then the next task, or the marker checkpoint and done.
TaskListed ==
    /\ rpc = "wholed"
    /\ index' = [index EXCEPT ![Task] = [demos |-> episodes, by |-> "new", whole |-> TRUE]]
    /\ IF ti < Len(RecTasks)
       THEN ti' = ti + 1 /\ pos' = 0 /\ episodes' = <<>> /\ rpc' = "poll"
       ELSE rpc' = "done" /\ UNCHANGED <<ti, pos, episodes>>
    /\ UNCHANGED <<tried, chunk, shard>>

RecordEnded == {"done", "stopped", "failed", "killed"}

RecordKilled ==
    /\ rpc \notin RecordEnded \cup {"idle"}
    /\ rpc' = "killed"
    /\ UNCHANGED <<ti, pos, tried, chunk, episodes, diskVars>>

Record ==
    /\ \/ RecordStarts \/ RecordStops \/ ChunkStarts \/ Roll \/ ShardWritten
       \/ IndexOpened \/ ChunkListed \/ TaskListed \/ RecordKilled
    /\ UNCHANGED stopAsked

-----------------------------------------------------------------------------
ListedAreThere ==
    \A t \in DOMAIN index : \A s \in SeqRange(index[t].demos) :
        \/ shard[s] \in {"old", "new"}
        \/ shard[s] = "torn" /\ rpc \in {"shard", "killed"} /\ s = Pool[pos + tried]

WholeSetIsWhole ==
    /\ \A t \in DOMAIN index : index[t].whole =>
          LET d == index[t].demos IN
          /\ Len(d) = PerTask
          /\ \A i, k \in DOMAIN d : i < k => d[i] < d[k]
          /\ \A s \in SeqRange(d) :
                /\ shard[s] = index[t].by \/ rpc \notin {"idle", "done"}
                /\ s \in SeqRange(DemoSeeds(t, SeedsPerTask, 0))
    /\ rpc = "done" => \A i \in DOMAIN RecTasks : index[RecTasks[i]].by = "new"
                                                  /\ index[RecTasks[i]].whole

(***************************************************************************)
(* A demo set is what its index says.  A listed demo is on disk: its shard *)
(* is whole, except the one that a recording is writing again, or was      *)
(* writing when it was killed.  An index with provenance is the whole set: *)
(* as many demos as were asked for, no seed twice, in the order of the     *)
(* seeds, all of that task's window, and of one job unless a recording has *)
(* begun and is not done; and one that is done has left such an index for  *)
(* each of its tasks.                                                      *)
(***************************************************************************)
SetIsWhole == ListedAreThere /\ WholeSetIsWhole
=============================================================================
