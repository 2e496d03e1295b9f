-------------------------- MODULE ResearchDataProofs --------------------------
(***************************************************************************)
(* What TLAPS proves of the data research works with and of the days it    *)
(* works on them.                                                          *)
(*                                                                         *)
(* Of DataSync, for any number of instances, runs, partitions and pages:   *)
(* ProgressIsExact is not inductive alone, because that a commit ingests   *)
(* the page the checkpoint waits for depends on the lease.  HolderIsThere  *)
(* says what the lease buys: the position in the hands of its holder is    *)
(* the checkpoint's own.  Of an instance that has lost the lease nothing   *)
(* but PlaceOK is known, and nothing more is needed, because it commits    *)
(* nothing.  On top of that invariant, the lease fences, and raw payloads  *)
(* are archived before anything is curated from them.  For the second the  *)
(* archive must also hold what an instance is about to decode or commit    *)
(* (HandsAreArchived).  That progress never reverses follows from          *)
(* ProgressIsExact itself: the page a commit ingests is not behind the     *)
(* checkpoint, so it was never ingested before.                            *)
(*                                                                         *)
(* Of ResearchDays, for any policies, market states, industry tables and   *)
(* stock features and for any number of sessions: the first parts follow   *)
(* the two engines that remember earlier sessions, the next ones what one  *)
(* session hands from step to step, and the last ones the arithmetic of a  *)
(* decision: what is allocated, scaled and moved, and what its roundings   *)
(* can miss.                                                               *)
(***************************************************************************)
EXTENDS DataSync, ResearchDays, SumTheorems, SequenceTheorems, TLAPS

-----------------------------------------------------------------------------
(* The synchronisation.                                                    *)

Working == {"start", "finish", "failed"} \cup InLoop

(* What each instance holds in memory fits its run and the dataset.        *)
PlaceOK ==
  \A w \in Worker :
    /\ worker[w].pc \notin {"idle", "dead"} =>
         worker[w].run \in Run /\ worker[w].target \in Partition
    /\ worker[w].pc \in {"start"} \cup InLoop => worker[w].partition \in 1..worker[w].target
    /\ worker[w].pc \in InLoop => worker[w].cursor < PageCount[worker[w].partition]
    /\ worker[w].pc = "archive" => worker[w].payload \in Payload
    /\ worker[w].pc \in Working =>
         /\ runs[worker[w].run].state # "NONE"
         /\ runs[worker[w].run].target = worker[w].target

(* The active partition is the one after the watermark, and the resume     *)
(* cursor is inside it.                                                    *)
CheckpointOK ==
  /\ checkpoint.active \in {0, checkpoint.watermark + 1}
  /\ checkpoint.active = 0 => checkpoint.cursor = 0
  /\ checkpoint.active # 0 => checkpoint.cursor < PageCount[checkpoint.active]

(* The lease holder's next page is the one the checkpoint waits for.       *)
HolderIsThere ==
  \A w \in Worker : checkpoint.owner = w =>
    /\ worker[w].pc \in {"start"} \cup InLoop => worker[w].partition = checkpoint.watermark + 1
    /\ worker[w].pc \in InLoop => worker[w].cursor = checkpoint.cursor

(* A run that succeeded has its target behind the watermark.               *)
SucceededIsBehind ==
  \A r \in Run : runs[r].state = "SUCCEEDED" => runs[r].target <= checkpoint.watermark

SyncInv == TypeOK /\ PlaceOK /\ CheckpointOK /\ HolderIsThere /\ SucceededIsBehind

USE DataSyncAssumption DEF Partition

LEMMA SyncInit == Init => SyncInv /\ ProgressIsExact
<1> SUFFICES ASSUME Init PROVE SyncInv /\ ProgressIsExact
  OBVIOUS
<1>1. TypeOK
  BY DEF Init, TypeOK, Checkpoint, RunRow, PageRow, WorkerState, Idle, Blank
<1>2. PlaceOK /\ CheckpointOK /\ HolderIsThere /\ SucceededIsBehind
  BY DEF Init, PlaceOK, CheckpointOK, HolderIsThere, SucceededIsBehind, Idle, Blank, InLoop, Working
<1>3. ProgressIsExact
  <2> SUFFICES ASSUME NEW pos \in Position PROVE curated[pos].times = 0 /\ ~Behind(pos)
    BY DEF ProgressIsExact
  <2>1. pos[1] \in Partition /\ pos[2] \in Nat
    BY DEF Position
  <2> QED
    BY <2>1 DEF Init, Behind
<1> QED
  BY <1>1, <1>2, <1>3 DEF SyncInv

(* The page an instance in the loop works on is a page of the dataset.     *)
LEMMA HereIsAPosition ==
  ASSUME SyncInv, NEW w \in Worker, worker[w].pc \in InLoop
  PROVE  /\ Here(w) \in Position
         /\ worker[w].run \in Run
         /\ PageOf(w) \in PageRow
         /\ worker[w].partition \in Partition
         /\ worker[w].cursor \in 0..(PageCount[worker[w].partition] - 1)
<1>1. /\ worker[w].partition \in Partition
      /\ worker[w].run \in Run
      /\ worker[w].cursor \in Nat
      /\ worker[w].cursor < PageCount[worker[w].partition]
  <2>1. worker[w].cursor \in Nat
    BY DEF SyncInv, TypeOK, WorkerState
  <2>2. worker[w].pc \notin {"idle", "dead"}
    BY DEF InLoop
  <2>3. worker[w].run \in Run /\ worker[w].target \in Partition
    BY <2>2 DEF SyncInv, PlaceOK
  <2>4. worker[w].partition \in 1..worker[w].target
    BY DEF SyncInv, PlaceOK
  <2>5. worker[w].cursor < PageCount[worker[w].partition]
    BY DEF SyncInv, PlaceOK
  <2>6. worker[w].partition \in Partition
    BY <2>3, <2>4, DataSyncAssumption DEF Partition
  <2> QED
    BY <2>1, <2>3, <2>5, <2>6
<1>2. PageCount[worker[w].partition] \in Nat \ {0}
  BY <1>1
<1>3. worker[w].cursor \in 0..(PageCount[worker[w].partition] - 1)
  BY <1>1, <1>2
<1>4. Here(w) \in Position
  BY <1>1, <1>3 DEF Here, Position
<1> QED
  BY <1>1, <1>3, <1>4 DEF SyncInv, TypeOK, PageOf

(* Steps that change one instance's memory and nothing the others share    *)
(* keep the invariant as soon as that memory stays in its place.           *)
LEMMA MemoryStep ==
  ASSUME SyncInv, NEW w \in Worker,
         worker'[w] \in WorkerState,
         worker' = [worker EXCEPT ![w] = worker'[w]],
         checkpoint' = checkpoint, runs' = runs,
         pages' \in [Run -> [Position -> PageRow]],
         archive' \subseteq (Position \X Payload),
         curated' = curated,
         spent' \in [failures : 0..MaxFailures, crashes : 0..MaxCrashes, late : 0..MaxLateLeases],
         worker'[w].pc \notin {"idle", "dead"} =>
           worker'[w].run \in Run /\ worker'[w].target \in Partition,
         worker'[w].pc \in {"start"} \cup InLoop => worker'[w].partition \in 1..worker'[w].target,
         worker'[w].pc \in InLoop => worker'[w].cursor < PageCount[worker'[w].partition],
         worker'[w].pc = "archive" => worker'[w].payload \in Payload,
         worker'[w].pc \in Working =>
           /\ runs[worker'[w].run].state # "NONE"
           /\ runs[worker'[w].run].target = worker'[w].target,
         checkpoint.owner = w =>
           /\ worker'[w].pc \in {"start"} \cup InLoop =>
                worker'[w].partition = checkpoint.watermark + 1
           /\ worker'[w].pc \in InLoop => worker'[w].cursor = checkpoint.cursor
  PROVE  SyncInv'
<1>0. /\ worker \in [Worker -> WorkerState]
      /\ \A v \in Worker : v # w => worker'[v] = worker[v]
  BY DEF SyncInv, TypeOK
<1>1. TypeOK'
  BY <1>0 DEF SyncInv, TypeOK
<1>2. PlaceOK'
  <2> SUFFICES ASSUME NEW v \in Worker
               PROVE  /\ worker'[v].pc \notin {"idle", "dead"} =>
                           worker'[v].run \in Run /\ worker'[v].target \in Partition
                      /\ worker'[v].pc \in {"start"} \cup InLoop =>
                           worker'[v].partition \in 1..worker'[v].target
                      /\ worker'[v].pc \in InLoop =>
                           worker'[v].cursor < PageCount[worker'[v].partition]
                      /\ worker'[v].pc = "archive" => worker'[v].payload \in Payload
                      /\ worker'[v].pc \in Working =>
                           /\ runs[worker'[v].run].state # "NONE"
                           /\ runs[worker'[v].run].target = worker'[v].target
    BY DEF PlaceOK
  <2>1. CASE v = w
    BY <2>1
  <2>2. CASE v # w
    BY <2>2, <1>0 DEF SyncInv, PlaceOK
  <2> QED
    BY <2>1, <2>2
<1>3. CheckpointOK' /\ SucceededIsBehind'
  BY DEF SyncInv, CheckpointOK, SucceededIsBehind
<1>4. HolderIsThere'
  <2> SUFFICES ASSUME NEW v \in Worker, checkpoint.owner = v
               PROVE  /\ worker'[v].pc \in {"start"} \cup InLoop =>
                           worker'[v].partition = checkpoint.watermark + 1
                      /\ worker'[v].pc \in InLoop => worker'[v].cursor = checkpoint.cursor
    BY DEF HolderIsThere
  <2>1. CASE v = w
    BY <2>1
  <2>2. CASE v # w
    BY <2>2, <1>0 DEF SyncInv, HolderIsThere
  <2> QED
    BY <2>1, <2>2
<1> QED
  BY <1>1, <1>2, <1>3, <1>4 DEF SyncInv

(* Begin reads a request into an idle instance.                            *)
LEMMA BeginStep ==
  ASSUME SyncInv, NEW w \in Worker, NEW request \in Request, Begin(w, request)
  PROVE  SyncInv'
<1>1. request.run \in Run /\ request.target \in Partition
  OBVIOUS
<1>2. (checkpoint.owner # None /\ ~checkpoint.expired) \in BOOLEAN
  OBVIOUS
<1>3. /\ worker'[w].pc = "setup" /\ worker'[w].run = request.run
      /\ worker'[w].target = request.target
      /\ worker'[w] \in WorkerState
      /\ worker' = [worker EXCEPT ![w] = worker'[w]]
  BY <1>1, <1>2 DEF Begin, SyncInv, TypeOK, WorkerState
<1> QED
  BY <1>1, <1>3, MemoryStep DEF Begin, SyncInv, TypeOK, InLoop, Working

(* A call that ends, or a process that dies, leaves an empty memory.       *)
LEMMA LeavingStep ==
  ASSUME SyncInv, NEW w \in Worker, NEW pc \in {"idle", "dead"},
         worker' = [worker EXCEPT ![w] = Blank(pc)],
         UNCHANGED <<checkpoint, runs, pages, archive, curated>>,
         spent' \in [failures : 0..MaxFailures, crashes : 0..MaxCrashes, late : 0..MaxLateLeases]
  PROVE  SyncInv'
<1>1. /\ worker'[w].pc = pc
      /\ worker'[w] \in WorkerState
      /\ worker' = [worker EXCEPT ![w] = worker'[w]]
  BY DEF SyncInv, TypeOK, WorkerState, Blank
<1>2. pc \notin {"start"} \cup InLoop /\ pc \notin Working
  BY DEF InLoop, Working
<1> QED
  BY <1>1, <1>2, MemoryStep DEF SyncInv, TypeOK

(* Between two pages an instance only moves its program counter on, or     *)
(* gives up: its place stays what it was.                                  *)
LEMMA PcStep ==
  ASSUME SyncInv, NEW w \in Worker, worker[w].pc \in Working,
         worker'[w].pc \in Working,
         worker'[w].pc # "start",
         worker'[w].pc \in InLoop => worker[w].pc \in InLoop,
         worker'[w].pc = "archive" => worker'[w].payload \in Payload,
         worker'[w] \in WorkerState,
         worker' = [worker EXCEPT ![w] = worker'[w]],
         worker'[w].run = worker[w].run,
         worker'[w].target = worker[w].target,
         worker'[w].partition = worker[w].partition,
         worker'[w].cursor = worker[w].cursor,
         checkpoint' = checkpoint, runs' = runs,
         pages' \in [Run -> [Position -> PageRow]],
         archive' \subseteq (Position \X Payload),
         curated' = curated,
         spent' \in [failures : 0..MaxFailures, crashes : 0..MaxCrashes, late : 0..MaxLateLeases]
  PROVE  SyncInv'
<1>1. /\ worker[w].pc \notin {"idle", "dead"}
      /\ worker[w].run \in Run /\ worker[w].target \in Partition
      /\ runs[worker[w].run].state # "NONE"
      /\ runs[worker[w].run].target = worker[w].target
  BY DEF SyncInv, PlaceOK, Working, InLoop
<1>2. worker'[w].pc \in InLoop =>
        /\ worker[w].partition \in 1..worker[w].target
        /\ worker[w].cursor < PageCount[worker[w].partition]
  BY DEF SyncInv, PlaceOK
<1>3. checkpoint.owner = w /\ worker'[w].pc \in InLoop =>
        /\ worker[w].partition = checkpoint.watermark + 1
        /\ worker[w].cursor = checkpoint.cursor
  BY DEF SyncInv, HolderIsThere
<1> QED
  BY <1>1, <1>2, <1>3, MemoryStep

(* What Goto does to the instance's memory.                                *)
LEMMA GotoMoves ==
  ASSUME worker \in [Worker -> WorkerState], NEW w \in Worker,
         NEW pc \in Working, Goto(w, pc)
  PROVE  /\ worker' = [worker EXCEPT ![w] = worker'[w]]
         /\ worker'[w] \in WorkerState
         /\ worker'[w].pc = pc
         /\ worker'[w].run = worker[w].run /\ worker'[w].target = worker[w].target
         /\ worker'[w].partition = worker[w].partition
         /\ worker'[w].cursor = worker[w].cursor
         /\ worker'[w].payload = worker[w].payload
<1>1. worker[w] \in WorkerState
  OBVIOUS
<1>2. worker'[w] = [worker[w] EXCEPT !.pc = pc]
  BY DEF Goto
<1>3. worker' = [worker EXCEPT ![w] = worker'[w]]
  BY DEF Goto
<1>4. pc \in {"idle", "setup", "start", "finish", "failed", "dead"} \cup InLoop
  BY DEF Working
<1> QED
  BY <1>1, <1>2, <1>3, <1>4 DEF WorkerState

(* What SetPage does to the pages.                                         *)
LEMMA SetPageType ==
  ASSUME SyncInv, NEW w \in Worker, worker[w].pc \in InLoop,
         NEW state \in {"NONE", "FETCHING", "FETCHED", "FAILED", "COMMITTED"},
         \/ SetPage(w, [PageOf(w) EXCEPT !.state = state])
         \/ SetPage(w, [state |-> state, payload |-> worker[w].payload])
  PROVE  pages' \in [Run -> [Position -> PageRow]]
<1>1. /\ Here(w) \in Position /\ worker[w].run \in Run /\ PageOf(w) \in PageRow
      /\ worker[w] \in WorkerState
      /\ pages \in [Run -> [Position -> PageRow]]
  BY HereIsAPosition DEF SyncInv, TypeOK
<1>2. /\ [PageOf(w) EXCEPT !.state = state] \in PageRow
      /\ [state |-> state, payload |-> worker[w].payload] \in PageRow
  BY <1>1 DEF PageRow, WorkerState
<1>3. PICK page \in PageRow : pages' = [pages EXCEPT ![worker[w].run][Here(w)] = page]
  BY <1>2 DEF SetPage
<1> QED
  BY <1>1, <1>3

(* The steps of the page loop that change the page in hand, and those that *)
(* change nothing but the instance's memory.                               *)
LEMMA LoopStep ==
  ASSUME SyncInv, NEW w \in Worker,
         \/ LoadArchived(w) \/ PrepareFetch(w) \/ Fetch(w) \/ FetchFails(w)
         \/ RecordFetchFailure(w) \/ Archive(w) \/ Decode(w) \/ DecodeFails(w)
  PROVE  SyncInv'
<1>1. worker[w].pc \in InLoop
  BY DEF LoadArchived, PrepareFetch, Fetch, FetchFails, RecordFetchFailure, Archive,
         Decode, DecodeFails, At, InLoop
<1>2. /\ Here(w) \in Position /\ worker[w].run \in Run
      /\ PageOf(w) \in PageRow
      /\ worker[w] \in WorkerState
      /\ worker \in [Worker -> WorkerState]
      /\ pages \in [Run -> [Position -> PageRow]]
      /\ archive \subseteq (Position \X Payload)
      /\ spent \in [failures : 0..MaxFailures, crashes : 0..MaxCrashes, late : 0..MaxLateLeases]
  BY <1>1, HereIsAPosition DEF SyncInv, TypeOK
<1>3. (checkpoint.owner = w /\ ~checkpoint.expired) \in BOOLEAN
  OBVIOUS
<1>4. /\ checkpoint' = checkpoint /\ runs' = runs /\ curated' = curated
  BY DEF LoadArchived, PrepareFetch, Fetch, FetchFails, RecordFetchFailure, Archive,
         Decode, DecodeFails
<1>5. /\ worker'[w].pc \in (InLoop \cup {"failed"})
      /\ worker'[w].run = worker[w].run /\ worker'[w].target = worker[w].target
      /\ worker'[w].partition = worker[w].partition
      /\ worker'[w].cursor = worker[w].cursor
      /\ worker' = [worker EXCEPT ![w] = worker'[w]]
      /\ worker'[w] \in WorkerState
      /\ worker'[w].pc = "archive" => worker'[w].payload \in Payload
  <2>1. CASE LoadArchived(w)
    BY <1>2, <2>1 DEF LoadArchived, InLoop, WorkerState, PageRow
  <2>2. CASE \/ PrepareFetch(w) \/ FetchFails(w) \/ RecordFetchFailure(w)
             \/ Archive(w) \/ DecodeFails(w)
    <3>1. PICK pc \in {"fetch", "fetchFailed", "decode", "failed"} : Goto(w, pc)
      BY <2>2 DEF PrepareFetch, FetchFails, RecordFetchFailure, Archive, DecodeFails, Fail
    <3>2. pc \in Working /\ pc \in InLoop \cup {"failed"} /\ pc # "archive"
      BY DEF Working, InLoop
    <3> QED
      BY <1>2, <3>1, <3>2, GotoMoves
  <2>3. CASE Fetch(w)
    <3>1. PICK fetched \in Payload :
            worker' = [worker EXCEPT ![w].payload = fetched, ![w].pc = "archive"]
      BY <2>3 DEF Fetch
    <3>2. worker'[w] = [worker[w] EXCEPT !.payload = fetched, !.pc = "archive"]
      BY <1>2, <3>1
    <3>3. worker' = [worker EXCEPT ![w] = worker'[w]]
      BY <1>2, <3>1
    <3> QED
      BY <1>2, <3>2, <3>3 DEF InLoop, WorkerState
  <2>6. CASE Decode(w)
    BY <1>2, <1>3, <2>6 DEF Decode, InLoop, WorkerState
  <2> QED
    BY <2>1, <2>2, <2>3, <2>6
<1>6. pages' \in [Run -> [Position -> PageRow]]
  <2>1. CASE PrepareFetch(w) /\ pages' # pages
    BY <1>1, <2>1, SetPageType DEF PrepareFetch
  <2>2. CASE RecordFetchFailure(w) /\ pages' # pages
    BY <1>1, <2>2, SetPageType DEF RecordFetchFailure
  <2>3. CASE Archive(w) /\ pages' # pages
    BY <1>1, <2>3, SetPageType DEF Archive
  <2>4. CASE pages' = pages
    BY <1>2, <2>4
  <2> QED
    BY <2>1, <2>2, <2>3, <2>4 DEF LoadArchived, Fetch, FetchFails, Decode, DecodeFails
<1>7. archive' \subseteq (Position \X Payload)
  <2>1. CASE Archive(w)
    <3>1. worker[w].payload \in Payload
      BY <2>1 DEF Archive, At, SyncInv, PlaceOK
    <3>2. <<Here(w), worker[w].payload>> \in Position \X Payload
      BY <1>2, <3>1
    <3> QED
      BY <1>2, <2>1, <3>2 DEF Archive
  <2>2. CASE ~Archive(w)
    BY <1>2, <2>2 DEF LoadArchived, PrepareFetch, Fetch, FetchFails, RecordFetchFailure,
                     Decode, DecodeFails
  <2> QED
    BY <2>1, <2>2
<1>8. spent' \in [failures : 0..MaxFailures, crashes : 0..MaxCrashes, late : 0..MaxLateLeases]
  <2>1. CASE FetchFails(w) \/ DecodeFails(w)
    <3>1. spent.failures < MaxFailures /\ spent' = [spent EXCEPT !.failures = @ + 1]
      BY <2>1 DEF FetchFails, DecodeFails, Fail
    <3> QED
      BY <1>2, <3>1
  <2>2. CASE ~(FetchFails(w) \/ DecodeFails(w))
    BY <1>2, <2>2 DEF LoadArchived, PrepareFetch, Fetch, RecordFetchFailure, Archive, Decode
  <2> QED
    BY <2>1, <2>2
<1>9. worker'[w].pc \in Working /\ worker'[w].pc # "start" /\ worker[w].pc \in Working
  BY <1>1, <1>5 DEF Working, InLoop
<1> QED
  BY <1>1, <1>4, <1>5, <1>6, <1>7, <1>8, <1>9, PcStep

(* A partition starts at the resume cursor, or the instance gives up.      *)
LEMMA StartStep ==
  ASSUME SyncInv, NEW w \in Worker, StartPartition(w)
  PROVE  SyncInv'
<1>1. /\ worker \in [Worker -> WorkerState] /\ worker[w] \in WorkerState
      /\ worker[w].pc = "start" /\ checkpoint \in Checkpoint
  BY DEF SyncInv, TypeOK, StartPartition, At
<1>2. /\ worker[w].run \in Run /\ worker[w].target \in Partition
      /\ worker[w].partition \in 1..worker[w].target
      /\ runs[worker[w].run].state # "NONE" /\ runs[worker[w].run].target = worker[w].target
  BY <1>1 DEF SyncInv, PlaceOK, Working
<1>3. UNCHANGED <<checkpoint, runs, pages, archive, curated, spent>>
  BY DEF StartPartition
<1>4. CASE checkpoint.active \in {0, worker[w].partition}
  <2>1. worker' = [worker EXCEPT ![w].cursor = checkpoint.cursor, ![w].pc = "load"]
    BY <1>4 DEF StartPartition
  <2>2. /\ worker'[w] = [worker[w] EXCEPT !.cursor = checkpoint.cursor, !.pc = "load"]
        /\ worker' = [worker EXCEPT ![w] = worker'[w]]
    BY <1>1, <2>1
  <2>3. checkpoint.cursor \in Nat /\ checkpoint.active \in 0..LastPartition
    BY <1>1 DEF Checkpoint
  <2>4. /\ worker'[w] \in WorkerState /\ worker'[w].pc = "load"
        /\ worker'[w].run = worker[w].run /\ worker'[w].target = worker[w].target
        /\ worker'[w].partition = worker[w].partition
        /\ worker'[w].cursor = checkpoint.cursor
    BY <1>1, <2>2, <2>3 DEF WorkerState, InLoop
  <2>5. checkpoint.cursor < PageCount[worker[w].partition]
    <3>1. CASE checkpoint.active = 0
      <4>1. worker[w].partition \in Partition
        BY <1>2
      <4>2. PageCount[worker[w].partition] \in Nat \ {0} /\ checkpoint.cursor = 0
        BY <4>1, <3>1 DEF SyncInv, CheckpointOK
      <4> QED
        BY <4>2
    <3>2. CASE checkpoint.active # 0
      BY <1>4, <3>2 DEF SyncInv, CheckpointOK
    <3> QED
      BY <3>1, <3>2
  <2>6. checkpoint.owner = w => worker[w].partition = checkpoint.watermark + 1
    BY <1>1 DEF SyncInv, HolderIsThere
  <2> QED
    BY <1>2, <1>3, <2>2, <2>4, <2>5, <2>6, MemoryStep DEF SyncInv, TypeOK
<1>5. CASE checkpoint.active \notin {0, worker[w].partition}
  <2>1. Goto(w, "failed") /\ "failed" \in Working /\ "failed" \notin InLoop
    BY <1>5 DEF StartPartition, Goto, Working, InLoop
  <2>2. "start" \in Working
    BY DEF Working
  <2> QED
    BY <1>1, <1>3, <2>1, <2>2, GotoMoves, PcStep DEF SyncInv, TypeOK
<1> QED
  BY <1>4, <1>5

(* An instance gives its call up and goes to record the failure.           *)
LEMMA GiveUpStep ==
  ASSUME SyncInv, NEW w \in Worker, worker[w].pc \in Working, Goto(w, "failed"),
         UNCHANGED <<checkpoint, runs, pages, archive, curated>>,
         spent' \in [failures : 0..MaxFailures, crashes : 0..MaxCrashes, late : 0..MaxLateLeases]
  PROVE  SyncInv'
<1>1. "failed" \in Working /\ "failed" \notin InLoop
  BY DEF Working, InLoop
<1>2. /\ worker \in [Worker -> WorkerState]
      /\ pages' \in [Run -> [Position -> PageRow]]
      /\ archive' \subseteq (Position \X Payload)
  BY DEF SyncInv, TypeOK
<1>3. /\ worker' = [worker EXCEPT ![w] = worker'[w]]
      /\ worker'[w] \in WorkerState
      /\ worker'[w].pc = "failed"
      /\ worker'[w].run = worker[w].run /\ worker'[w].target = worker[w].target
      /\ worker'[w].partition = worker[w].partition
      /\ worker'[w].cursor = worker[w].cursor
  BY <1>1, <1>2, GotoMoves
<1> QED
  BY <1>1, <1>2, <1>3, PcStep

(* The rest of what may happen to an instance without touching the tables. *)
LEMMA OtherMemorySteps ==
  ASSUME SyncInv, NEW w \in Worker,
         SetupRefused(w) \/ TransactionFails(w) \/ Crash(w)
  PROVE  SyncInv'
<1>1. CASE SetupRefused(w)
  BY <1>1, LeavingStep DEF SetupRefused, Idle, SyncInv, TypeOK
<1>2. CASE TransactionFails(w)
  <2>1. spent' \in [failures : 0..MaxFailures, crashes : 0..MaxCrashes, late : 0..MaxLateLeases]
    <3>1. /\ spent.failures < MaxFailures /\ spent' = [spent EXCEPT !.failures = @ + 1]
          /\ spent \in [failures : 0..MaxFailures, crashes : 0..MaxCrashes, late : 0..MaxLateLeases]
      BY <1>2 DEF TransactionFails, SyncInv, TypeOK
    <3> QED
      BY <3>1
  <2>2. CASE worker[w].pc \in {"setup", "failed"}
    BY <1>2, <2>1, <2>2, LeavingStep DEF TransactionFails, Idle
  <2>3. CASE worker[w].pc \notin {"setup", "failed"}
    <3>1. worker[w].pc \in Working /\ Goto(w, "failed")
      BY <1>2, <2>3 DEF TransactionFails, Goto, Working, InLoop
    <3> QED
      BY <1>2, <2>1, <3>1, GiveUpStep DEF TransactionFails
  <2> QED
    BY <2>2, <2>3
<1>3. CASE Crash(w)
  <2>1. /\ spent.crashes < MaxCrashes /\ spent' = [spent EXCEPT !.crashes = @ + 1]
        /\ spent \in [failures : 0..MaxFailures, crashes : 0..MaxCrashes, late : 0..MaxLateLeases]
    BY <1>3 DEF Crash, SyncInv, TypeOK
  <2>2. spent' \in [failures : 0..MaxFailures, crashes : 0..MaxCrashes, late : 0..MaxLateLeases]
    BY <2>1
  <2> QED
    BY <1>3, <2>2, LeavingStep DEF Crash
<1> QED
  BY <1>1, <1>2, <1>3

(* Giving the lease back, with or without a success to remember.           *)
LEMMA ReleasedRow ==
  ASSUME SyncInv
  PROVE  /\ Released \in Checkpoint
         /\ Released.watermark = checkpoint.watermark /\ Released.active = checkpoint.active
         /\ Released.cursor = checkpoint.cursor /\ Released.owner = None
         /\ \A r \in Run : LET row == [Released EXCEPT !.lastSuccess = r] IN
              /\ row \in Checkpoint
              /\ row.watermark = checkpoint.watermark /\ row.active = checkpoint.active
              /\ row.cursor = checkpoint.cursor /\ row.owner = None
<1>1. checkpoint \in Checkpoint
  BY DEF SyncInv, TypeOK
<1>2. /\ Released \in Checkpoint
      /\ Released.watermark = checkpoint.watermark /\ Released.active = checkpoint.active
      /\ Released.cursor = checkpoint.cursor /\ Released.owner = None
  BY <1>1 DEF Released, Checkpoint
<1> HIDE DEF Released
<1> QED
  BY <1>2 DEF Checkpoint

(* The lease is given back, the instance is idle, and at most its run's    *)
(* state has changed.                                                      *)
LEMMA ReleaseStep ==
  ASSUME SyncInv, NEW w \in Worker,
         checkpoint' \in Checkpoint,
         checkpoint'.watermark = checkpoint.watermark,
         checkpoint'.active = checkpoint.active,
         checkpoint'.cursor = checkpoint.cursor,
         checkpoint'.owner = None,
         worker' = [worker EXCEPT ![w] = Idle],
         runs' \in [Run -> RunRow],
         \A r \in Run : /\ runs'[r].target = runs[r].target
                        /\ runs[r].state # "NONE" => runs'[r].state # "NONE"
                        /\ runs'[r].state = "SUCCEEDED" =>
                             \/ runs[r].state = "SUCCEEDED"
                             \/ runs[r].target <= checkpoint.watermark,
         UNCHANGED <<pages, archive, curated, spent>>
  PROVE  SyncInv'
<1>1. /\ worker \in [Worker -> WorkerState]
      /\ Idle \in WorkerState /\ Idle.pc = "idle"
  BY DEF SyncInv, TypeOK, Idle, Blank, WorkerState
<1>2. TypeOK'
  BY <1>1 DEF SyncInv, TypeOK
<1>3. PlaceOK'
  <2> SUFFICES ASSUME NEW v \in Worker
               PROVE  /\ worker'[v].pc \notin {"idle", "dead"} =>
                           worker'[v].run \in Run /\ worker'[v].target \in Partition
                      /\ worker'[v].pc \in {"start"} \cup InLoop =>
                           worker'[v].partition \in 1..worker'[v].target
                      /\ worker'[v].pc \in InLoop =>
                           worker'[v].cursor < PageCount[worker'[v].partition]
                      /\ worker'[v].pc = "archive" => worker'[v].payload \in Payload
                      /\ worker'[v].pc \in Working =>
                           /\ runs'[worker'[v].run].state # "NONE"
                           /\ runs'[worker'[v].run].target = worker'[v].target
    BY DEF PlaceOK
  <2>1. CASE v = w
    BY <1>1, <2>1 DEF InLoop, Working
  <2>2. CASE v # w
    <3>1. worker'[v] = worker[v]
      BY <1>1, <2>2
    <3>2. worker[v].pc \in Working => worker[v].run \in Run
      BY DEF SyncInv, PlaceOK, Working, InLoop
    <3> QED
      BY <3>1, <3>2 DEF SyncInv, PlaceOK
  <2> QED
    BY <2>1, <2>2
<1>4. CheckpointOK'
  BY DEF SyncInv, CheckpointOK
<1>5. HolderIsThere'
  BY DEF HolderIsThere
<1>6. SucceededIsBehind'
  BY DEF SyncInv, SucceededIsBehind
<1> QED
  BY <1>2, <1>3, <1>4, <1>5, <1>6 DEF SyncInv

LEMMA SetupFindsSuccessStep ==
  ASSUME SyncInv, NEW w \in Worker, SetupFindsSuccess(w)
  PROVE  SyncInv'
<1>1. worker[w].run \in Run
  BY DEF SetupFindsSuccess, At, SyncInv, PlaceOK
<1>2. /\ checkpoint' \in Checkpoint
      /\ checkpoint'.watermark = checkpoint.watermark /\ checkpoint'.active = checkpoint.active
      /\ checkpoint'.cursor = checkpoint.cursor /\ checkpoint'.owner = None
  BY <1>1, ReleasedRow DEF SetupFindsSuccess
<1> QED
  BY <1>2, ReleaseStep DEF SetupFindsSuccess, SyncInv, TypeOK

LEMMA FinishStep ==
  ASSUME SyncInv, NEW w \in Worker, Finish(w)
  PROVE  SyncInv'
<1>1. /\ worker[w].pc = "finish" /\ worker[w].pc \in Working
      /\ worker[w].run \in Run
      /\ runs \in [Run -> RunRow]
      /\ runs[worker[w].run].target = worker[w].target
  BY DEF Finish, At, SyncInv, TypeOK, PlaceOK, Working, InLoop
<1>2. CASE ~FinishHolds(w)
  BY <1>1, <1>2, GiveUpStep DEF Finish, SyncInv, TypeOK
<1>3. CASE FinishHolds(w)
  <2>1. /\ runs' = [runs EXCEPT ![worker[w].run].state = "SUCCEEDED"]
        /\ checkpoint' = [Released EXCEPT !.lastSuccess = worker[w].run]
        /\ worker' = [worker EXCEPT ![w] = Idle]
        /\ UNCHANGED <<pages, archive, curated, spent>>
        /\ checkpoint.watermark = worker[w].target
    BY <1>3 DEF Finish, FinishHolds
  <2>2. /\ checkpoint' \in Checkpoint
        /\ checkpoint'.watermark = checkpoint.watermark /\ checkpoint'.active = checkpoint.active
        /\ checkpoint'.cursor = checkpoint.cursor /\ checkpoint'.owner = None
    BY <1>1, <2>1, ReleasedRow
  <2>3. /\ runs' \in [Run -> RunRow]
        /\ \A r \in Run : /\ runs'[r].target = runs[r].target
                          /\ runs[r].state # "NONE" => runs'[r].state # "NONE"
                          /\ runs'[r].state = "SUCCEEDED" =>
                               runs[r].state = "SUCCEEDED" \/ r = worker[w].run
    BY <1>1, <2>1 DEF RunRow
  <2>4. checkpoint \in Checkpoint /\ checkpoint.watermark \in 0..LastPartition
    BY DEF SyncInv, TypeOK, Checkpoint
  <2>5. runs[worker[w].run].target <= checkpoint.watermark
    BY <1>1, <2>1, <2>4
  <2> QED
    BY <2>1, <2>2, <2>3, <2>5, ReleaseStep
<1> QED
  BY <1>2, <1>3

LEMMA RecordFailureStep ==
  ASSUME SyncInv, NEW w \in Worker, RecordFailure(w)
  PROVE  SyncInv'
<1>1. CASE checkpoint.owner # w
  BY <1>1, LeavingStep DEF RecordFailure, Idle, SyncInv, TypeOK
<1>2. CASE checkpoint.owner = w
  <2>1. worker[w].run \in Run /\ runs \in [Run -> RunRow]
    BY DEF RecordFailure, At, SyncInv, TypeOK, PlaceOK
  <2>2. /\ runs' = [runs EXCEPT ![worker[w].run].state = IF @ = "RUNNING" THEN "FAILED" ELSE @]
        /\ checkpoint' = Released
        /\ worker' = [worker EXCEPT ![w] = Idle]
        /\ UNCHANGED <<pages, archive, curated, spent>>
    BY <1>2 DEF RecordFailure
  <2>3. /\ runs' \in [Run -> RunRow]
        /\ \A r \in Run : /\ runs'[r].target = runs[r].target
                          /\ runs[r].state # "NONE" => runs'[r].state # "NONE"
                          /\ runs'[r].state = "SUCCEEDED" => runs[r].state = "SUCCEEDED"
    BY <2>1, <2>2 DEF RunRow
  <2> QED
    BY <2>2, <2>3, ReleasedRow, ReleaseStep
<1> QED
  BY <1>1, <1>2

(* The lease is taken over: the new holder starts from the checkpoint, and *)
(* nobody else holds it any more.                                          *)
LEMMA SetupStep ==
  ASSUME SyncInv, NEW w \in Worker, Setup(w)
  PROVE  SyncInv'
<1>1. /\ worker \in [Worker -> WorkerState] /\ worker[w] \in WorkerState
      /\ worker[w].run \in Run /\ worker[w].target \in Partition
      /\ runs \in [Run -> RunRow]
      /\ checkpoint \in Checkpoint /\ checkpoint.watermark \in 0..LastPartition
  BY DEF SyncInv, TypeOK, PlaceOK, Setup, At, Checkpoint
<1>2. /\ checkpoint' = [checkpoint EXCEPT !.owner = w, !.expired = FALSE]
      /\ runs' = [runs EXCEPT ![worker[w].run] =
           [state |-> "RUNNING", target |-> worker[w].target,
            before |-> IF @.state = "NONE" THEN checkpoint.watermark ELSE @.before]]
      /\ worker' = [worker EXCEPT ![w].partition = checkpoint.watermark + 1,
                                  ![w].pc = Planned(w)]
      /\ UNCHANGED <<pages, archive, curated, spent>>
      /\ SpecificationFits(w) /\ runs[worker[w].run].state # "SUCCEEDED"
  BY DEF Setup
<1>3. /\ checkpoint' \in Checkpoint
      /\ checkpoint'.watermark = checkpoint.watermark /\ checkpoint'.active = checkpoint.active
      /\ checkpoint'.cursor = checkpoint.cursor /\ checkpoint'.owner = w
  BY <1>1, <1>2 DEF Checkpoint
<1>4. /\ runs' \in [Run -> RunRow]
      /\ runs'[worker[w].run].state = "RUNNING" /\ runs'[worker[w].run].target = worker[w].target
      /\ \A r \in Run : r # worker[w].run => runs'[r] = runs[r]
  BY <1>1, <1>2 DEF RunRow
<1>5. runs[worker[w].run].state # "NONE" => runs[worker[w].run].target = worker[w].target
  BY <1>2 DEF SpecificationFits
<1>6. /\ Planned(w) \in {"start", "finish", "failed"}
      /\ Planned(w) = "start" => checkpoint.watermark + 1 \in 1..worker[w].target
  BY <1>1 DEF Planned
<1>7. worker'[w] = [worker[w] EXCEPT !.partition = checkpoint.watermark + 1, !.pc = Planned(w)]
  BY <1>1, <1>2
<1>8. /\ worker'[w].pc = Planned(w) /\ worker'[w].run = worker[w].run
      /\ worker'[w].target = worker[w].target
      /\ worker'[w].partition = checkpoint.watermark + 1
      /\ worker'[w] \in WorkerState
      /\ \A v \in Worker : v # w => worker'[v] = worker[v]
      /\ worker' \in [Worker -> WorkerState]
  <2>1. checkpoint.watermark + 1 \in 0..(LastPartition + 1)
    BY <1>1
  <2>2. worker'[w] \in WorkerState
    BY <1>1, <1>6, <1>7, <2>1 DEF WorkerState
  <2> QED
    BY <1>1, <1>2, <1>7, <2>2 DEF WorkerState
<1>9. TypeOK'
  BY <1>2, <1>3, <1>4, <1>8 DEF SyncInv, TypeOK
<1>10. PlaceOK'
  <2> SUFFICES ASSUME NEW v \in Worker
               PROVE  /\ worker'[v].pc \notin {"idle", "dead"} =>
                           worker'[v].run \in Run /\ worker'[v].target \in Partition
                      /\ worker'[v].pc \in {"start"} \cup InLoop =>
                           worker'[v].partition \in 1..worker'[v].target
                      /\ worker'[v].pc \in InLoop =>
                           worker'[v].cursor < PageCount[worker'[v].partition]
                      /\ worker'[v].pc = "archive" => worker'[v].payload \in Payload
                      /\ worker'[v].pc \in Working =>
                           /\ runs'[worker'[v].run].state # "NONE"
                           /\ runs'[worker'[v].run].target = worker'[v].target
    BY DEF PlaceOK
  <2>1. CASE v = w
    <3>1. worker'[v].pc \notin InLoop /\ worker'[v].pc # "archive"
      BY <1>6, <1>8, <2>1 DEF InLoop
    <3>2. worker'[v].pc = "start" => worker'[v].partition \in 1..worker'[v].target
      BY <1>6, <1>8, <2>1
    <3> QED
      BY <1>1, <1>4, <1>8, <2>1, <3>1, <3>2
  <2>2. CASE v # w
    <3>1. worker'[v] = worker[v]
      BY <1>8, <2>2
    <3>2. worker[v].pc \in Working =>
            /\ worker[v].run \in Run
            /\ runs[worker[v].run].state # "NONE"
            /\ runs[worker[v].run].target = worker[v].target
      BY DEF SyncInv, PlaceOK, Working, InLoop
    <3>3. worker[v].pc \in Working =>
            /\ runs'[worker[v].run].state # "NONE"
            /\ runs'[worker[v].run].target = worker[v].target
      BY <1>4, <1>5, <3>2
    <3> QED
      BY <3>1, <3>3 DEF SyncInv, PlaceOK
  <2> QED
    BY <2>1, <2>2
<1>11. CheckpointOK'
  BY <1>3 DEF SyncInv, CheckpointOK
<1>12. HolderIsThere'
  BY <1>3, <1>6, <1>8 DEF HolderIsThere, InLoop
<1>13. SucceededIsBehind'
  BY <1>3, <1>4 DEF SyncInv, SucceededIsBehind
<1> QED
  BY <1>9, <1>10, <1>11, <1>12, <1>13 DEF SyncInv

LEMMA ExpireStep ==
  ASSUME SyncInv, Expire
  PROVE  SyncInv'
<1>1. /\ checkpoint \in Checkpoint
      /\ checkpoint' = [checkpoint EXCEPT !.expired = TRUE]
      /\ UNCHANGED <<runs, pages, archive, curated, worker>>
  BY DEF Expire, SyncInv, TypeOK
<1>2. /\ checkpoint' \in Checkpoint
      /\ checkpoint'.watermark = checkpoint.watermark /\ checkpoint'.active = checkpoint.active
      /\ checkpoint'.cursor = checkpoint.cursor /\ checkpoint'.owner = checkpoint.owner
  BY <1>1 DEF Checkpoint
<1>3. spent' \in [failures : 0..MaxFailures, crashes : 0..MaxCrashes, late : 0..MaxLateLeases]
  <2>1. \/ spent' = spent
        \/ spent.late < MaxLateLeases /\ spent' = [spent EXCEPT !.late = @ + 1]
    BY DEF Expire
  <2>2. spent \in [failures : 0..MaxFailures, crashes : 0..MaxCrashes, late : 0..MaxLateLeases]
    BY DEF SyncInv, TypeOK
  <2>3. CASE spent' = spent
    BY <2>2, <2>3
  <2>4. CASE spent.late < MaxLateLeases /\ spent' = [spent EXCEPT !.late = @ + 1]
    BY <2>2, <2>4
  <2> QED
    BY <2>1, <2>3, <2>4
<1>4. TypeOK'
  BY <1>1, <1>2, <1>3 DEF SyncInv, TypeOK
<1> QED
  BY <1>1, <1>2, <1>4
     DEF SyncInv, PlaceOK, CheckpointOK, HolderIsThere, SucceededIsBehind

(* What a commit that holds does: the page the checkpoint waits for is     *)
(* ingested, and checkpoint and instance both move to the next one.        *)
LEMMA CommitFacts ==
  ASSUME SyncInv, NEW w \in Worker, IngestAndCommit(w), CommitHolds(w)
  PROVE  /\ Here(w) \in Position
         /\ worker[w].partition \in Partition
         /\ worker[w].partition = checkpoint.watermark + 1
         /\ worker[w].cursor = checkpoint.cursor
         /\ worker[w].cursor \in 0..(PageCount[worker[w].partition] - 1)
         /\ PageCount[worker[w].partition] \in Nat \ {0}
         /\ checkpoint.owner = w /\ checkpoint'.owner = w
         /\ checkpoint' \in Checkpoint
         /\ IF IsFinal(Here(w))
              THEN /\ checkpoint'.watermark = worker[w].partition
                   /\ checkpoint'.active = 0 /\ checkpoint'.cursor = 0
              ELSE /\ checkpoint'.watermark = checkpoint.watermark
                   /\ checkpoint'.active = worker[w].partition
                   /\ checkpoint'.cursor = worker[w].cursor + 1
<1>1. /\ worker[w].pc = "commit" /\ worker[w].pc \in InLoop
      /\ checkpoint \in Checkpoint /\ checkpoint.owner = w
      /\ checkpoint' = Advanced(w)
  BY DEF IngestAndCommit, CommitHolds, At, SyncInv, TypeOK, InLoop
<1>2. /\ Here(w) \in Position /\ worker[w].run \in Run
      /\ worker[w].partition \in Partition
      /\ worker[w].cursor \in 0..(PageCount[worker[w].partition] - 1)
  BY <1>1, HereIsAPosition
<1>3. worker[w].partition = checkpoint.watermark + 1 /\ worker[w].cursor = checkpoint.cursor
  BY <1>1 DEF SyncInv, HolderIsThere
<1>4. worker[w].cursor + 1 \in Nat /\ worker[w].partition \in 0..LastPartition
  BY <1>2
<1>5. CASE IsFinal(Here(w))
  <2>1. checkpoint' = [[checkpoint EXCEPT !.progressRun = worker[w].run]
          EXCEPT !.watermark = worker[w].partition, !.active = 0, !.cursor = 0]
    BY <1>1, <1>5 DEF Advanced
  <2>2. /\ checkpoint'.watermark = worker[w].partition
        /\ checkpoint'.active = 0 /\ checkpoint'.cursor = 0
        /\ checkpoint'.owner = checkpoint.owner
    BY <1>1, <2>1 DEF Checkpoint
  <2>3. [checkpoint EXCEPT !.progressRun = worker[w].run] \in Checkpoint
    BY <1>1, <1>2 DEF Checkpoint
  <2>4. PICK row \in Checkpoint : row = [checkpoint EXCEPT !.progressRun = worker[w].run]
    BY <2>3
  <2>5. checkpoint' = [row EXCEPT !.watermark = worker[w].partition, !.active = 0, !.cursor = 0]
    BY <2>1, <2>4
  <2>6. [row EXCEPT !.watermark = worker[w].partition] \in Checkpoint
    BY <1>4, <2>4 DEF Checkpoint
  <2>7. PICK ahead \in Checkpoint : ahead = [row EXCEPT !.watermark = worker[w].partition]
    BY <2>6
  <2>8. checkpoint' = [ahead EXCEPT !.active = 0, !.cursor = 0]
    BY <2>5, <2>7
  <2>9. 0 \in 0..LastPartition
    BY DataSyncAssumption
  <2>10. [ahead EXCEPT !.active = 0] \in Checkpoint
    BY <2>7, <2>9 DEF Checkpoint
  <2>11. PICK clear \in Checkpoint : clear = [ahead EXCEPT !.active = 0]
    BY <2>10
  <2>12. checkpoint' = [clear EXCEPT !.cursor = 0]
    BY <2>8, <2>11
  <2>13. checkpoint' \in Checkpoint
    BY <2>11, <2>12 DEF Checkpoint
  <2> QED
    BY <1>1, <1>2, <1>3, <1>5, <2>2, <2>13
<1>6. CASE ~IsFinal(Here(w))
  <2>1. checkpoint' = [[checkpoint EXCEPT !.progressRun = worker[w].run]
          EXCEPT !.active = worker[w].partition, !.cursor = worker[w].cursor + 1]
    BY <1>1, <1>6 DEF Advanced
  <2> QED
    BY <1>1, <1>2, <1>3, <1>4, <1>6, <2>1 DEF Checkpoint
<1> QED
  BY <1>5, <1>6

LEMMA CommitStep ==
  ASSUME SyncInv, NEW w \in Worker, IngestAndCommit(w)
  PROVE  SyncInv'
<1>1. /\ worker[w].pc = "commit" /\ worker[w].pc \in InLoop /\ worker[w].pc \in Working
      /\ worker \in [Worker -> WorkerState] /\ worker[w] \in WorkerState
      /\ worker[w].run \in Run /\ worker[w].target \in Partition
      /\ worker[w].partition \in 1..worker[w].target
      /\ runs[worker[w].run].state # "NONE" /\ runs[worker[w].run].target = worker[w].target
  BY DEF IngestAndCommit, At, SyncInv, TypeOK, PlaceOK, InLoop, Working
<1>2. CASE ~CommitHolds(w)
  BY <1>1, <1>2, GiveUpStep DEF IngestAndCommit, SyncInv, TypeOK
<1>3. CASE CommitHolds(w)
  <2>1. /\ Here(w) \in Position
        /\ worker[w].partition = checkpoint.watermark + 1
        /\ worker[w].cursor = checkpoint.cursor
        /\ worker[w].cursor \in 0..(PageCount[worker[w].partition] - 1)
        /\ PageCount[worker[w].partition] \in Nat \ {0}
        /\ checkpoint.owner = w /\ checkpoint'.owner = w
        /\ checkpoint' \in Checkpoint /\ checkpoint \in Checkpoint
        /\ IF IsFinal(Here(w))
             THEN /\ checkpoint'.watermark = worker[w].partition
                  /\ checkpoint'.active = 0 /\ checkpoint'.cursor = 0
             ELSE /\ checkpoint'.watermark = checkpoint.watermark
                  /\ checkpoint'.active = worker[w].partition
                  /\ checkpoint'.cursor = worker[w].cursor + 1
    BY <1>3, CommitFacts DEF SyncInv, TypeOK
  <2>2. /\ curated' = [curated EXCEPT ![Here(w)] =
             [times |-> @.times + 1, payload |-> worker[w].payload]]
        /\ SetPage(w, [PageOf(w) EXCEPT !.state = "COMMITTED"])
        /\ worker' = [worker EXCEPT ![w] = NextPage(w)]
        /\ UNCHANGED <<runs, archive, spent>>
    BY <1>3 DEF IngestAndCommit
  <2>3. IsFinal(Here(w)) <=> worker[w].cursor = PageCount[worker[w].partition] - 1
    BY DEF IsFinal, Here
  <2>4. /\ worker'[w] = NextPage(w)
        /\ \A v \in Worker : v # w => worker'[v] = worker[v]
    BY <1>1, <2>2
  <2>5. /\ worker'[w] \in WorkerState
        /\ worker'[w].run = worker[w].run /\ worker'[w].target = worker[w].target
        /\ worker'[w].pc \in {"load", "start", "finish"}
        /\ worker'[w].pc = "load" =>
             /\ ~IsFinal(Here(w))
             /\ worker'[w].partition = worker[w].partition
             /\ worker'[w].cursor = worker[w].cursor + 1
        /\ worker'[w].pc = "start" =>
             /\ IsFinal(Here(w))
             /\ worker[w].partition < worker[w].target
             /\ worker'[w].partition = worker[w].partition + 1
    <3>1. CASE ~IsFinal(Here(w))
      <4>1. worker'[w] = [worker[w] EXCEPT !.cursor = @ + 1, !.pc = "load"]
        BY <2>4, <3>1 DEF NextPage
      <4>2. worker[w].cursor + 1 \in Nat
        BY <2>1
      <4>3. /\ worker'[w].pc = "load" /\ worker'[w].run = worker[w].run
            /\ worker'[w].target = worker[w].target
            /\ worker'[w].partition = worker[w].partition
            /\ worker'[w].cursor = worker[w].cursor + 1
        BY <1>1, <4>1 DEF WorkerState
      <4>4. "load" \in InLoop
        BY DEF InLoop
      <4>5. worker'[w] \in WorkerState
        BY <1>1, <4>1, <4>2, <4>4 DEF WorkerState
      <4> QED
        BY <3>1, <4>3, <4>5
    <3>2. CASE IsFinal(Here(w)) /\ worker[w].partition < worker[w].target
      <4>1. worker'[w] = [worker[w] EXCEPT !.partition = @ + 1, !.cursor = 0, !.pc = "start"]
        BY <2>4, <3>2 DEF NextPage
      <4>2. worker[w].partition + 1 \in 0..(LastPartition + 1)
        BY <1>1, <3>2
      <4>3. /\ worker'[w].pc = "start" /\ worker'[w].run = worker[w].run
            /\ worker'[w].target = worker[w].target
            /\ worker'[w].partition = worker[w].partition + 1
        BY <1>1, <4>1 DEF WorkerState
      <4>4. [worker[w] EXCEPT !.partition = @ + 1] \in WorkerState
        BY <1>1, <4>2 DEF WorkerState
      <4>5. PICK memory \in WorkerState : memory = [worker[w] EXCEPT !.partition = @ + 1]
        BY <4>4
      <4>6. worker'[w] = [memory EXCEPT !.cursor = 0, !.pc = "start"]
        BY <4>1, <4>5
      <4>7. [memory EXCEPT !.cursor = 0] \in WorkerState
        BY <4>5 DEF WorkerState
      <4>8. PICK next \in WorkerState : next = [memory EXCEPT !.cursor = 0]
        BY <4>7
      <4>9. worker'[w] = [next EXCEPT !.pc = "start"]
        BY <4>6, <4>8
      <4>10. worker'[w] \in WorkerState
        BY <4>8, <4>9 DEF WorkerState
      <4> QED
        BY <3>2, <4>3, <4>10
    <3>3. CASE IsFinal(Here(w)) /\ ~(worker[w].partition < worker[w].target)
      <4>1. worker'[w] = [worker[w] EXCEPT !.pc = "finish"]
        BY <2>4, <3>3 DEF NextPage
      <4> QED
        BY <1>1, <3>3, <4>1 DEF WorkerState, InLoop
    <3> QED
      BY <3>1, <3>2, <3>3
  <2>6. TypeOK'
    <3>1. pages' \in [Run -> [Position -> PageRow]]
      BY <1>1, <2>2, SetPageType
    <3>2. [times |-> curated[Here(w)].times + 1, payload |-> worker[w].payload]
            \in [times : Nat, payload : Payload \cup {None}]
      BY <1>1, <2>1 DEF SyncInv, TypeOK, WorkerState
    <3>3. curated' \in [Position -> [times : Nat, payload : Payload \cup {None}]]
      BY <2>1, <2>2, <3>2 DEF SyncInv, TypeOK
    <3>4. worker' \in [Worker -> WorkerState]
      BY <1>1, <2>2, <2>4, <2>5
    <3> QED
      BY <2>1, <2>2, <3>1, <3>3, <3>4 DEF SyncInv, TypeOK
  <2>7. worker[w].cursor + 1 < PageCount[worker[w].partition] \/ IsFinal(Here(w))
    BY <2>1, <2>3
  <2>8. PlaceOK'
    <3> SUFFICES ASSUME NEW v \in Worker
                 PROVE  /\ worker'[v].pc \notin {"idle", "dead"} =>
                             worker'[v].run \in Run /\ worker'[v].target \in Partition
                        /\ worker'[v].pc \in {"start"} \cup InLoop =>
                             worker'[v].partition \in 1..worker'[v].target
                        /\ worker'[v].pc \in InLoop =>
                             worker'[v].cursor < PageCount[worker'[v].partition]
                        /\ worker'[v].pc = "archive" => worker'[v].payload \in Payload
                        /\ worker'[v].pc \in Working =>
                             /\ runs[worker'[v].run].state # "NONE"
                             /\ runs[worker'[v].run].target = worker'[v].target
      BY <2>2 DEF PlaceOK
    <3>1. CASE v = w
      <4>1. worker'[v].pc \in InLoop => worker'[v].pc = "load"
        BY <2>5, <3>1 DEF InLoop
      <4>2. worker'[v].pc = "start" => worker'[v].partition \in 1..worker'[v].target
        BY <1>1, <2>5, <3>1
      <4> QED
        BY <1>1, <2>5, <2>7, <3>1, <4>1, <4>2
    <3>2. CASE v # w
      BY <2>4, <3>2 DEF SyncInv, PlaceOK
    <3> QED
      BY <3>1, <3>2
  <2>9. CheckpointOK'
    <3>1. CASE IsFinal(Here(w))
      BY <2>1, <3>1 DEF CheckpointOK
    <3>2. CASE ~IsFinal(Here(w))
      BY <2>1, <2>7, <3>2 DEF CheckpointOK, Checkpoint
    <3> QED
      BY <3>1, <3>2
  <2>10. HolderIsThere'
    <3>1. worker'[w].pc \in InLoop => worker'[w].pc = "load"
      BY <2>5 DEF InLoop
    <3>2. /\ worker'[w].pc \in {"start"} \cup InLoop =>
               worker'[w].partition = checkpoint'.watermark + 1
          /\ worker'[w].pc \in InLoop => worker'[w].cursor = checkpoint'.cursor
      BY <2>1, <2>5, <3>1
    <3> QED
      BY <2>1, <3>2 DEF HolderIsThere
  <2>11. SucceededIsBehind'
    <3>1. checkpoint'.watermark >= checkpoint.watermark
      BY <2>1 DEF Checkpoint
    <3>2. \A r \in Run : runs[r].target \in 0..LastPartition
      BY DEF SyncInv, TypeOK, RunRow
    <3> QED
      BY <2>1, <2>2, <3>1, <3>2 DEF SyncInv, SucceededIsBehind, Checkpoint
  <2> QED
    BY <2>6, <2>8, <2>9, <2>10, <2>11 DEF SyncInv
<1> QED
  BY <1>2, <1>3

(* Whatever an instance or time does, the invariant is kept.               *)
LEMMA SyncStep == SyncInv /\ [Next]_vars => SyncInv'
<1> SUFFICES ASSUME SyncInv, [Next]_vars PROVE SyncInv'
  OBVIOUS
<1>1. CASE UNCHANGED vars
  BY <1>1 DEF vars, SyncInv, TypeOK, PlaceOK, CheckpointOK, HolderIsThere, SucceededIsBehind
<1>2. CASE \E w \in Worker : Work(w) \/ TransactionFails(w) \/ Crash(w)
  <2>1. PICK w \in Worker : Work(w) \/ TransactionFails(w) \/ Crash(w)
    BY <1>2
  <2>2. CASE SetupFindsSuccess(w) \/ Setup(w)
    BY <2>2, SetupFindsSuccessStep, SetupStep
  <2>3. CASE StartPartition(w) \/ IngestAndCommit(w)
    BY <2>3, StartStep, CommitStep
  <2>4. CASE Finish(w) \/ RecordFailure(w)
    BY <2>4, FinishStep, RecordFailureStep
  <2>5. CASE SetupRefused(w) \/ TransactionFails(w) \/ Crash(w)
    BY <2>5, OtherMemorySteps
  <2>6. CASE \/ LoadArchived(w) \/ PrepareFetch(w) \/ Fetch(w) \/ FetchFails(w)
             \/ RecordFetchFailure(w) \/ Archive(w) \/ Decode(w) \/ DecodeFails(w)
    BY <2>6, LoopStep
  <2> QED
    BY <2>1, <2>2, <2>3, <2>4, <2>5, <2>6 DEF Work
<1>3. CASE \E w \in Worker, request \in Request : Begin(w, request)
  BY <1>3, BeginStep
<1>4. CASE Expire
  BY <1>4, ExpireStep
<1> QED
  BY <1>1, <1>2, <1>3, <1>4 DEF Next

(* Every variable keeps its type.                                          *)
THEOREM DataSyncTypeOK == Spec => []TypeOK
<1>1. Init => SyncInv
  BY SyncInit
<1>2. SyncInv /\ [Next]_vars => SyncInv'
  BY SyncStep
<1>3. SyncInv => TypeOK
  BY DEF SyncInv
<1> QED
  BY <1>1, <1>2, <1>3, PTL DEF Spec

(* Only a commit that holds moves what the checkpoint and the curated      *)
(* records say; every other step leaves both.                              *)
LEMMA ProgressMovesByCommit ==
  ASSUME SyncInv, [Next]_vars,
         ~\E w \in Worker : IngestAndCommit(w) /\ CommitHolds(w)
  PROVE  /\ curated' = curated
         /\ checkpoint'.watermark = checkpoint.watermark
         /\ checkpoint'.active = checkpoint.active
         /\ checkpoint'.cursor = checkpoint.cursor
<1>1. CASE UNCHANGED vars
  BY <1>1 DEF vars
<1>2. CASE \E w \in Worker : Work(w) \/ TransactionFails(w) \/ Crash(w)
  <2>1. PICK w \in Worker : Work(w) \/ TransactionFails(w) \/ Crash(w)
    BY <1>2
  <2>2. CASE SetupFindsSuccess(w)
    <3>1. worker[w].run \in Run
      BY <2>2 DEF SetupFindsSuccess, At, SyncInv, PlaceOK
    <3> QED
      BY <2>2, <3>1, ReleasedRow DEF SetupFindsSuccess
  <2>3. CASE Setup(w)
    <3>1. checkpoint \in Checkpoint
      BY DEF SyncInv, TypeOK
    <3> QED
      BY <2>3, <3>1 DEF Setup, Checkpoint
  <2>4. CASE IngestAndCommit(w)
    BY <2>1, <2>4 DEF IngestAndCommit
  <2>5. CASE Finish(w)
    <3>1. worker[w].run \in Run
      BY <2>5 DEF Finish, At, SyncInv, PlaceOK
    <3> QED
      BY <2>5, <3>1, ReleasedRow DEF Finish
  <2>6. CASE RecordFailure(w)
    BY <2>6, ReleasedRow DEF RecordFailure
  <2>7. CASE UNCHANGED <<checkpoint, curated>>
    BY <2>7
  <2> QED
    BY <2>1, <2>2, <2>3, <2>4, <2>5, <2>6, <2>7
       DEF Work, SetupRefused, TransactionFails, Crash, StartPartition, LoadArchived,
           PrepareFetch, Fetch, FetchFails, RecordFetchFailure, Archive, Decode, DecodeFails
<1>3. CASE \E w \in Worker, request \in Request : Begin(w, request)
  BY <1>3 DEF Begin
<1>4. CASE Expire
  <2>1. checkpoint \in Checkpoint
    BY DEF SyncInv, TypeOK
  <2> QED
    BY <1>4, <2>1 DEF Expire, Checkpoint
<1> QED
  BY <1>1, <1>2, <1>3, <1>4 DEF Next

LEMMA ProgressStep == SyncInv /\ ProgressIsExact /\ [Next]_vars => ProgressIsExact'
<1> SUFFICES ASSUME SyncInv, ProgressIsExact, [Next]_vars PROVE ProgressIsExact'
  OBVIOUS
<1>1. CASE ~\E w \in Worker : IngestAndCommit(w) /\ CommitHolds(w)
  <2>1. /\ curated' = curated
        /\ checkpoint'.watermark = checkpoint.watermark
        /\ checkpoint'.active = checkpoint.active
        /\ checkpoint'.cursor = checkpoint.cursor
    BY <1>1, ProgressMovesByCommit
  <2> QED
    BY <2>1 DEF ProgressIsExact, Behind
<1>2. CASE \E w \in Worker : IngestAndCommit(w) /\ CommitHolds(w)
  <2>1. PICK w \in Worker : IngestAndCommit(w) /\ CommitHolds(w)
    BY <1>2
  <2>2. /\ Here(w) \in Position
        /\ worker[w].partition \in Partition
        /\ worker[w].partition = checkpoint.watermark + 1
        /\ worker[w].cursor = checkpoint.cursor
        /\ worker[w].cursor \in 0..(PageCount[worker[w].partition] - 1)
        /\ PageCount[worker[w].partition] \in Nat \ {0}
        /\ IF IsFinal(Here(w))
             THEN /\ checkpoint'.watermark = worker[w].partition
                  /\ checkpoint'.active = 0 /\ checkpoint'.cursor = 0
             ELSE /\ checkpoint'.watermark = checkpoint.watermark
                  /\ checkpoint'.active = worker[w].partition
                  /\ checkpoint'.cursor = worker[w].cursor + 1
    BY <2>1, CommitFacts
  <2>3. /\ checkpoint.watermark \in Nat /\ checkpoint.active \in {0, checkpoint.watermark + 1}
        /\ checkpoint.active = 0 => checkpoint.cursor = 0
    BY DEF SyncInv, TypeOK, Checkpoint, CheckpointOK
  <2>4. IsFinal(Here(w)) <=> worker[w].cursor = PageCount[worker[w].partition] - 1
    BY DEF IsFinal, Here
  <2>5. curated' = [curated EXCEPT ![Here(w)] =
          [times |-> @.times + 1, payload |-> worker[w].payload]]
    BY <2>1 DEF IngestAndCommit
  <2> SUFFICES ASSUME NEW pos \in Position
               PROVE  curated'[pos].times = IF Behind(pos)' THEN 1 ELSE 0
    BY DEF ProgressIsExact
  <2>6. PICK p \in Partition : \E c \in 0..(PageCount[p] - 1) : pos = <<p, c>>
    BY DEF Position
  <2>7. PICK c \in 0..(PageCount[p] - 1) : pos = <<p, c>>
    BY <2>6
  <2>8. p \in Nat /\ c \in Nat /\ p >= 1 /\ PageCount[p] \in Nat \ {0} /\ c <= PageCount[p] - 1
    BY <2>7
  <2>9. CASE pos = Here(w)
    <3>1. p = worker[w].partition /\ c = worker[w].cursor
      BY <2>7, <2>9 DEF Here
    <3>2. ~Behind(pos)
      BY <2>2, <2>3, <2>7, <2>8, <3>1 DEF Behind
    <3>3. Behind(pos)'
      BY <2>2, <2>3, <2>7, <2>8, <3>1 DEF Behind
    <3>4. curated[pos].times = 0
      BY <3>2 DEF ProgressIsExact
    <3>5. curated'[pos].times = curated[pos].times + 1
      BY <2>2, <2>5, <2>9 DEF SyncInv, TypeOK
    <3> QED
      BY <3>3, <3>4, <3>5
  <2>10. CASE pos # Here(w)
    <3>1. curated'[pos] = curated[pos]
      BY <2>2, <2>5, <2>10 DEF SyncInv, TypeOK
    <3>2. ~(p = worker[w].partition /\ c = worker[w].cursor)
      BY <2>7, <2>10 DEF Here
    <3>3. Behind(pos)' <=> Behind(pos)
      <4>1. Behind(pos) <=> \/ p <= checkpoint.watermark
                            \/ p = checkpoint.active /\ c < checkpoint.cursor
        BY <2>7 DEF Behind
      <4>2. Behind(pos)' <=> \/ p <= checkpoint'.watermark
                             \/ p = checkpoint'.active /\ c < checkpoint'.cursor
        BY <2>7 DEF Behind
      <4>3. CASE IsFinal(Here(w))
        <5>1. p = worker[w].partition => c < checkpoint.cursor
          BY <2>2, <2>4, <2>8, <3>2, <4>3
        <5> QED
          BY <2>2, <2>3, <2>8, <4>1, <4>2, <4>3, <5>1
      <4>4. CASE ~IsFinal(Here(w))
        <5>1. /\ checkpoint.cursor \in Nat /\ checkpoint.cursor = worker[w].cursor
              /\ checkpoint'.watermark = checkpoint.watermark
              /\ checkpoint'.active = checkpoint.watermark + 1
              /\ checkpoint'.cursor = checkpoint.cursor + 1
          BY <2>2, <4>4
        <5>2. CASE p = checkpoint.watermark + 1
          <6>1. c # checkpoint.cursor
            BY <2>2, <3>2, <5>1, <5>2
          <6>2. c < checkpoint.cursor + 1 <=> c < checkpoint.cursor
            BY <2>8, <5>1, <6>1
          <6>3. ~(p <= checkpoint.watermark)
            BY <2>3, <5>2
          <6>4. c < checkpoint.cursor => checkpoint.active = p
            BY <2>3, <2>8, <5>1, <5>2
          <6> QED
            BY <4>1, <4>2, <5>1, <5>2, <6>2, <6>3, <6>4
        <5>3. CASE p # checkpoint.watermark + 1
          BY <2>3, <2>8, <4>1, <4>2, <5>1, <5>3
        <5> QED
          BY <5>2, <5>3
      <4> QED
        BY <4>3, <4>4
    <3> QED
      BY <3>1, <3>3 DEF ProgressIsExact
  <2> QED
    BY <2>9, <2>10
<1> QED
  BY <1>1, <1>2

(* Every page behind the checkpoint was ingested exactly once, and no      *)
(* other page at all, however many instances took the lease from each      *)
(* other, failed or died on the way.                                       *)
THEOREM DataSyncProgressIsExact == Spec => []ProgressIsExact
<1>1. Init => SyncInv /\ ProgressIsExact
  BY SyncInit
<1>2. SyncInv /\ ProgressIsExact /\ [Next]_vars => (SyncInv /\ ProgressIsExact)'
  BY SyncStep, ProgressStep
<1> QED
  BY <1>1, <1>2, PTL DEF Spec

(* A run that succeeded has every record up to its target, once.           *)
THEOREM DataSyncSucceededIsComplete == Spec => []SucceededIsComplete
<1>1. Init => SyncInv /\ ProgressIsExact
  BY SyncInit
<1>2. SyncInv /\ ProgressIsExact /\ [Next]_vars => (SyncInv /\ ProgressIsExact)'
  BY SyncStep, ProgressStep
<1>3. SyncInv /\ ProgressIsExact => SucceededIsComplete
  <2> SUFFICES ASSUME SyncInv, ProgressIsExact,
                      NEW r \in Run, runs[r].state = "SUCCEEDED",
                      NEW pos \in Position, pos[1] <= runs[r].target
               PROVE  curated[pos].times = 1
    BY DEF SucceededIsComplete
  <2>1. runs[r].target <= checkpoint.watermark
    BY DEF SyncInv, SucceededIsBehind
  <2>2. /\ runs[r].target \in Int /\ checkpoint.watermark \in Int
    BY DEF SyncInv, TypeOK, RunRow, Checkpoint
  <2>3. pos[1] \in Int
    BY DEF Position
  <2>4. Behind(pos)
    BY <2>1, <2>2, <2>3 DEF Behind
  <2> QED
    BY <2>4 DEF ProgressIsExact
<1> QED
  BY <1>1, <1>2, <1>3, PTL DEF Spec

-----------------------------------------------------------------------------
(* A step changes the memory of one instance at most.                      *)
LEMMA OneInstanceMoves ==
  ASSUME SyncInv, NEW w \in Worker,
         Work(w) \/ TransactionFails(w) \/ Crash(w)
         \/ \E request \in Request : Begin(w, request)
  PROVE  \A u \in Worker \ {w} : worker'[u] = worker[u]
<1>1. worker \in [Worker -> WorkerState]
  BY DEF SyncInv, TypeOK
<1>2. CASE Work(w)
  BY <1>1, <1>2 DEF Work, SetupRefused, SetupFindsSuccess, Setup, StartPartition,
       LoadArchived, PrepareFetch, Fetch, FetchFails, RecordFetchFailure, Archive, Decode,
       DecodeFails, IngestAndCommit, Finish, RecordFailure, Goto, Fail
<1>3. CASE TransactionFails(w) \/ Crash(w) \/ \E request \in Request : Begin(w, request)
  BY <1>1, <1>3 DEF TransactionFails, Crash, Begin
<1> QED
  BY <1>2, <1>3

(* What LeaseIsFenced says of one step.                                    *)
Fenced ==
  \A w \in Worker :
    /\ checkpoint.owner = w /\ ~checkpoint.expired /\ checkpoint'.owner # w =>
         worker[w].pc # "idle" /\ worker'[w].pc = "idle"
    /\ worker'[w] # worker[w] /\ checkpoint.owner \notin {None, w} /\ ~checkpoint.expired =>
         UNCHANGED <<checkpoint, runs, curated>>

(* A working instance changes what the lease protects only while the lease *)
(* is its own, free or over.                                               *)
LEMMA WorkIsFenced ==
  ASSUME SyncInv, NEW w \in Worker, Work(w)
  PROVE  Fenced
<1>1. worker \in [Worker -> WorkerState] /\ checkpoint \in Checkpoint
  BY DEF SyncInv, TypeOK
<1>2. \A u \in Worker \ {w} : worker'[u] = worker[u]
  BY OneInstanceMoves
<1>3. CASE checkpoint.owner \in {None, w} \/ checkpoint.expired
  <2>1. ASSUME NEW u \in Worker, checkpoint.owner = u, ~checkpoint.expired, checkpoint'.owner # u
        PROVE  worker[u].pc # "idle" /\ worker'[u].pc = "idle"
    <3>1. u = w
      BY <1>3, <2>1
    <3>2. CASE SetupFindsSuccess(w) \/ Finish(w) \/ RecordFailure(w)
      BY <1>1, <2>1, <3>1, <3>2
         DEF SetupFindsSuccess, Finish, RecordFailure, At, Goto, Idle, Blank
    <3>3. CASE Setup(w)
      BY <1>1, <2>1, <3>1, <3>3 DEF Setup, Checkpoint
    <3>4. CASE IngestAndCommit(w)
      BY <1>1, <2>1, <3>4 DEF IngestAndCommit, Advanced, Checkpoint
    <3>5. CASE UNCHANGED checkpoint
      BY <2>1, <3>5
    <3> QED
      BY <3>2, <3>3, <3>4, <3>5
         DEF Work, SetupRefused, StartPartition, LoadArchived, PrepareFetch, Fetch, FetchFails,
             RecordFetchFailure, Archive, Decode, DecodeFails
  <2>2. ASSUME NEW u \in Worker, worker'[u] # worker[u],
               checkpoint.owner \notin {None, u}, ~checkpoint.expired
        PROVE  FALSE
    BY <1>2, <1>3, <2>2
  <2> QED
    BY <2>1, <2>2 DEF Fenced
<1>4. CASE checkpoint.owner \notin {None, w} /\ ~checkpoint.expired
  <2>1. ~LeaseFree(w) /\ ~CommitHolds(w) /\ ~FinishHolds(w)
    BY <1>4 DEF LeaseFree, CommitHolds, FinishHolds
  <2>2. UNCHANGED <<checkpoint, runs, curated>>
    BY <1>4, <2>1
       DEF Work, SetupRefused, SetupFindsSuccess, Setup, StartPartition, LoadArchived,
           PrepareFetch, Fetch, FetchFails, RecordFetchFailure, Archive, Decode, DecodeFails,
           IngestAndCommit, Finish, RecordFailure
  <2> QED
    BY <2>2 DEF Fenced
<1> QED
  BY <1>3, <1>4

(* The lease fences (LeaseIsFenced of DataSync), for any number of         *)
(* instances: a live lease is given up only by its holder, and an instance *)
(* the lease has passed from moves neither the checkpoint, nor a run, nor  *)
(* what is curated.                                                        *)
THEOREM DataSyncLeaseIsFenced == Spec => LeaseIsFenced
<1>1. ASSUME SyncInv, [Next]_vars PROVE [Fenced]_vars
  <2>1. CASE UNCHANGED vars
    BY <2>1
  <2>2. CASE \E w \in Worker : Work(w)
    BY <1>1, <2>2, WorkIsFenced
  <2>3. CASE UNCHANGED <<checkpoint, runs, curated>>
    BY <2>3 DEF Fenced
  <2>4. CASE Expire
    <3>1. checkpoint'.owner = checkpoint.owner /\ worker' = worker
      BY <1>1, <2>4 DEF Expire, SyncInv, TypeOK, Checkpoint
    <3> QED
      BY <3>1 DEF Fenced
  <2> QED
    BY <1>1, <2>1, <2>2, <2>3, <2>4 DEF Next, TransactionFails, Crash, Begin
<1>2. Init => SyncInv
  BY SyncInit
<1>3. SyncInv /\ [Next]_vars => SyncInv'
  BY SyncStep
<1>4. [][Fenced]_vars => LeaseIsFenced
  BY PTL DEF Fenced, LeaseIsFenced
<1> QED
  BY <1>1, <1>2, <1>3, <1>4, PTL DEF Spec

-----------------------------------------------------------------------------
(* What an instance is about to decode or commit is in the archive.        *)
HandsAreArchived ==
  \A w \in Worker : worker[w].pc \in {"decode", "commit"} =>
    <<Here(w), worker[w].payload>> \in archive

RawInv == RawBeforeCurated /\ HandsAreArchived

(* Steps that touch neither archive nor curated records, leave every page  *)
(* out of FETCHED and COMMITTED or as it was, and bring the instance that  *)
(* moves to no decode or commit it was not at.                             *)
LEMMA QuietStep ==
  ASSUME SyncInv, RawInv, NEW w \in Worker,
         UNCHANGED <<archive, curated>>,
         \A u \in Worker \ {w} : worker'[u] = worker[u],
         \/ worker'[w].pc \notin {"decode", "commit"}
         \/ /\ worker[w].pc \in {"decode", "commit"}
            /\ worker'[w].partition = worker[w].partition
            /\ worker'[w].cursor = worker[w].cursor
            /\ worker'[w].payload = worker[w].payload,
         \A r \in Run, pos \in Position :
           \/ pages'[r][pos] = pages[r][pos]
           \/ pages'[r][pos].state \notin {"FETCHED", "COMMITTED"}
  PROVE  RawInv'
<1>1. RawBeforeCurated'
  BY DEF RawInv, RawBeforeCurated
<1>2. HandsAreArchived'
  <2> SUFFICES ASSUME NEW u \in Worker, worker'[u].pc \in {"decode", "commit"}
               PROVE  <<Here(u)', worker'[u].payload>> \in archive'
    BY DEF HandsAreArchived
  <2>1. /\ worker[u].pc \in {"decode", "commit"}
        /\ worker'[u].partition = worker[u].partition
        /\ worker'[u].cursor = worker[u].cursor
        /\ worker'[u].payload = worker[u].payload
    OBVIOUS
  <2> QED
    BY <2>1 DEF RawInv, HandsAreArchived, Here
<1> QED
  BY <1>1, <1>2 DEF RawInv

(* What the page in hand becomes leaves the other pages alone.             *)
LEMMA OnePageMoves ==
  ASSUME SyncInv, NEW w \in Worker, worker[w].pc \in InLoop, NEW page, SetPage(w, page)
  PROVE  /\ pages'[worker[w].run][Here(w)] = page
         /\ \A r \in Run, pos \in Position :
              \/ pages'[r][pos] = pages[r][pos]
              \/ r = worker[w].run /\ pos = Here(w)
<1>1. pages \in [Run -> [Position -> PageRow]]
  BY DEF SyncInv, TypeOK
<1>2. Here(w) \in Position /\ worker[w].run \in Run
  BY HereIsAPosition
<1> QED
  BY <1>1, <1>2 DEF SetPage

(* The steps of an instance that neither archive nor commit a page.        *)
LEMMA QuietWork ==
  ASSUME SyncInv, RawInv, NEW w \in Worker,
         \/ SetupRefused(w) \/ SetupFindsSuccess(w) \/ Setup(w) \/ StartPartition(w)
         \/ Fetch(w) \/ FetchFails(w) \/ Decode(w) \/ DecodeFails(w)
         \/ Finish(w) \/ RecordFailure(w) \/ TransactionFails(w) \/ Crash(w)
         \/ \E request \in Request : Begin(w, request)
  PROVE  RawInv'
<1>1. worker \in [Worker -> WorkerState]
  BY DEF SyncInv, TypeOK
<1>2. \A u \in Worker \ {w} : worker'[u] = worker[u]
  BY OneInstanceMoves DEF Work
<1>3. UNCHANGED <<pages, archive, curated>>
  BY DEF SetupRefused, SetupFindsSuccess, Setup, StartPartition, Fetch, FetchFails, Decode,
         DecodeFails, Finish, RecordFailure, TransactionFails, Crash, Begin
<1>4. CASE Decode(w)
  <2>1. /\ worker[w].pc = "decode"
        /\ worker'[w].partition = worker[w].partition
        /\ worker'[w].cursor = worker[w].cursor
        /\ worker'[w].payload = worker[w].payload
    BY <1>1, <1>4 DEF Decode, At
  <2> QED
    BY <1>2, <1>3, <2>1, QuietStep
<1>5. CASE ~Decode(w)
  <2>1. worker'[w].pc \notin {"decode", "commit"}
    <3>1. CASE Setup(w)
      BY <1>1, <3>1 DEF Setup, Planned
    <3>2. CASE StartPartition(w)
      BY <1>1, <3>2 DEF StartPartition, WorkerState
    <3>6. CASE Fetch(w)
      <4>1. PICK fetched \in Payload :
              worker' = [worker EXCEPT ![w].payload = fetched, ![w].pc = "archive"]
        BY <3>6 DEF Fetch
      <4> QED
        BY <1>1, <4>1 DEF WorkerState
    <3>3. CASE FetchFails(w) \/ DecodeFails(w) \/ TransactionFails(w)
      BY <1>1, <3>3 DEF FetchFails, DecodeFails, TransactionFails, Fail, Goto, Idle, Blank, WorkerState
    <3>4. CASE Finish(w) \/ RecordFailure(w) \/ SetupRefused(w) \/ SetupFindsSuccess(w)
      BY <1>1, <3>4
         DEF Finish, RecordFailure, SetupRefused, SetupFindsSuccess, Goto, Idle, Blank, WorkerState
    <3>5. CASE Crash(w) \/ \E request \in Request : Begin(w, request)
      BY <1>1, <3>5 DEF Crash, Begin, Blank
    <3> QED
      BY <1>5, <3>1, <3>2, <3>3, <3>4, <3>5, <3>6
  <2> QED
    BY <1>2, <1>3, <2>1, QuietStep
<1> QED
  BY <1>4, <1>5

(* The steps that move a page out of FETCHED and COMMITTED, or none.       *)
LEMMA FetchWork ==
  ASSUME SyncInv, RawInv, NEW w \in Worker, PrepareFetch(w) \/ RecordFetchFailure(w)
  PROVE  RawInv'
<1>1. worker \in [Worker -> WorkerState]
  BY DEF SyncInv, TypeOK
<1>2. \A u \in Worker \ {w} : worker'[u] = worker[u]
  BY OneInstanceMoves DEF Work
<1>3. UNCHANGED <<archive, curated>> /\ worker[w].pc \in InLoop
  BY DEF PrepareFetch, RecordFetchFailure, At, InLoop
<1>4. worker'[w].pc \notin {"decode", "commit"}
  BY <1>1 DEF PrepareFetch, RecordFetchFailure, Goto, WorkerState
<1>5. PageOf(w) \in PageRow
  BY <1>3, HereIsAPosition
<1>6. \A r \in Run, pos \in Position :
        \/ pages'[r][pos] = pages[r][pos]
        \/ pages'[r][pos].state \notin {"FETCHED", "COMMITTED"}
  <2>1. CASE UNCHANGED pages
    BY <2>1
  <2>2. CASE \E s \in {"FETCHING", "FAILED"} : SetPage(w, [PageOf(w) EXCEPT !.state = s])
    <3>1. PICK s \in {"FETCHING", "FAILED"} : SetPage(w, [PageOf(w) EXCEPT !.state = s])
      BY <2>2
    <3> DEFINE page == [PageOf(w) EXCEPT !.state = s]
    <3>2. page.state \notin {"FETCHED", "COMMITTED"}
      BY <1>5 DEF PageRow
    <3>3. SetPage(w, page)
      BY <3>1
    <3> HIDE DEF page
    <3>4. /\ pages'[worker[w].run][Here(w)] = page
          /\ \A r \in Run, pos \in Position :
               \/ pages'[r][pos] = pages[r][pos]
               \/ r = worker[w].run /\ pos = Here(w)
      BY <1>3, <3>3, OnePageMoves
    <3> QED
      BY <3>2, <3>4
  <2> QED
    BY <2>1, <2>2 DEF PrepareFetch, RecordFetchFailure
<1> QED
  BY <1>2, <1>3, <1>4, <1>6, QuietStep

(* Loading an archived page takes its payload from the page row.           *)
LEMMA LoadWork ==
  ASSUME SyncInv, RawInv, NEW w \in Worker, LoadArchived(w)
  PROVE  RawInv'
<1>1. worker \in [Worker -> WorkerState] /\ worker[w].pc \in InLoop
  BY DEF SyncInv, TypeOK, LoadArchived, At, InLoop
<1>2. \A u \in Worker \ {w} : worker'[u] = worker[u]
  BY OneInstanceMoves DEF Work
<1>3. UNCHANGED <<pages, archive, curated>>
  BY DEF LoadArchived
<1>4. CASE PageOf(w).state = "FETCHED"
  <2>1. /\ worker'[w].payload = PageOf(w).payload
        /\ worker'[w].partition = worker[w].partition
        /\ worker'[w].cursor = worker[w].cursor
    BY <1>1, <1>4 DEF LoadArchived
  <2>2. <<Here(w), PageOf(w).payload>> \in archive
    BY <1>1, <1>4, HereIsAPosition DEF RawInv, RawBeforeCurated, PageOf
  <2>3. Here(w)' = Here(w)
    BY <2>1 DEF Here
  <2>4. HandsAreArchived'
    <3> SUFFICES ASSUME NEW u \in Worker, worker'[u].pc \in {"decode", "commit"}
                 PROVE  <<Here(u)', worker'[u].payload>> \in archive'
      BY DEF HandsAreArchived
    <3>1. CASE u = w
      BY <1>3, <2>1, <2>2, <2>3, <3>1
    <3>2. CASE u # w
      BY <1>2, <1>3, <3>2 DEF RawInv, HandsAreArchived, Here
    <3> QED
      BY <3>1, <3>2
  <2> QED
    BY <1>3, <2>4 DEF RawInv, RawBeforeCurated
<1>5. CASE PageOf(w).state # "FETCHED"
  <2>1. worker'[w].pc = "prepare"
    BY <1>1, <1>5 DEF LoadArchived
  <2> QED
    BY <1>2, <1>3, <2>1, QuietStep
<1> QED
  BY <1>4, <1>5

(* Archiving stores the payload in hand together with the page that names  *)
(* it.                                                                     *)
LEMMA ArchiveWork ==
  ASSUME SyncInv, RawInv, NEW w \in Worker, Archive(w)
  PROVE  RawInv'
<1>1. worker \in [Worker -> WorkerState] /\ worker[w].pc \in InLoop
  BY DEF SyncInv, TypeOK, Archive, At, InLoop
<1>2. \A u \in Worker \ {w} : worker'[u] = worker[u]
  BY OneInstanceMoves DEF Work
<1>3. CASE PageOf(w).state = "FETCHING"
  <2> DEFINE page == [state |-> "FETCHED", payload |-> worker[w].payload]
  <2>1. /\ archive' = archive \cup {<<Here(w), worker[w].payload>>}
        /\ UNCHANGED curated
        /\ SetPage(w, page)
    BY <1>3 DEF Archive
  <2>2. /\ worker'[w].payload = worker[w].payload
        /\ worker'[w].partition = worker[w].partition
        /\ worker'[w].cursor = worker[w].cursor
    <3>1. worker' = [worker EXCEPT ![w].pc = "decode"]
      BY <1>3 DEF Archive, Goto
    <3> QED
      BY <1>1, <3>1 DEF WorkerState
  <2>3. Here(w)' = Here(w)
    BY <2>2 DEF Here
  <2>4. HandsAreArchived'
    <3> SUFFICES ASSUME NEW u \in Worker, worker'[u].pc \in {"decode", "commit"}
                 PROVE  <<Here(u)', worker'[u].payload>> \in archive'
      BY DEF HandsAreArchived
    <3>1. CASE u = w
      BY <2>1, <2>2, <2>3, <3>1
    <3>2. CASE u # w
      BY <1>2, <2>1, <3>2 DEF RawInv, HandsAreArchived, Here
    <3> QED
      BY <3>1, <3>2
  <2>5. ASSUME NEW r \in Run, NEW pos \in Position, pages'[r][pos].state \in {"FETCHED", "COMMITTED"}
        PROVE  <<pos, pages'[r][pos].payload>> \in archive'
    <3>1. /\ pages'[worker[w].run][Here(w)] = page
          /\ \/ pages'[r][pos] = pages[r][pos]
             \/ r = worker[w].run /\ pos = Here(w)
      BY <1>1, <2>1, OnePageMoves
    <3>2. CASE pages'[r][pos] = pages[r][pos]
      BY <2>1, <2>5, <3>2 DEF RawInv, RawBeforeCurated
    <3>3. CASE r = worker[w].run /\ pos = Here(w)
      BY <2>1, <3>1, <3>3
    <3> QED
      BY <3>1, <3>2, <3>3
  <2> QED
    BY <2>1, <2>4, <2>5 DEF RawInv, RawBeforeCurated
<1>4. CASE PageOf(w).state # "FETCHING"
  <2>1. worker'[w].pc = "failed" /\ UNCHANGED <<pages, archive, curated>>
    BY <1>1, <1>4 DEF Archive, Goto, WorkerState
  <2> QED
    BY <1>2, <2>1, QuietStep
<1> QED
  BY <1>3, <1>4

(* A commit curates the payload in hand, which is archived, and keeps the  *)
(* payload its page names.                                                 *)
LEMMA CommitWork ==
  ASSUME SyncInv, RawInv, NEW w \in Worker, IngestAndCommit(w)
  PROVE  RawInv'
<1>1. worker \in [Worker -> WorkerState] /\ worker[w].pc = "commit"
  BY DEF SyncInv, TypeOK, IngestAndCommit, At
<1>2. \A u \in Worker \ {w} : worker'[u] = worker[u]
  BY OneInstanceMoves DEF Work
<1>3. worker[w].pc \in InLoop
  BY <1>1 DEF InLoop
<1>4. CASE CommitHolds(w)
  <2> DEFINE page == [PageOf(w) EXCEPT !.state = "COMMITTED"]
  <2>1. /\ curated' = [curated EXCEPT ![Here(w)] =
              [times |-> @.times + 1, payload |-> worker[w].payload]]
        /\ SetPage(w, page)
        /\ worker' = [worker EXCEPT ![w] = NextPage(w)]
        /\ archive' = archive
    BY <1>4 DEF IngestAndCommit
  <2>2. <<Here(w), worker[w].payload>> \in archive
    BY <1>1 DEF RawInv, HandsAreArchived
  <2>3. page.payload = PageOf(w).payload /\ PageOf(w).state = "FETCHED"
    BY <1>3, <1>4, HereIsAPosition DEF PageRow, CommitHolds
  <2>4. <<Here(w), PageOf(w).payload>> \in archive
    BY <1>3, <2>3, HereIsAPosition DEF RawInv, RawBeforeCurated, PageOf
  <2>5. ASSUME NEW pos \in Position, curated'[pos].times > 0
        PROVE  <<pos, curated'[pos].payload>> \in archive'
    <3>1. curated \in [Position -> [times : Nat, payload : Payload \cup {None}]]
      BY DEF SyncInv, TypeOK
    <3>2. CASE pos = Here(w)
      BY <2>1, <2>2, <3>1, <3>2
    <3>3. CASE pos # Here(w)
      BY <2>1, <2>5, <3>1, <3>3 DEF RawInv, RawBeforeCurated
    <3> QED
      BY <3>2, <3>3
  <2>6. ASSUME NEW r \in Run, NEW pos \in Position, pages'[r][pos].state \in {"FETCHED", "COMMITTED"}
        PROVE  <<pos, pages'[r][pos].payload>> \in archive'
    <3>1. /\ pages'[worker[w].run][Here(w)] = page
          /\ \/ pages'[r][pos] = pages[r][pos]
             \/ r = worker[w].run /\ pos = Here(w)
      BY <1>3, <2>1, OnePageMoves
    <3>2. CASE pages'[r][pos] = pages[r][pos]
      BY <2>1, <2>6, <3>2 DEF RawInv, RawBeforeCurated
    <3>3. CASE r = worker[w].run /\ pos = Here(w)
      BY <2>1, <2>3, <2>4, <3>1, <3>3
    <3> QED
      BY <3>1, <3>2, <3>3
  <2>7. worker'[w].pc \notin {"decode", "commit"}
    BY <1>1, <2>1 DEF NextPage, WorkerState
  <2>8. HandsAreArchived'
    <3> SUFFICES ASSUME NEW u \in Worker, worker'[u].pc \in {"decode", "commit"}
                 PROVE  <<Here(u)', worker'[u].payload>> \in archive'
      BY DEF HandsAreArchived
    <3>1. worker'[u] = worker[u]
      BY <1>2, <2>7
    <3>2. Here(u)' = Here(u)
      BY <3>1 DEF Here
    <3>3. <<Here(u), worker[u].payload>> \in archive
      BY <3>1 DEF RawInv, HandsAreArchived
    <3>4. archive' = archive
      BY <2>1
    <3> QED
      BY <3>1, <3>2, <3>3, <3>4
  <2> QED
    BY <2>5, <2>6, <2>8 DEF RawInv, RawBeforeCurated
<1>5. CASE ~CommitHolds(w)
  <2>1. worker'[w].pc = "failed" /\ UNCHANGED <<pages, archive, curated>>
    BY <1>1, <1>5 DEF IngestAndCommit, Goto, WorkerState
  <2> QED
    BY <1>2, <2>1, QuietStep
<1> QED
  BY <1>4, <1>5

(* Raw first (RawBeforeCurated of DataSync), for any number of instances   *)
(* and any answers of the provider: what is curated, and what a page row   *)
(* says was fetched, is in the raw archive.                                *)
THEOREM DataSyncRawBeforeCurated == Spec => []RawBeforeCurated
<1>1. Init => SyncInv /\ RawInv
  BY SyncInit DEF Init, RawInv, RawBeforeCurated, HandsAreArchived, Idle, Blank
<1>2. ASSUME SyncInv, RawInv, [Next]_vars PROVE RawInv'
  <2>1. CASE UNCHANGED vars
    BY <1>2, <2>1 DEF vars, RawInv, RawBeforeCurated, HandsAreArchived, Here
  <2>2. CASE Expire
    BY <1>2, <2>2 DEF Expire, RawInv, RawBeforeCurated, HandsAreArchived, Here
  <2>3. ASSUME NEW w \in Worker,
               Work(w) \/ TransactionFails(w) \/ Crash(w)
               \/ \E request \in Request : Begin(w, request)
        PROVE  RawInv'
    BY <1>2, <2>3, QuietWork, FetchWork, LoadWork, ArchiveWork, CommitWork DEF Work
  <2> QED
    BY <1>2, <2>1, <2>2, <2>3 DEF Next
<1>3. SyncInv /\ [Next]_vars => SyncInv'
  BY SyncStep
<1>4. RawInv => RawBeforeCurated
  BY DEF RawInv
<1> QED
  BY <1>1, <1>2, <1>3, <1>4, PTL DEF Spec
-----------------------------------------------------------------------------
(* What OvertakenStaysFailed says of one step.                             *)
OvertakenFails ==
  \A r \in Run :
    (/\ runs[r].state = "FAILED"
     /\ checkpoint.progressRun \notin {None, r}
     /\ checkpoint.watermark > runs[r].before)
    => runs'[r].state = "FAILED"

(* A FAILED run leaves that state only through Setup, and Setup asks       *)
(* whether it may resume.                                                  *)
LEMMA OvertakenRunIsRefused == SyncInv /\ [Next]_vars => OvertakenFails
<1> SUFFICES ASSUME SyncInv, [Next]_vars, NEW r \in Run,
                    runs[r].state = "FAILED",
                    checkpoint.progressRun \notin {None, r},
                    checkpoint.watermark > runs[r].before
             PROVE  runs'[r].state = "FAILED"
  BY DEF OvertakenFails
<1>1. runs \in [Run -> RunRow] /\ checkpoint \in Checkpoint
  BY DEF SyncInv, TypeOK
<1>2. ~MayResume(r)
  <2>1. checkpoint.watermark \in Int /\ runs[r].before \in Int
    BY <1>1 DEF Checkpoint, RunRow
  <2> QED
    BY <2>1 DEF MayResume
<1>3. CASE \E w \in Worker : Setup(w) \/ Finish(w) \/ RecordFailure(w)
  <2>1. PICK w \in Worker : Setup(w) \/ Finish(w) \/ RecordFailure(w)
    BY <1>3
  <2>2. CASE Setup(w)
    <3>1. worker[w].run # r
      BY <1>2, <2>2 DEF Setup
    <3> QED
      BY <1>1, <2>2, <3>1 DEF Setup
  <2>3. CASE Finish(w)
    <3>1. CASE FinishHolds(w)
      <4>1. worker[w].run # r
        BY <3>1 DEF FinishHolds
      <4>2. runs' = [runs EXCEPT ![worker[w].run].state = "SUCCEEDED"]
        BY <2>3, <3>1 DEF Finish
      <4> QED
        BY <1>1, <4>1, <4>2
    <3>2. CASE ~FinishHolds(w)
      BY <2>3, <3>2 DEF Finish
    <3> QED
      BY <3>1, <3>2
  <2>4. CASE RecordFailure(w)
    <3>1. CASE checkpoint.owner = w
      <4>1. runs' = [runs EXCEPT ![worker[w].run].state =
                       IF @ = "RUNNING" THEN "FAILED" ELSE @]
        BY <2>4, <3>1 DEF RecordFailure
      <4>2. CASE worker[w].run = r
        BY <1>1, <4>1, <4>2 DEF RunRow
      <4>3. CASE worker[w].run # r
        BY <1>1, <4>1, <4>3
      <4> QED
        BY <4>2, <4>3
    <3>2. CASE checkpoint.owner # w
      BY <2>4, <3>2 DEF RecordFailure
    <3> QED
      BY <3>1, <3>2
  <2> QED
    BY <2>1, <2>2, <2>3, <2>4
<1>4. CASE UNCHANGED runs
  BY <1>4
<1> QED
  BY <1>3, <1>4
     DEF Next, vars, Work, TransactionFails, Crash, Begin, Expire, SetupRefused,
         SetupFindsSuccess, StartPartition, LoadArchived, PrepareFetch, Fetch, FetchFails,
         RecordFetchFailure, Archive, Decode, DecodeFails, IngestAndCommit

(* A failed run that another run has overtaken stays failed                *)
(* (OvertakenStaysFailed of DataSync), for any number of instances, runs   *)
(* and partitions, and for calls that share a key.                         *)
THEOREM DataSyncOvertakenStaysFailed == Spec => OvertakenStaysFailed
<1>1. Init => SyncInv
  BY SyncInit
<1>2. SyncInv /\ [Next]_vars => SyncInv'
  BY SyncStep
<1>3. SyncInv /\ [Next]_vars => [OvertakenFails]_vars
  BY OvertakenRunIsRefused
<1>4. [][OvertakenFails]_vars => OvertakenStaysFailed
  BY PTL DEF OvertakenFails, OvertakenStaysFailed
<1> QED
  BY <1>1, <1>2, <1>3, <1>4, PTL DEF Spec

-----------------------------------------------------------------------------
(* What ProgressNeverReverses says of one step.                            *)
OnlyForward ==
  /\ checkpoint'.watermark >= checkpoint.watermark
  /\ \A pos \in Position : curated[pos].times > 0 => curated'[pos] = curated[pos]
  /\ \A r \in Run, pos \in Position :
       pages[r][pos].state = "COMMITTED" => pages'[r][pos] = pages[r][pos]

(* A committed page is the page in hand of no step that writes one.        *)
LEMMA CommittedPagesStay ==
  ASSUME SyncInv, [Next]_vars, NEW r \in Run, NEW pos \in Position,
         pages[r][pos].state = "COMMITTED"
  PROVE  pages'[r][pos] = pages[r][pos]
<1>1. ASSUME NEW w \in Worker, worker[w].pc \in InLoop, PageOf(w).state # "COMMITTED",
             NEW page, SetPage(w, page)
      PROVE  pages'[r][pos] = pages[r][pos]
  BY <1>1, OnePageMoves DEF PageOf
<1>2. ASSUME NEW w \in Worker, PrepareFetch(w)
      PROVE  pages'[r][pos] = pages[r][pos]
  <2>1. worker[w].pc \in InLoop
    BY <1>2 DEF PrepareFetch, At, InLoop
  <2> QED
    BY <1>1, <1>2, <2>1 DEF PrepareFetch
<1>3. ASSUME NEW w \in Worker, RecordFetchFailure(w)
      PROVE  pages'[r][pos] = pages[r][pos]
  <2>1. worker[w].pc \in InLoop
    BY <1>3 DEF RecordFetchFailure, At, InLoop
  <2> QED
    BY <1>1, <1>3, <2>1 DEF RecordFetchFailure
<1>4. ASSUME NEW w \in Worker, Archive(w)
      PROVE  pages'[r][pos] = pages[r][pos]
  <2>1. worker[w].pc \in InLoop
    BY <1>4 DEF Archive, At, InLoop
  <2> QED
    BY <1>1, <1>4, <2>1 DEF Archive
<1>5. ASSUME NEW w \in Worker, IngestAndCommit(w)
      PROVE  pages'[r][pos] = pages[r][pos]
  <2>1. worker[w].pc \in InLoop
    BY <1>5 DEF IngestAndCommit, At, InLoop
  <2>2. CASE CommitHolds(w)
    BY <1>1, <1>5, <2>1, <2>2 DEF IngestAndCommit, CommitHolds
  <2>3. CASE ~CommitHolds(w)
    BY <1>5, <2>3 DEF IngestAndCommit
  <2> QED
    BY <2>2, <2>3
<1>6. CASE UNCHANGED pages
  BY <1>6
<1> QED
  BY <1>2, <1>3, <1>4, <1>5, <1>6
     DEF Next, vars, Work, TransactionFails, Crash, Begin, Expire, SetupRefused,
         SetupFindsSuccess, Setup, StartPartition, LoadArchived, Fetch, FetchFails,
         Decode, DecodeFails, Finish, RecordFailure

(* A commit that holds ingests the page the checkpoint waits for, and that *)
(* one was never ingested.                                                 *)
LEMMA CommitIngestsTheNext ==
  ASSUME SyncInv, ProgressIsExact, NEW w \in Worker, IngestAndCommit(w), CommitHolds(w)
  PROVE  /\ checkpoint'.watermark >= checkpoint.watermark
         /\ \A pos \in Position : curated[pos].times > 0 => curated'[pos] = curated[pos]
<1>1. /\ Here(w) \in Position
      /\ worker[w].partition = checkpoint.watermark + 1
      /\ worker[w].cursor = checkpoint.cursor
      /\ worker[w].cursor \in Int
      /\ checkpoint'.watermark \in {worker[w].partition, checkpoint.watermark}
  BY CommitFacts
<1>2. /\ checkpoint.watermark \in Int
      /\ checkpoint.active = 0 => checkpoint.cursor = 0
      /\ checkpoint.cursor \in Int
  BY DEF SyncInv, TypeOK, Checkpoint, CheckpointOK
<1>3. ~Behind(Here(w))
  <2>1. Here(w)[1] = checkpoint.watermark + 1 /\ Here(w)[2] = checkpoint.cursor
    BY <1>1 DEF Here
  <2> QED
    BY <1>2, <2>1 DEF Behind
<1>4. curated[Here(w)].times = 0
  BY <1>1, <1>3 DEF ProgressIsExact
<1>5. \A pos \in Position \ {Here(w)} : curated'[pos] = curated[pos]
  <2>1. curated \in [Position -> [times : Nat, payload : Payload \cup {None}]]
    BY DEF SyncInv, TypeOK
  <2>2. curated' = [curated EXCEPT ![Here(w)] =
          [times |-> @.times + 1, payload |-> worker[w].payload]]
    BY DEF IngestAndCommit
  <2> QED
    BY <2>1, <2>2
<1> QED
  BY <1>1, <1>2, <1>4, <1>5

(* Progress never reverses (ProgressNeverReverses of DataSync), for any    *)
(* number of instances, runs, partitions and pages: the watermark does not *)
(* go back, and what is curated or committed is not touched again.         *)
THEOREM DataSyncProgressNeverReverses == Spec => ProgressNeverReverses
<1>1. Init => SyncInv /\ ProgressIsExact
  BY SyncInit
<1>2. SyncInv /\ ProgressIsExact /\ [Next]_vars => SyncInv' /\ ProgressIsExact'
  BY SyncStep, ProgressStep
<1>3. SyncInv /\ ProgressIsExact /\ [Next]_vars => [OnlyForward]_vars
  <2> SUFFICES ASSUME SyncInv, ProgressIsExact, [Next]_vars PROVE OnlyForward
    OBVIOUS
  <2>1. checkpoint.watermark \in Int
    BY DEF SyncInv, TypeOK, Checkpoint
  <2>2. CASE \E w \in Worker : IngestAndCommit(w) /\ CommitHolds(w)
    BY <2>2, CommitIngestsTheNext, CommittedPagesStay DEF OnlyForward
  <2>3. CASE ~\E w \in Worker : IngestAndCommit(w) /\ CommitHolds(w)
    <3>1. curated' = curated /\ checkpoint'.watermark = checkpoint.watermark
      BY <2>3, ProgressMovesByCommit
    <3> QED
      BY <2>1, <3>1, CommittedPagesStay DEF OnlyForward
  <2> QED
    BY <2>2, <2>3
<1>4. [][OnlyForward]_vars => ProgressNeverReverses
  BY PTL DEF OnlyForward, ProgressNeverReverses
<1> QED
  BY <1>1, <1>2, <1>3, <1>4, PTL DEF Spec

HIDE DataSyncAssumption DEF Partition

-----------------------------------------------------------------------------
(* The market state and the streak of classifications behind it.           *)

(* A classification names one of the five states.                          *)
LEMMA ClassifyNames ==
  ASSUME NEW trend, NEW breadth, Classify(trend, breadth) # Refused
  PROVE  /\ Classify(trend, breadth).regime \in Regimes
         /\ Classify(trend, breadth).session = breadth.session
         /\ Classify(trend, breadth).version = trend.version
         /\ trend.version = breadth.version
         /\ Classify(trend, breadth).budget = RegimePolicy.budgets[Classify(trend, breadth).regime]
<1> DEFINE b == breadth.metrics
           score == ComponentScore(trend, b)
           total == Total(score)
           regime == SelectRegime(trend, b, total)
           supporting == Holding(EvidenceRules(regime, trend, b, score, total))
<1>1. regime \in Regimes
  <2> HIDE DEF total, b
  <2> QED
    BY DEF SelectRegime, Regimes
<1> HIDE DEF b, score, total, regime, supporting
<1>2. Aligned(trend, breadth)
  BY DEF Classify
<1>3. Classify(trend, breadth) =
        [session    |-> breadth.session,
         version    |-> trend.version,
         regime     |-> regime,
         score      |-> total,
         confidence |-> Confidence(regime, supporting),
         supporting |-> supporting,
         budget     |-> RegimePolicy.budgets[regime]]
  BY DEF Classify, b, score, total, regime, supporting
<1> QED
  BY <1>1, <1>2, <1>3 DEF Aligned

(* A change needs at least one session and at most as many as the history  *)
(* counts.                                                                 *)
LEMMA RequiredIs ==
  ASSUME NEW result
  PROVE  /\ RequiredSessions(result) \in Nat /\ RequiredSessions(result) >= 1
         /\ LongestStreak \in Nat /\ RequiredSessions(result) <= LongestStreak
<1> DEFINE c == TransitionPolicy.confirmation
           b == TransitionPolicy.bottom_confirmation
           s == TransitionPolicy.severe_confirmation
<1>1. c \in Nat /\ c >= 1 /\ b \in Nat /\ b >= 1 /\ s \in Nat /\ s >= 1 /\ s <= c
  BY RegimeTransitionsAssumption DEF ValidTransitionPolicy
<1>2. RequiredSessions(result) \in {c, b, s}
  BY DEF RequiredSessions
<1> HIDE DEF c, b, s
<1>3. \E m \in {c, b} : \A x \in {c, b} : m >= x
  BY <1>1
<1>4. PICK m \in {c, b} : m = Max({c, b}) /\ \A x \in {c, b} : m >= x
  BY <1>3 DEF Max
<1>5. LongestStreak = m
  BY <1>4 DEF LongestStreak, c, b
<1> QED
  BY <1>1, <1>2, <1>4, <1>5

(* What the engine has counted is what the sessions showed: a candidate is *)
(* the state that the latest confident sessions named, as often as they    *)
(* did, and a state they named that is not in effect is the candidate.     *)
StreakInv ==
  /\ streak.length \in Nat /\ streak.regime \in Regimes \cup {Missing}
  /\ streak.regime = Missing <=> streak.length = 0
  /\ regimes.current \in Regimes \cup {Missing}
  /\ regimes.current = Missing => streak.regime = Missing
  /\ regimes.candidate # Missing =>
       /\ regimes.candidate = streak.regime /\ regimes.candidate # regimes.current
       /\ regimes.count = streak.length /\ regimes.count < LongestStreak
  /\ streak.regime \notin {Missing, regimes.current} => regimes.candidate = streak.regime

(* What ClassifyMarket hands to the engine, and what the engine answers.   *)
LEMMA ClassifyTakes ==
  ASSUME NEW market, ClassifyMarket(market)
  PROVE  \E result :
           /\ result.regime \in Regimes /\ result.session = session /\ result.version = Version
           /\ result.budget = RegimePolicy.budgets[result.regime]
           /\ NextInSequence(regimes, result)
           /\ AcceptedDecision(Decision(regimes, result))
           /\ regimes' = [last |-> session, version |-> Version,
                          current |-> Decision(regimes, result).final,
                          candidate |-> Decision(regimes, result).candidate,
                          count |-> Decision(regimes, result).count,
                          required |-> Decision(regimes, result).required]
           /\ outcome' = [session |-> session, version |-> Version, raw |-> result,
                          final |-> Decision(regimes, result).final,
                          action |-> Decision(regimes, result).action]
           /\ streak' = Lengthened(result)
<1> DEFINE trend == [session |-> session, version |-> Version,
                     aggregate |-> market.trend.aggregate,
                     windows |-> market.trend.windows]
           breadth == [session |-> session, version |-> Version,
                       coverage |-> market.breadth.coverage,
                       historical_coverage |-> market.breadth.historical_coverage,
                       counts |-> market.breadth.counts,
                       metrics |-> market.breadth.metrics]
<1>1. PICK result \in {Classify(trend, breadth)} \ {Refused} :
        \E taken \in {Process(regimes, result)} \ {Refused} :
          regimes' = taken.engine /\ outcome' = taken.outcome /\ streak' = Lengthened(result)
  BY DEF ClassifyMarket
<1>2. trend.version = Version /\ breadth.session = session
  OBVIOUS
<1>3. result = Classify(trend, breadth) /\ result # Refused
  BY <1>1
<1> HIDE DEF trend, breadth
<1>4. /\ result.regime \in Regimes /\ result.session = session /\ result.version = Version
      /\ result.budget = RegimePolicy.budgets[result.regime]
  <2>1. Classify(trend, breadth) # Refused
    BY <1>3
  <2> QED
    BY <1>2, <1>3, <2>1, ClassifyNames
<1>5. Process(regimes, result) # Refused /\ regimes' = Process(regimes, result).engine
      /\ outcome' = Process(regimes, result).outcome /\ streak' = Lengthened(result)
  BY <1>1
<1>6. NextInSequence(regimes, result) /\ AcceptedDecision(Decision(regimes, result))
  BY <1>5 DEF Process
<1>7. Process(regimes, result) =
        [engine |-> [last |-> result.session, version |-> result.version,
                     current |-> Decision(regimes, result).final,
                     candidate |-> Decision(regimes, result).candidate,
                     count |-> Decision(regimes, result).count,
                     required |-> Decision(regimes, result).required],
         outcome |-> Stabilized(result, Decision(regimes, result))]
  BY <1>6 DEF Process
<1>8. outcome' = [session |-> session, version |-> Version, raw |-> result,
                  final |-> Decision(regimes, result).final,
                  action |-> Decision(regimes, result).action]
  BY <1>4, <1>5, <1>7 DEF Stabilized
<1>9. regimes' = [last |-> session, version |-> Version,
                  current |-> Decision(regimes, result).final,
                  candidate |-> Decision(regimes, result).candidate,
                  count |-> Decision(regimes, result).count,
                  required |-> Decision(regimes, result).required]
  BY <1>4, <1>5, <1>7
<1> QED
  BY <1>4, <1>5, <1>6, <1>8, <1>9

(* One confident or doubtful session, seen by the engine and the history.  *)
LEMMA StreakStep ==
  ASSUME StreakInv, NEW result, result.regime \in Regimes,
         AcceptedDecision(Decision(regimes, result)),
         regimes'.current = Decision(regimes, result).final,
         regimes'.candidate = Decision(regimes, result).candidate,
         regimes'.count = Decision(regimes, result).count,
         streak' = Lengthened(result)
  PROVE  /\ StreakInv'
         /\ regimes.current # Missing =>
              regimes'.current = IF streak'.length >= RequiredSessions(result)
                                 THEN streak'.regime ELSE regimes.current
<1> DEFINE r == result.regime
           required == RequiredSessions(result)
           d == Decision(regimes, result)
           confident == ~(result.confidence < TransitionPolicy.minimum_confidence)
<1>1. Missing \notin Regimes
  BY MarketRegimeAssumption
<1>2. required \in Nat /\ required >= 1 /\ LongestStreak \in Nat /\ required <= LongestStreak
  BY RequiredIs
<1>3. ~confident => streak'.regime = Missing /\ streak'.length = 0
  BY DEF Lengthened
<1>4. confident => /\ streak'.regime = r
                   /\ streak'.length = IF streak.regime = r
                                       THEN Min({streak.length + 1, LongestStreak}) ELSE 1
  BY DEF Lengthened
<1>5. Min({streak.length + 1, LongestStreak}) =
        IF streak.length + 1 <= LongestStreak THEN streak.length + 1 ELSE LongestStreak
  <2> DEFINE a == streak.length + 1
             S == {a, LongestStreak}
  <2>1. a \in Nat
    BY DEF StreakInv
  <2> HIDE DEF a
  <2>2. \E m \in S : \A x \in S : m <= x
    BY <1>2, <2>1
  <2>3. PICK m \in S : m = Min(S) /\ \A x \in S : m <= x
    BY <2>2 DEF Min
  <2>4. Min(S) = IF a <= LongestStreak THEN a ELSE LongestStreak
    BY <1>2, <2>1, <2>3
  <2> QED
    BY <2>4 DEF a
<1>6. CASE regimes.current = Missing
  <2>1. d.final = r /\ d.candidate = Missing /\ d.count = 0
    BY <1>6 DEF Decision, Settled
  <2>2. streak.regime = Missing
    BY <1>6 DEF StreakInv
  <2> HIDE DEF d, r, required, confident
  <2>3. r \in Regimes
    BY DEF r
  <2>4. streak'.regime \in {r, Missing} /\ streak'.length \in {0, 1}
        /\ (streak'.regime = Missing <=> streak'.length = 0)
    BY <1>1, <1>3, <1>4, <2>2, <2>3
  <2>5. regimes'.current = r /\ regimes'.candidate = Missing
    BY <2>1 DEF d
  <2> QED
    BY <1>6, <2>3, <2>4, <2>5 DEF StreakInv
<1>7. CASE regimes.current # Missing /\ regimes.current = r
  <2>1. d.final = regimes.current /\ d.candidate = Missing /\ d.count = 0
    BY <1>7 DEF Decision, Settled
  <2> HIDE DEF d, r, required, confident
  <2>2. r \in Regimes
    BY DEF r
  <2>3. streak.length \in Nat
    BY DEF StreakInv
  <2>4. /\ streak'.regime \in {r, Missing} /\ streak'.length \in Nat
        /\ (streak'.regime = Missing <=> streak'.length = 0)
    BY <1>1, <1>2, <1>3, <1>4, <1>5, <2>2, <2>3
  <2>5. regimes'.current = r /\ regimes'.candidate = Missing
    BY <1>7, <2>1 DEF d
  <2>6. StreakInv'
    BY <2>2, <2>4, <2>5 DEF StreakInv
  <2>7. regimes'.current = IF streak'.length >= required THEN streak'.regime ELSE regimes.current
    BY <1>2, <1>7, <2>4, <2>5
  <2> QED
    BY <2>6, <2>7 DEF required
<1>8. CASE regimes.current # Missing /\ regimes.current # r /\ ~confident
  <2>1. d.final = regimes.current /\ d.candidate = Missing /\ d.count = 0
    BY <1>8 DEF Decision, Settled
  <2> HIDE DEF d, r, required, confident
  <2>2. regimes'.current = regimes.current /\ regimes'.candidate = Missing
    BY <2>1 DEF d
  <2>3. StreakInv'
    BY <1>3, <1>8, <2>2 DEF StreakInv
  <2>4. regimes'.current = IF streak'.length >= required THEN streak'.regime ELSE regimes.current
    BY <1>2, <1>3, <1>8, <2>2
  <2> QED
    BY <2>3, <2>4 DEF required
<1>9. CASE regimes.current # Missing /\ regimes.current # r /\ confident
  <2> DEFINE count == Counted(regimes, result)
  <2>1. d = AdvancedTo(regimes, result)
    BY <1>9 DEF Decision
  <2>2. count = IF regimes.candidate = r THEN regimes.count + 1 ELSE 1
    BY DEF Counted
  <2>3. /\ count >= required => d.final = r /\ d.candidate = Missing
        /\ ~(count >= required) => d.final = regimes.current /\ d.candidate = r /\ d.count = count
    BY <2>1 DEF AdvancedTo, Settled
  <2> HIDE DEF d, r, required, confident, count
  <2>4. r \in Regimes
    BY DEF r
  <2>5. streak.regime = r <=> regimes.candidate = r
    BY <1>1, <1>9, <2>4 DEF StreakInv
  <2>6. streak'.regime = r /\ streak'.length = count /\ count \in Nat /\ count >= 1
    <3>1. CASE regimes.candidate = r
      <4>1. regimes.candidate # Missing
        BY <1>1, <2>4, <3>1
      <4>2. regimes.count = streak.length /\ streak.length < LongestStreak /\ streak.length \in Nat
        BY <4>1 DEF StreakInv
      <4> QED
        BY <1>2, <1>4, <1>5, <1>9, <2>2, <2>5, <3>1, <4>2
    <3>2. CASE regimes.candidate # r
      BY <1>4, <1>9, <2>2, <2>5, <3>2
    <3> QED
      BY <3>1, <3>2
  <2>7. CASE count >= required
    <3>1. regimes'.current = r /\ regimes'.candidate = Missing
      BY <2>3, <2>7 DEF d
    <3>2. StreakInv'
      BY <1>1, <2>4, <2>6, <3>1 DEF StreakInv
    <3> QED
      BY <2>6, <2>7, <3>1, <3>2 DEF required
  <2>8. CASE ~(count >= required)
    <3>1. regimes'.current = regimes.current /\ regimes'.candidate = r /\ regimes'.count = count
      BY <2>3, <2>8 DEF d
    <3>2. count < LongestStreak
      BY <1>2, <2>6, <2>8
    <3>3. StreakInv'
      BY <1>1, <1>9, <2>4, <2>6, <3>1, <3>2 DEF StreakInv
    <3> QED
      BY <2>6, <2>8, <3>1, <3>3 DEF required
  <2> QED
    BY <2>7, <2>8
<1> QED
  BY <1>6, <1>7, <1>8, <1>9

-----------------------------------------------------------------------------
(* The rank histories of the industries and the sessions they tell of.     *)

(* The latest n entries of a sequence that has got one more.               *)
LEMMA LatestIs ==
  ASSUME NEW S, NEW s \in Seq(S), NEW n \in Nat, n >= 1
  PROVE  /\ Latest(s, n) \in Seq(S)
         /\ Len(Latest(s, n)) = IF Len(s) <= n THEN Len(s) ELSE n
         /\ \A k \in 1 .. Len(Latest(s, n)) :
              Latest(s, n)[k] = s[Len(s) - Len(Latest(s, n)) + k]
<1> DEFINE a == Len(s) - n + 1
           T == {1, a}
<1>1. a \in Int /\ Len(s) \in Nat
  OBVIOUS
<1> HIDE DEF a
<1>2. \E m \in T : \A x \in T : m >= x
  BY <1>1
<1>3. PICK m \in T : m = Max(T) /\ \A x \in T : m >= x
  BY <1>2 DEF Max
<1>4. m = IF a <= 1 THEN 1 ELSE a
  BY <1>1, <1>3
<1>5. Latest(s, n) = SubSeq(s, m, Len(s))
  BY <1>3 DEF Latest, a
<1>6. m \in Int /\ m >= 1
  BY <1>1, <1>4
<1>7. \A i \in m .. Len(s) : s[i] \in S
  BY <1>6
<1>8. /\ SubSeq(s, m, Len(s)) \in Seq(S)
      /\ Len(SubSeq(s, m, Len(s))) = IF m <= Len(s) THEN Len(s) - m + 1 ELSE 0
      /\ \A i \in 1 .. Len(s) - m + 1 : SubSeq(s, m, Len(s))[i] = s[m + i - 1]
  BY <1>1, <1>6, <1>7, SubSeqProperties
<1>9. Len(Latest(s, n)) = IF Len(s) <= n THEN Len(s) ELSE n
  <2>1. Len(Latest(s, n)) = IF m <= Len(s) THEN Len(s) - m + 1 ELSE 0
    BY <1>5, <1>8
  <2>2. a = Len(s) - n + 1
    BY DEF a
  <2> QED
    <3>1. CASE Len(s) <= n
      BY <1>1, <1>4, <2>1, <2>2, <3>1
    <3>2. CASE ~(Len(s) <= n)
      BY <1>1, <1>4, <2>1, <2>2, <3>2
    <3> QED
      BY <3>1, <3>2
<1>10. ASSUME NEW k \in 1 .. Len(Latest(s, n))
       PROVE  Latest(s, n)[k] = s[Len(s) - Len(Latest(s, n)) + k]
  <2>1. k \in 1 .. Len(s) - m + 1
    BY <1>1, <1>4, <1>5, <1>6, <1>8
  <2>2. Latest(s, n)[k] = s[m + k - 1]
    BY <1>5, <1>8, <2>1
  <2>3. m + k - 1 = Len(s) - Len(Latest(s, n)) + k
    BY <1>1, <1>4, <1>9, <2>1 DEF a
  <2> QED
    BY <2>2, <2>3
<1> QED
  BY <1>5, <1>8, <1>9, <1>10

(* A history of at most n entries that has got one more.                   *)
Recorded(s, e, n) == Latest(Append(s, e), n)

\* t ends with e and goes on, backwards, as s does
EndsWith(t, s, e, n, S) ==
  /\ t \in Seq(S)
  /\ Len(t) = IF Len(s) + 1 <= n THEN Len(s) + 1 ELSE n
  /\ t[Len(t)] = e
  /\ \A j \in 1 .. Len(t) - 1 : t[Len(t) - j] = s[Len(s) - (j - 1)]

(* Recording an entry ends the history with it and shifts the others.      *)
LEMMA RecordedIs ==
  ASSUME NEW S, NEW s \in Seq(S), NEW e \in S, NEW n \in Nat, n >= 1
  PROVE  EndsWith(Recorded(s, e, n), s, e, n, S)
<1> DEFINE a == Append(s, e)
           t == Recorded(s, e, n)
<1>1. /\ a \in Seq(S) /\ Len(a) = Len(s) + 1 /\ Len(s) \in Nat
      /\ \A i \in 1 .. Len(s) : a[i] = s[i]
      /\ a[Len(s) + 1] = e
  BY AppendProperties
<1> HIDE DEF a
<1>2. t = Latest(a, n)
  BY DEF Recorded, a
<1> HIDE DEF t
<1>3. /\ t \in Seq(S)
      /\ Len(t) = IF Len(a) <= n THEN Len(a) ELSE n
      /\ \A k \in 1 .. Len(t) : t[k] = a[Len(a) - Len(t) + k]
  <2>1. /\ Latest(a, n) \in Seq(S)
        /\ Len(Latest(a, n)) = IF Len(a) <= n THEN Len(a) ELSE n
        /\ \A k \in 1 .. Len(Latest(a, n)) :
             Latest(a, n)[k] = a[Len(a) - Len(Latest(a, n)) + k]
    <3>1. a \in Seq(S)
      BY <1>1
    <3> QED
      BY <3>1, LatestIs
  <2> QED
    BY <1>2, <2>1
<1>4. t[Len(t)] = e
  <2>1. Len(t) \in 1 .. Len(t) /\ Len(a) - Len(t) + Len(t) = Len(s) + 1
    BY <1>1, <1>3
  <2>2. t[Len(t)] = a[Len(a) - Len(t) + Len(t)]
    BY <1>3, <2>1
  <2> QED
    BY <1>1, <2>1, <2>2
<1>5. ASSUME NEW j \in 1 .. Len(t) - 1 PROVE t[Len(t) - j] = s[Len(s) - (j - 1)]
  <2>1. Len(t) - j \in 1 .. Len(t) /\ Len(a) - Len(t) + (Len(t) - j) = Len(s) - (j - 1)
    <3>1. /\ Len(t) \in Nat /\ Len(a) = Len(s) + 1 /\ Len(s) \in Nat
          /\ j \in Int /\ 1 <= j /\ j <= Len(t) - 1
      BY <1>1, <1>3
    <3> QED
      BY <3>1
  <2>2. Len(s) - (j - 1) \in 1 .. Len(s)
    <3>1. Len(t) \in Int /\ Len(t) <= Len(s) + 1 /\ j \in Int /\ 1 <= j /\ j <= Len(t) - 1
      BY <1>1, <1>3
    <3> QED
      BY <1>1, <3>1
  <2> QED
    BY <1>1, <1>3, <2>1, <2>2
<1> QED
  BY <1>1, <1>3, <1>4, <1>5 DEF t, EndsWith

(* The sessions the engine counts, the industries, and what it records of  *)
(* an industry in a session: its rank, or that it has none.                *)
Window == MainlinePolicy.window
Ids == UNION {DOMAIN rows : rows \in IndustryTables}
Ranks == Nat \cup {Missing}

(* The bounds MainlineConfig.__post_init__ checks.                         *)
LEMMA WindowIs ==
  /\ Window \in Nat /\ Window >= 2 /\ Memory \in Nat /\ Memory >= Window
  /\ MainlinePolicy.minimum_hits \in 2 .. Window
  /\ MainlinePolicy.retention \in Nat /\ MainlinePolicy.retention >= 1
  /\ Memory = Window + MainlinePolicy.retention
<1> DEFINE p == MainlinePolicy
<1>1. /\ p.top_k \in Nat \ {0} /\ p.retention \in Nat \ {0}
      /\ p.window \in Nat \ {0, 1} /\ p.minimum_hits \in 2 .. p.window
  BY MainlineStatesAssumption DEF ValidMainlinePolicy
<1>2. Window = p.window /\ Memory = p.window + p.retention
  BY DEF Window, Memory
<1> HIDE DEF p
<1>4. /\ Window \in Nat /\ Window >= 2 /\ Memory \in Nat /\ Memory >= Window
      /\ p.minimum_hits \in 2 .. Window /\ p.retention \in Nat /\ p.retention >= 1
      /\ Memory = Window + p.retention
  BY <1>1, <1>2
<1> QED
  BY <1>4 DEF p

(* An industry was among the first in one of the latest n + 1 sessions.    *)
Recent(sessions, id, n) ==
  \E j \in 0 .. n : j < Len(sessions) /\ id \in sessions[Len(sessions) - j]

(* A rank history tells, session by session, who was among the first.      *)
Tells(ranks, sessions, id, n) ==
  /\ ranks \in Seq(Ranks)
  /\ Len(ranks) = IF n <= Window THEN n ELSE Window
  /\ \A j \in 0 .. Len(ranks) - 1 :
       InTopK(ranks[Len(ranks) - j]) <=> id \in sessions[Len(sessions) - j]

(* How long a tracked industry may have been absent.                       *)
Follows(entry, ranks, sessions, id) ==
  /\ entry.state \in ActiveStates => Hits(ranks) >= MainlinePolicy.minimum_hits
  /\ entry.state # "FADING" => Recent(sessions, id, Window - MainlinePolicy.minimum_hits)
  /\ entry.state = "FADING" =>
       /\ entry.fading \in Nat
       /\ \/ Recent(sessions, id, 0)
          \/ /\ entry.fading <= MainlinePolicy.retention
             /\ Recent(sessions, id, Window - MainlinePolicy.minimum_hits + entry.fading)

(* The engine's memory is the history of the latest sessions: every rank   *)
(* history tells who was among the first, and every tracked industry has a *)
(* state that follows from them.                                           *)
HistoryHolds(engine, sessions) ==
  /\ engine.sessions \in Nat
  /\ sessions \in Seq(SUBSET Ids)
  /\ Len(sessions) = IF engine.sessions <= Memory THEN engine.sessions ELSE Memory
  /\ \A k \in 1 .. Len(sessions) : sessions[k] \subseteq DOMAIN engine.histories
  /\ \A id \in DOMAIN engine.histories :
       Tells(engine.histories[id], sessions, id, engine.sessions)
  /\ DOMAIN engine.tracked \subseteq DOMAIN engine.histories
  /\ \A id \in DOMAIN engine.tracked :
       Follows(engine.tracked[id], engine.histories[id], sessions, id)

(* The industries among the first of a session.                            *)
TopK(rows) == {id \in DOMAIN rows : InTopK(Rank(rows, id))}

(* A recorded rank is a natural or missing, and tells who was among the    *)
(* first.                                                                  *)
LEMMA RankIs ==
  ASSUME NEW rows \in IndustryTables, WellRanked(rows), NEW id
  PROVE  Rank(rows, id) \in Ranks /\ (InTopK(Rank(rows, id)) <=> id \in TopK(rows))
<1>1. IsFiniteSet(ReadyRows(rows)) /\ ReadyRows(rows) \subseteq DOMAIN rows
  <2>1. IsFiniteSet(DOMAIN rows)
    BY ResearchDaysAssumption
  <2>2. ReadyRows(rows) \subseteq DOMAIN rows
    BY DEF ReadyRows
  <2> QED
    BY <2>1, <2>2, FS_Subset
<1>2. Cardinality(ReadyRows(rows)) \in Nat
  BY <1>1, FS_CardinalityType
<1>3. id \in ReadyRows(rows) => rows[id].rank \in Nat
  BY <1>2 DEF WellRanked
<1> QED
  BY <1>1, <1>3 DEF Rank, Ranks, InTopK, TopK

(* One more session: the history of an industry and the history of the     *)
(* first ranks grow together.                                              *)
LEMMA HistoryGrows ==
  ASSUME NEW engine, NEW sessions, HistoryHolds(engine, sessions),
         NEW rows \in IndustryTables, WellRanked(rows),
         NEW id \in DOMAIN engine.histories \cup DOMAIN rows
  PROVE  Tells(NextHistories(engine, rows)[id], Recorded(sessions, TopK(rows), Memory),
               id, engine.sessions + 1)
<1> DEFINE n == engine.sessions
           prior == PriorRanks(engine, id)
           r == Rank(rows, id)
           top == TopK(rows)
           ranks == Recorded(prior, r, Window)
           later == Recorded(sessions, top, Memory)
<1>0. n \in Nat /\ sessions \in Seq(SUBSET Ids)
      /\ Len(sessions) = IF n <= Memory THEN n ELSE Memory
  BY DEF HistoryHolds
<1>1. NextHistories(engine, rows)[id] = ranks
  BY DEF NextHistories, Recorded, Window
<1>2. r \in Ranks /\ (InTopK(r) <=> id \in top)
  BY RankIs
<1>3. top \in SUBSET Ids
  BY DEF TopK, Ids
<1>4. /\ prior \in Seq(Ranks)
      /\ Len(prior) = (IF n <= Window - 1 THEN n ELSE Window - 1)
           \/ Len(prior) = (IF n <= Window THEN n ELSE Window)
      /\ \A j \in 0 .. Len(prior) - 1 :
           InTopK(prior[Len(prior) - j]) <=> id \in sessions[Len(sessions) - j]
  <2>1. CASE id \in DOMAIN engine.histories
    <3>1. prior = engine.histories[id]
      BY <2>1 DEF PriorRanks
    <3>2. Tells(engine.histories[id], sessions, id, n)
      BY <2>1 DEF HistoryHolds
    <3> QED
      BY <3>1, <3>2 DEF Tells
  <2>2. CASE id \notin DOMAIN engine.histories
    <3> DEFINE w == Window - 1
               T == {n, w}
    <3>1. w \in Nat
      BY WindowIs
    <3> HIDE DEF w, n
    <3>2. \E m \in T : \A x \in T : m <= x
      BY <1>0, <3>1
    <3>3. PICK m \in T : m = Min(T) /\ \A x \in T : m <= x
      BY <3>2 DEF Min
    <3>4. m = (IF n <= w THEN n ELSE w) /\ m \in Nat
      BY <1>0, <3>1, <3>3
    <3>5. prior = [k \in 1 .. m |-> Missing]
      BY <2>2, <3>3 DEF PriorRanks, Window, n, w
    <3>6. prior \in Seq(Ranks) /\ Len(prior) = m /\ \A k \in 1 .. m : prior[k] = Missing
      BY <3>4, <3>5 DEF Ranks
    <3>7. ASSUME NEW j \in 0 .. Len(prior) - 1
          PROVE  ~InTopK(prior[Len(prior) - j]) /\ id \notin sessions[Len(sessions) - j]
      <4>1. Len(prior) - j \in 1 .. m
        BY <3>4, <3>6
      <4>2. m <= Len(sessions) /\ Len(sessions) \in Nat
        BY <1>0, <3>4, WindowIs DEF w, n
      <4>3. Len(sessions) - j \in 1 .. Len(sessions)
        BY <3>4, <3>6, <4>2
      <4>4. sessions[Len(sessions) - j] \subseteq DOMAIN engine.histories
        BY <4>3 DEF HistoryHolds
      <4> QED
        BY <2>2, <3>6, <4>1, <4>4 DEF InTopK
    <3> QED
      BY <3>4, <3>6, <3>7 DEF n, w
  <2> QED
    BY <2>1, <2>2
<1> HIDE DEF n, prior, r, top
<1>5. /\ ranks \in Seq(Ranks)
      /\ Len(ranks) = IF Len(prior) + 1 <= Window THEN Len(prior) + 1 ELSE Window
      /\ ranks[Len(ranks)] = r
      /\ \A j \in 1 .. Len(ranks) - 1 : ranks[Len(ranks) - j] = prior[Len(prior) - (j - 1)]
  <2>1. Window \in Nat /\ Window >= 1
    BY WindowIs
  <2> QED
    <3>1. prior \in Seq(Ranks)
      BY <1>4
    <3>2. r \in Ranks
      BY <1>2
    <3>3. EndsWith(Recorded(prior, r, Window), prior, r, Window, Ranks)
      BY <2>1, <3>1, <3>2, RecordedIs
    <3> QED
      BY <3>3 DEF EndsWith
<1>6. /\ Len(later) = IF Len(sessions) + 1 <= Memory THEN Len(sessions) + 1 ELSE Memory
      /\ later[Len(later)] = top
      /\ \A j \in 1 .. Len(later) - 1 : later[Len(later) - j] = sessions[Len(sessions) - (j - 1)]
  <2>1. Memory \in Nat /\ Memory >= 1
    BY WindowIs
  <2> QED
    <3>1. EndsWith(Recorded(sessions, top, Memory), sessions, top, Memory, SUBSET Ids)
      BY <1>0, <1>3, <2>1, RecordedIs
    <3> QED
      BY <3>1 DEF EndsWith
<1> HIDE DEF ranks, later
<1>7. Len(ranks) = IF n + 1 <= Window THEN n + 1 ELSE Window
  BY <1>0, <1>4, <1>5, WindowIs
<1>8. Len(ranks) <= Len(later) /\ Len(later) \in Nat /\ Len(prior) \in Nat
  BY <1>0, <1>4, <1>6, <1>7, WindowIs
<1>9. ASSUME NEW j \in 0 .. Len(ranks) - 1
      PROVE  InTopK(ranks[Len(ranks) - j]) <=> id \in later[Len(later) - j]
  <2>1. CASE j = 0
    <3>1. Len(ranks) - j = Len(ranks) /\ Len(later) - j = Len(later)
      BY <1>7, <1>8, <2>1, <1>0, WindowIs
    <3> QED
      BY <1>2, <1>5, <1>6, <3>1
  <2>2. CASE j # 0
    <3>1. j \in 1 .. Len(ranks) - 1 /\ j \in 1 .. Len(later) - 1
      BY <1>0, <1>7, <1>8, <2>2, WindowIs
    <3>2. j - 1 \in 0 .. Len(prior) - 1
      BY <1>4, <1>5, <1>8, <3>1, WindowIs
    <3>3. ranks[Len(ranks) - j] = prior[Len(prior) - (j - 1)]
      BY <1>5, <3>1
    <3>4. later[Len(later) - j] = sessions[Len(sessions) - (j - 1)]
      BY <1>6, <3>1
    <3> QED
      BY <1>4, <3>2, <3>3, <3>4
  <2> QED
    BY <2>1, <2>2
<1> QED
  BY <1>1, <1>5, <1>7, <1>9 DEF Tells, n, ranks, later, prior, r, top

(* The hits of a history are those of the sessions it tells of.            *)
LEMMA HitsTell ==
  ASSUME NEW ranks, NEW sessions, NEW id, NEW n \in Nat, Tells(ranks, sessions, id, n),
         sessions \in Seq(SUBSET Ids), Len(sessions) = IF n <= Memory THEN n ELSE Memory
  PROVE  Hits(ranks) = Cardinality({k \in DOMAIN Latest(sessions, Window) :
                                      id \in Latest(sessions, Window)[k]})
<1> DEFINE t == Latest(sessions, Window)
<1>1. PICK s1 : s1 = SUBSET Ids
  OBVIOUS
<1>2. sessions \in Seq(s1) /\ Window \in Nat /\ Window >= 1 /\ Memory >= Window /\ Memory \in Nat
  BY <1>1, WindowIs
<1>3. /\ t \in Seq(s1)
      /\ Len(t) = IF Len(sessions) <= Window THEN Len(sessions) ELSE Window
      /\ \A k \in 1 .. Len(t) : t[k] = sessions[Len(sessions) - Len(t) + k]
  BY <1>2, LatestIs
<1> HIDE DEF t
<1>4. Len(t) = Len(ranks) /\ Len(ranks) \in Nat
  BY <1>2, <1>3 DEF Tells
<1>5. ranks \in Seq(Ranks) /\ DOMAIN ranks = 1 .. Len(ranks) /\ DOMAIN t = 1 .. Len(ranks)
  BY <1>3, <1>4 DEF Tells
<1>6. ASSUME NEW k \in 1 .. Len(ranks) PROVE InTopK(ranks[k]) <=> id \in t[k]
  <2>1. PICK j : j = Len(ranks) - k
    OBVIOUS
  <2>2. j \in 0 .. Len(ranks) - 1 /\ Len(ranks) - j = k /\ Len(sessions) - Len(t) + k = Len(sessions) - j
    BY <1>2, <1>4, <2>1
  <2>3. InTopK(ranks[Len(ranks) - j]) <=> id \in sessions[Len(sessions) - j]
    BY <2>2 DEF Tells
  <2> QED
    BY <1>3, <1>4, <2>2, <2>3
<1>7. {k \in DOMAIN ranks : InTopK(ranks[k])} = {k \in DOMAIN t : id \in t[k]}
  BY <1>5, <1>6
<1> QED
  BY <1>7 DEF Hits, t

(* Enough hits in a window leave one within its beginning.                 *)
LEMMA HitsAreRecent ==
  ASSUME NEW ranks, NEW sessions, NEW id, NEW n \in Nat, Tells(ranks, sessions, id, n),
         sessions \in Seq(SUBSET Ids), Len(sessions) = IF n <= Memory THEN n ELSE Memory,
         Hits(ranks) >= MainlinePolicy.minimum_hits
  PROVE  Recent(sessions, id, Window - MainlinePolicy.minimum_hits)
<1> DEFINE m == MainlinePolicy.minimum_hits
           L == Len(ranks)
           hits == {k \in DOMAIN ranks : InTopK(ranks[k])}
<1>1. Window \in Nat /\ Memory \in Nat /\ Memory >= Window /\ m \in Nat /\ m >= 1 /\ m <= Window
  BY WindowIs
<1>2. L \in Nat /\ L <= Window /\ DOMAIN ranks = 1 .. L /\ L <= Len(sessions) /\ Len(sessions) \in Nat
  BY <1>1 DEF Tells
<1> HIDE DEF m, L
<1>3. ASSUME ~\E k \in hits : k >= m PROVE FALSE
  <2>1. hits \subseteq 1 .. m - 1
    BY <1>1, <1>2, <1>3
  <2>2. IsFiniteSet(1 .. m - 1) /\ Cardinality(1 .. m - 1) = m - 1
    <3>1. 1 \in Int /\ m - 1 \in Int
      BY <1>1
    <3>2. IsFiniteSet(1 .. m - 1) /\ Cardinality(1 .. m - 1) = IF 1 > m - 1 THEN 0 ELSE (m - 1) - 1 + 1
      BY <3>1, FS_Interval
    <3> QED
      BY <1>1, <3>2
  <2>3. Cardinality(hits) <= m - 1 /\ Cardinality(hits) \in Nat
    <3>1. IsFiniteSet(hits) /\ Cardinality(hits) <= Cardinality(1 .. m - 1)
      BY <2>1, <2>2, FS_Subset, FS_CardinalityType
    <3> QED
      BY <2>2, <3>1, FS_CardinalityType
  <2>4. Hits(ranks) = Cardinality(hits) /\ Hits(ranks) >= m
    BY DEF Hits, m
  <2> QED
    BY <1>1, <2>3, <2>4
<1>4. PICK k \in hits : k >= m
  BY <1>3
<1>5. k \in 1 .. L /\ InTopK(ranks[k])
  BY <1>2, <1>4
<1>6. PICK j : j = L - k
  OBVIOUS
<1>7. j \in 0 .. L - 1 /\ L - j = k /\ j \in 0 .. Window - m /\ j < Len(sessions)
  BY <1>1, <1>2, <1>4, <1>5, <1>6
<1>8. id \in sessions[Len(sessions) - j]
  <2>1. InTopK(ranks[L - j]) <=> id \in sessions[Len(sessions) - j]
    BY <1>7 DEF Tells, L
  <2> QED
    BY <1>5, <1>7, <2>1
<1> QED
  BY <1>7, <1>8 DEF Recent, m

(* A session later an absence is longer by one.                            *)
LEMMA RecentGrows ==
  ASSUME NEW sessions \in Seq(SUBSET Ids), NEW id, NEW n \in Nat, Recent(sessions, id, n),
         n + 1 < Memory, NEW top \in SUBSET Ids
  PROVE  Recent(Recorded(sessions, top, Memory), id, n + 1)
<1> DEFINE t == Recorded(sessions, top, Memory)
<1>1. Memory \in Nat /\ Memory >= 1 /\ Len(sessions) \in Nat
  BY WindowIs
<1>2. EndsWith(t, sessions, top, Memory, SUBSET Ids)
  BY <1>1, RecordedIs
<1> HIDE DEF t
<1>3. PICK j \in 0 .. n : j < Len(sessions) /\ id \in sessions[Len(sessions) - j]
  BY DEF Recent
<1>4. Len(t) = IF Len(sessions) + 1 <= Memory THEN Len(sessions) + 1 ELSE Memory
  BY <1>2 DEF EndsWith
<1>5. PICK i : i = j + 1
  OBVIOUS
<1>6. i \in 1 .. Len(t) - 1 /\ i - 1 = j /\ i \in 0 .. n + 1 /\ i < Len(t)
  BY <1>1, <1>3, <1>4, <1>5
<1>7. t[Len(t) - i] = sessions[Len(sessions) - (i - 1)]
  BY <1>2, <1>6 DEF EndsWith
<1>8. id \in t[Len(t) - i]
  BY <1>3, <1>6, <1>7
<1> QED
  BY <1>6, <1>8 DEF Recent, t

(* The session that was just recorded.                                     *)
LEMMA RecentNow ==
  ASSUME NEW sessions \in Seq(SUBSET Ids), NEW id, NEW n \in Nat,
         NEW top \in SUBSET Ids, id \in top
  PROVE  Recent(Recorded(sessions, top, Memory), id, n)
<1> DEFINE t == Recorded(sessions, top, Memory)
<1>1. Memory \in Nat /\ Memory >= 1 /\ Len(sessions) \in Nat
  BY WindowIs
<1>2. EndsWith(t, sessions, top, Memory, SUBSET Ids)
  BY <1>1, RecordedIs
<1> HIDE DEF t
<1>3. Len(t) \in Nat /\ Len(t) >= 1 /\ t[Len(t)] = top
  BY <1>1, <1>2 DEF EndsWith
<1>4. 0 \in 0 .. n /\ 0 < Len(t) /\ Len(t) - 0 = Len(t)
  BY <1>3
<1> QED
  BY <1>3, <1>4 DEF Recent, t

(* An absence within a bound is within every longer one.                   *)
LEMMA RecentWidens ==
  ASSUME NEW sessions, NEW id, NEW n \in Nat, NEW m \in Nat, n <= m, Recent(sessions, id, n)
  PROVE  Recent(sessions, id, m)
<1>1. PICK j \in 0 .. n : j < Len(sessions) /\ id \in sessions[Len(sessions) - j]
  BY DEF Recent
<1>2. j \in 0 .. m
  BY <1>1
<1> QED
  BY <1>1, <1>2 DEF Recent

(* What _decide_industry answers follows the history that has grown by the *)
(* session.                                                                *)
LEMMA TrackedFollows ==
  ASSUME NEW engine, NEW sessions, HistoryHolds(engine, sessions),
         NEW rows \in IndustryTables, WellRanked(rows), NEW outcomeNow,
         NEW id \in Candidates(engine, rows),
         NextTracked(rows, id, NextHistories(engine, rows)[id],
                     Known(engine.tracked, id), outcomeNow) # Missing
  PROVE  Follows(NextTracked(rows, id, NextHistories(engine, rows)[id],
                             Known(engine.tracked, id), outcomeNow),
                 NextHistories(engine, rows)[id],
                 Recorded(sessions, TopK(rows), Memory), id)
<1> DEFINE ranks == NextHistories(engine, rows)[id]
           previous == Known(engine.tracked, id)
           later == Recorded(sessions, TopK(rows), Memory)
           entry == NextTracked(rows, id, ranks, previous, outcomeNow)
           top == TopK(rows)
           n == engine.sessions
           w == Window - MainlinePolicy.minimum_hits
<1>0. n \in Nat /\ sessions \in Seq(SUBSET Ids) /\ top \in SUBSET Ids
      /\ Len(sessions) = IF n <= Memory THEN n ELSE Memory
  BY DEF HistoryHolds, TopK, Ids
<1>1. w \in Nat /\ w + 1 < Memory /\ Memory = Window + MainlinePolicy.retention
      /\ w + MainlinePolicy.retention < Memory /\ MainlinePolicy.retention \in Nat
      /\ Memory \in Nat /\ Memory >= 1
  BY WindowIs
<1>2. InTopK(Rank(rows, id)) <=> id \in top
  BY RankIs
<1>3. id \in DOMAIN engine.histories \cup DOMAIN rows
  BY DEF Candidates, HistoryHolds
<1>4. Tells(ranks, later, id, n + 1)
  BY <1>3, HistoryGrows
<1>5. EndsWith(later, sessions, top, Memory, SUBSET Ids)
  BY <1>0, <1>1, RecordedIs
<1>6. later \in Seq(SUBSET Ids) /\ Len(later) = IF n + 1 <= Memory THEN n + 1 ELSE Memory
  <2>1. /\ later \in Seq(SUBSET Ids)
        /\ Len(later) = IF Len(sessions) + 1 <= Memory THEN Len(sessions) + 1 ELSE Memory
    BY <1>5 DEF EndsWith
  <2> QED
    BY <1>0, <1>1, <2>1
<1>7. ASSUME NEW k \in Nat, id \in top PROVE Recent(later, id, k)
  BY <1>0, <1>7, RecentNow
<1>8. ASSUME NEW k \in Nat, Recent(sessions, id, k), k + 1 < Memory PROVE Recent(later, id, k + 1)
  BY <1>0, <1>8, RecentGrows
<1>9. Hits(ranks) >= MainlinePolicy.minimum_hits => Recent(later, id, w)
  <2>1. n + 1 \in Nat
    BY <1>0
  <2> HIDE DEF ranks, later, n
  <2> QED
    BY <1>4, <1>6, <2>1, HitsAreRecent
<1>10. previous # Missing => id \in DOMAIN engine.tracked /\ previous = engine.tracked[id]
  BY DEF Known
<1>11. previous # Missing => Follows(previous, engine.histories[id], sessions, id)
  BY <1>10 DEF HistoryHolds
<1>12. entry # Missing
  OBVIOUS
<1> SUFFICES Follows(entry, ranks, later, id)
  OBVIOUS
<1> HIDE DEF ranks, later, top, n, w, previous
<1>13. CASE Confirmable(rows, id, ranks, previous, outcomeNow)
  <2>1. entry.state \in {"CROWDED", "CONFIRMED"}
    BY <1>13 DEF NextTracked
  <2>2. Hits(ranks) >= MainlinePolicy.minimum_hits
    BY <1>13 DEF Confirmable
  <2> HIDE DEF entry
  <2> QED
    BY <1>9, <2>1, <2>2 DEF Follows, w
<1>14. CASE ~Confirmable(rows, id, ranks, previous, outcomeNow)
            /\ StillEmerging(rows, id, previous, outcomeNow)
  <2>1. entry.state = "EMERGING"
    BY <1>14 DEF NextTracked
  <2>2. id \in top
    BY <1>2, <1>14 DEF StillEmerging
  <2> HIDE DEF entry
  <2>3. Recent(later, id, w)
    BY <1>1, <1>7, <2>2
  <2> QED
    BY <2>1, <2>3 DEF Follows, w, ActiveStates
<1>15. CASE ~Confirmable(rows, id, ranks, previous, outcomeNow)
            /\ ~StillEmerging(rows, id, previous, outcomeNow)
  <2>1. /\ previous # Missing
        /\ id \in top \/ ~(Faded(previous) > MainlinePolicy.retention)
        /\ entry = [state |-> "FADING", fading |-> Faded(previous)]
    <3>1. entry = IF \/ previous = Missing
                     \/ /\ ~InTopK(Rank(rows, id))
                        /\ Faded(previous) > MainlinePolicy.retention
                  THEN Missing
                  ELSE [state |-> "FADING", fading |-> Faded(previous)]
      BY <1>15 DEF NextTracked
    <3> QED
      BY <1>2, <1>12, <3>1
  <2> HIDE DEF entry
  <2>2. entry.state = "FADING" /\ entry.fading = Faded(previous)
    BY <2>1
  <2>3. Follows(previous, engine.histories[id], sessions, id)
    BY <1>11, <2>1
  <2>4. Faded(previous) = IF previous.state = "FADING" THEN previous.fading + 1 ELSE 1
    BY DEF Faded
  <2>5. Faded(previous) \in Nat
    BY <2>3, <2>4 DEF Follows
  <2>6. id \in top => Recent(later, id, 0)
    BY <1>7
  <2>7. ASSUME ~(Faded(previous) > MainlinePolicy.retention)
        PROVE  Recent(later, id, w + Faded(previous))
    <3>1. CASE previous.state # "FADING"
      <4>1. Recent(sessions, id, w)
        BY <2>3, <3>1 DEF Follows, w
      <4>2. Faded(previous) = 1
        BY <2>4, <3>1
      <4> QED
        BY <1>1, <1>8, <4>1, <4>2
    <3>2. CASE previous.state = "FADING"
      <4> DEFINE f == previous.fading
      <4>1. f \in Nat /\ (Recent(sessions, id, 0) \/ Recent(sessions, id, w + f))
        BY <2>3, <3>2 DEF Follows, w
      <4>2. Faded(previous) = f + 1
        BY <2>4, <3>2
      <4> HIDE DEF f
      <4>3. f + 1 <= MainlinePolicy.retention
        BY <1>1, <2>7, <4>1, <4>2
      <4>4. Recent(sessions, id, w + f)
        <5>1. 0 \in Nat /\ w + f \in Nat /\ 0 <= w + f
          BY <1>1, <4>1
        <5> QED
          BY <4>1, <5>1, RecentWidens
      <4>5. w + f \in Nat /\ (w + f) + 1 < Memory /\ (w + f) + 1 = w + Faded(previous)
        BY <1>1, <4>1, <4>2, <4>3
      <4>6. Recent(later, id, (w + f) + 1)
        BY <1>8, <4>4, <4>5
      <4> QED
        BY <4>5, <4>6
    <3> QED
      BY <3>1, <3>2
  <2>8. \/ Recent(later, id, 0)
        \/ Faded(previous) <= MainlinePolicy.retention /\ Recent(later, id, w + Faded(previous))
    <3>1. ~(Faded(previous) > MainlinePolicy.retention) => Faded(previous) <= MainlinePolicy.retention
      BY <1>1, <2>5
    <3> QED
      BY <2>1, <2>6, <2>7, <3>1
  <2> QED
    BY <2>2, <2>5, <2>8 DEF Follows, ActiveStates, w
<1> QED
  BY <1>13, <1>14, <1>15

(* One session of the mainline engine keeps its memory true.               *)
LEMMA MainlineStep ==
  ASSUME NEW engine, NEW sessions, HistoryHolds(engine, sessions),
         NEW rows \in IndustryTables, NEW day, NEW version, NEW outcomeNow,
         NEW snapshot, snapshot = [session |-> day, version |-> version, rows |-> rows],
         ProcessMainlines(engine, snapshot, outcomeNow) # Refused
  PROVE  HistoryHolds(ProcessMainlines(engine, snapshot, outcomeNow).engine,
                      Recorded(sessions, TopK(rows), Memory))
<1> DEFINE histories == NextHistories(engine, rows)
           next == [id \in Candidates(engine, rows) |->
                      NextTracked(rows, id, histories[id],
                                  Known(engine.tracked, id), outcomeNow)]
           kept == {id \in DOMAIN next : next[id] # Missing}
           tracked == [id \in kept |-> next[id]]
           later == Recorded(sessions, TopK(rows), Memory)
           after == ProcessMainlines(engine, snapshot, outcomeNow).engine
<1>1. WellRanked(rows)
  BY DEF ProcessMainlines
<1>2. after.histories = histories /\ after.tracked = tracked
      /\ after.sessions = engine.sessions + 1
  BY DEF ProcessMainlines
<1> HIDE DEF after
<1>3. DOMAIN histories = DOMAIN engine.histories \cup DOMAIN rows
  BY DEF NextHistories
<1>4. ASSUME NEW id \in DOMAIN histories
      PROVE  Tells(histories[id], later, id, engine.sessions + 1)
  BY <1>1, <1>3, HistoryGrows
<1>5. ASSUME NEW id \in DOMAIN tracked
      PROVE  id \in DOMAIN histories /\ Follows(tracked[id], histories[id], later, id)
  <2>1. id \in Candidates(engine, rows) /\ tracked[id] = next[id] /\ next[id] # Missing
    OBVIOUS
  <2>2. id \in DOMAIN histories
    BY <1>3, <2>1 DEF Candidates, HistoryHolds
  <2>3. next[id] = NextTracked(rows, id, NextHistories(engine, rows)[id],
                               Known(engine.tracked, id), outcomeNow)
    BY <2>1
  <2>4. Follows(next[id], NextHistories(engine, rows)[id],
                Recorded(sessions, TopK(rows), Memory), id)
    <3>1. NextTracked(rows, id, NextHistories(engine, rows)[id],
                      Known(engine.tracked, id), outcomeNow) # Missing
      BY <2>1, <2>3
    <3>2. id \in Candidates(engine, rows)
      BY <2>1
    <3> HIDE DEF next
    <3> QED
      BY <1>1, <2>3, <3>1, <3>2, TrackedFollows
  <2> QED
    BY <2>1, <2>2, <2>4
<1> HIDE DEF tracked, histories
<1>6. /\ engine.sessions \in Nat /\ sessions \in Seq(SUBSET Ids)
      /\ Len(sessions) = IF engine.sessions <= Memory THEN engine.sessions ELSE Memory
      /\ \A k \in 1 .. Len(sessions) : sessions[k] \subseteq DOMAIN engine.histories
  BY DEF HistoryHolds
<1>7. TopK(rows) \in SUBSET Ids /\ TopK(rows) \subseteq DOMAIN rows
  BY DEF TopK, Ids
<1>8. Memory \in Nat /\ Memory >= 1
  BY WindowIs
<1>9. EndsWith(later, sessions, TopK(rows), Memory, SUBSET Ids)
  BY <1>6, <1>7, <1>8, RecordedIs
<1> HIDE DEF later
<1>10. /\ later \in Seq(SUBSET Ids)
       /\ Len(later) = IF Len(sessions) + 1 <= Memory THEN Len(sessions) + 1 ELSE Memory
       /\ later[Len(later)] = TopK(rows)
       /\ \A j \in 1 .. Len(later) - 1 : later[Len(later) - j] = sessions[Len(sessions) - (j - 1)]
  BY <1>9 DEF EndsWith
<1>11. Len(later) = IF engine.sessions + 1 <= Memory THEN engine.sessions + 1 ELSE Memory
  BY <1>6, <1>8, <1>10
<1>12. ASSUME NEW k \in 1 .. Len(later) PROVE later[k] \subseteq DOMAIN histories
  <2>1. CASE k = Len(later)
    BY <1>3, <1>7, <1>10, <2>1
  <2>2. CASE k # Len(later)
    <3>1. PICK j : j = Len(later) - k
      OBVIOUS
    <3>2. Len(later) \in Nat /\ k \in Int /\ 1 <= k /\ k <= Len(later) /\ k # Len(later)
          /\ Len(later) <= Len(sessions) + 1 /\ Len(sessions) \in Nat
      BY <1>6, <1>8, <1>10, <2>2
    <3>3. j \in 1 .. Len(later) - 1 /\ Len(later) - j = k /\ Len(sessions) - (j - 1) \in 1 .. Len(sessions)
      BY <3>1, <3>2
    <3>4. later[k] = sessions[Len(sessions) - (j - 1)]
      BY <1>10, <3>3
    <3> QED
      BY <1>3, <1>6, <3>3, <3>4
  <2> QED
    BY <2>1, <2>2
<1>13. engine.sessions + 1 \in Nat
  BY <1>6
<1> QED
  <2>1. HistoryHolds(after, later)
    BY <1>2, <1>4, <1>5, <1>10, <1>11, <1>12, <1>13 DEF HistoryHolds
  <2> QED
    BY <2>1 DEF after, later

(* A tracked industry was among the first within the longest absence.      *)
LEMMA RecentHits ==
  ASSUME NEW sessions \in Seq(SUBSET Ids), NEW id, NEW n \in Nat, NEW m \in Nat,
         Recent(sessions, id, n), n < m, m <= Len(sessions)
  PROVE  Cardinality({k \in DOMAIN Latest(sessions, m) : id \in Latest(sessions, m)[k]}) > 0
<1> DEFINE t == Latest(sessions, m)
           H == {k \in DOMAIN t : id \in t[k]}
<1>1. m >= 1 /\ Len(sessions) \in Nat
  OBVIOUS
<1>2. /\ t \in Seq(SUBSET Ids)
      /\ Len(t) = IF Len(sessions) <= m THEN Len(sessions) ELSE m
      /\ \A k \in 1 .. Len(t) : t[k] = sessions[Len(sessions) - Len(t) + k]
  BY <1>1, LatestIs
<1> HIDE DEF t
<1>3. PICK j \in 0 .. n : j < Len(sessions) /\ id \in sessions[Len(sessions) - j]
  BY DEF Recent
<1>4. Len(t) = m
  BY <1>1, <1>2
<1>5. PICK k : k = m - j
  OBVIOUS
<1>6. k \in 1 .. Len(t) /\ Len(sessions) - Len(t) + k = Len(sessions) - j
  BY <1>1, <1>3, <1>4, <1>5
<1>7. DOMAIN t = 1 .. m
  BY <1>2, <1>4
<1>8. k \in H
  BY <1>2, <1>3, <1>4, <1>6, <1>7
<1>9. IsFiniteSet(1 .. m) /\ H \subseteq 1 .. m
  BY <1>7, FS_Interval
<1>10. IsFiniteSet(H)
  BY <1>9, FS_Subset
<1> HIDE DEF H
<1>11. Cardinality(H) \in Nat /\ Cardinality(H) # 0
  BY <1>8, <1>10, FS_CardinalityType, FS_EmptySet
<1> QED
  BY <1>11 DEF H, t

(* An engine that follows the history keeps the promise about leaders.     *)
LEMMA HistoryTells ==
  ASSUME HistoryHolds(mainlines, leading)
  PROVE  LeadersFollowTheirHistory
<1> DEFINE n == mainlines.sessions
           m == MainlinePolicy.minimum_hits
<1>1. /\ n \in Nat /\ leading \in Seq(SUBSET Ids)
      /\ Len(leading) = IF n <= Memory THEN n ELSE Memory
  BY DEF HistoryHolds
<1>2. SUFFICES ASSUME NEW id \in DOMAIN mainlines.tracked
               PROVE  /\ mainlines.tracked[id].state \in ActiveStates =>
                           HitsOf(id, Window) >= m
                      /\ Len(leading) >= LongestAbsence => HitsOf(id, LongestAbsence) > 0
  BY DEF LeadersFollowTheirHistory, Window
<1> DEFINE ranks == mainlines.histories[id]
           entry == mainlines.tracked[id]
           w == Window - m
<1>3. id \in DOMAIN mainlines.histories
  BY DEF HistoryHolds
<1>4. Tells(ranks, leading, id, n) /\ Follows(entry, ranks, leading, id)
  BY <1>3 DEF HistoryHolds
<1>5. /\ Window \in Nat /\ m \in Nat /\ w \in Nat /\ MainlinePolicy.retention \in Nat
      /\ LongestAbsence = w + MainlinePolicy.retention + 1
      /\ MainlinePolicy.retention >= 1
  BY WindowIs DEF LongestAbsence, Window
<1> HIDE DEF n, m, ranks, entry, w
<1>6. Hits(ranks) = HitsOf(id, Window)
  <2>1. Hits(ranks) = Cardinality({k \in DOMAIN Latest(leading, Window) :
                                      id \in Latest(leading, Window)[k]})
    BY <1>1, <1>4, HitsTell
  <2> QED
    BY <2>1 DEF HitsOf
<1>7. entry.state \in ActiveStates => HitsOf(id, Window) >= m
  BY <1>4, <1>6 DEF Follows, m
<1>8. PICK late : late = w + MainlinePolicy.retention /\ late \in Nat
  BY <1>5
<1>9. Recent(leading, id, late)
  <2>1. CASE entry.state # "FADING"
    <3>1. Recent(leading, id, w)
      BY <1>4, <2>1 DEF Follows, w, m
    <3> QED
      BY <1>5, <1>8, <3>1, RecentWidens
  <2>2. CASE entry.state = "FADING"
    <3>1. Recent(leading, id, 0)
          \/ /\ entry.fading \in Nat /\ entry.fading <= MainlinePolicy.retention
             /\ Recent(leading, id, w + entry.fading)
      BY <1>4, <2>2 DEF Follows, w, m
    <3>2. CASE Recent(leading, id, 0)
      BY <1>8, <3>2, RecentWidens
    <3>3. CASE /\ entry.fading \in Nat /\ entry.fading <= MainlinePolicy.retention
               /\ Recent(leading, id, w + entry.fading)
      <4>1. w + entry.fading \in Nat /\ w + entry.fading <= late
        BY <1>5, <1>8, <3>3
      <4> QED
        BY <1>8, <3>3, <4>1, RecentWidens
    <3> QED
      BY <3>1, <3>2, <3>3
  <2> QED
    BY <2>1, <2>2
<1>10. Len(leading) >= LongestAbsence => HitsOf(id, LongestAbsence) > 0
  <2> SUFFICES ASSUME Len(leading) >= LongestAbsence
               PROVE  HitsOf(id, LongestAbsence) > 0
    OBVIOUS
  <2>1. LongestAbsence \in Nat /\ late < LongestAbsence /\ LongestAbsence <= Len(leading)
    BY <1>1, <1>5, <1>8
  <2>2. Cardinality({k \in DOMAIN Latest(leading, LongestAbsence) :
                        id \in Latest(leading, LongestAbsence)[k]}) > 0
    BY <1>1, <1>8, <1>9, <2>1, RecentHits
  <2> QED
    BY <2>2 DEF HitsOf
<1> QED
  BY <1>7, <1>10 DEF entry

-----------------------------------------------------------------------------
(* Rounding.                                                               *)

(* A quotient of integers is an integer.                                   *)
LEMMA DivInt == ASSUME NEW a \in Int, NEW b \in Nat \ {0} PROVE a \div b \in Int
OBVIOUS

(* Quotient and remainder.                                                 *)
LEMMA DivRest ==
  ASSUME NEW a \in Int, NEW b \in Nat \ {0}
  PROVE  a % b \in 0 .. b - 1 /\ a = (a \div b) * b + (a % b)
OBVIOUS

(* x is n / d up to half a unit.                                           *)
Near(x, n, d) == x \in Int /\ -d <= 2 * (x * d - n) /\ 2 * (x * d - n) <= d

(* Rounding moves a quotient by at most half a unit, and keeps its sign.   *)
LEMMA RoundedNear ==
  ASSUME NEW n \in Int, NEW d \in Nat \ {0}
  PROVE  Near(Rounded(n, d), n, d) /\ (n >= 0 => Rounded(n, d) >= 0)
<1> DEFINE q == n \div d
           r == n % d
<1>1. q \in Int /\ r \in 0 .. d - 1 /\ n = q * d + r
  BY DivInt, DivRest
<1>2. \/ Rounded(n, d) = q /\ 2 * r <= d
      \/ Rounded(n, d) = q + 1 /\ 2 * r >= d
  <2>1. Rounded(n, d) = IF 2 * r > d \/ (2 * r = d /\ q % 2 = 1) THEN q + 1 ELSE q
    BY DEF Rounded
  <2> HIDE DEF q, r
  <2> QED
    BY <1>1, <2>1
<1>3. n >= 0 => q >= 0
  <2> SUFFICES ASSUME n >= 0, q <= -1 PROVE FALSE
    BY <1>1
  <2> HIDE DEF q, r
  <2>1. (q + 1) * d = q * d + d
    BY <1>1
  <2>2. (q + 1) * d <= 0
    BY <1>1
  <2>3. q * d \in Int
    BY <1>1
  <2> QED
    BY <1>1, <2>1, <2>2, <2>3
<1> HIDE DEF q, r
<1>4. (q + 1) * d = q * d + d /\ q * d \in Int
  BY <1>1
<1> QED
  BY <1>1, <1>2, <1>3, <1>4 DEF Near

(* The weights of a portfolio, as a sum.                                   *)
LEMMA SumWeightsIs == ASSUME NEW weights PROVE SumWeights(weights) = SumOver(weights, DOMAIN weights)
BY DEF SumWeights, SumOver

(* The greater of two.                                                     *)
LEMMA MaxTwo ==
  ASSUME NEW a \in Int, NEW b \in Int
  PROVE  Max({a, b}) = IF a >= b THEN a ELSE b
<1>1. PICK S : S = {a, b}
  OBVIOUS
<1>2. \E m \in S : \A x \in S : m >= x
  BY <1>1
<1>3. PICK m \in S : m = Max(S) /\ \A x \in S : m >= x
  BY <1>2 DEF Max
<1>4. Max(S) = IF a >= b THEN a ELSE b
  BY <1>1, <1>3
<1> QED
  BY <1>1, <1>4

(* The lesser of two.                                                      *)
LEMMA MinTwo ==
  ASSUME NEW a \in Int, NEW b \in Int
  PROVE  Min({a, b}) = IF a <= b THEN a ELSE b
<1>1. PICK S : S = {a, b}
  OBVIOUS
<1>2. \E m \in S : \A x \in S : m <= x
  BY <1>1
<1>3. PICK m \in S : m = Min(S) /\ \A x \in S : m <= x
  BY <1>2 DEF Min
<1>4. Min(S) = IF a <= b THEN a ELSE b
  BY <1>1, <1>3
<1> QED
  BY <1>1, <1>4

(* A signed score, clamped.                                                *)
LEMMA ClampedInt ==
  ASSUME NEW x \in Int
  PROVE  Max({0, Min({200, x})}) \in Int
<1>0. Min({200, x}) \in Int
  BY MinTwo
<1>1. PICK y : y = Min({200, x}) /\ y \in Int
  BY <1>0
<1>2. Max({0, y}) \in Int
  <2>1. 0 \in Int /\ y \in Int
    BY <1>1
  <2>2. Max({0, y}) = IF 0 >= y THEN 0 ELSE y
    BY <2>1, MaxTwo
  <2> QED
    BY <2>1, <2>2
<1> QED
  BY <1>1, <1>2

(* The seven components of a score are finitely many.                      *)
LEMMA SevenFinite ==
  ASSUME NEW a, NEW b, NEW c, NEW d, NEW e, NEW f, NEW g
  PROVE  IsFiniteSet({a, b, c, d, e, f, g})
<1>1. IsFiniteSet({a} \cup {b})
  BY FS_Singleton, FS_AddElement
<1>2. IsFiniteSet(({a} \cup {b}) \cup {c})
  BY <1>1, FS_AddElement
<1>3. IsFiniteSet((({a} \cup {b}) \cup {c}) \cup {d})
  BY <1>2, FS_AddElement
<1>4. IsFiniteSet(((({a} \cup {b}) \cup {c}) \cup {d}) \cup {e})
  BY <1>3, FS_AddElement
<1>5. IsFiniteSet((((({a} \cup {b}) \cup {c}) \cup {d}) \cup {e}) \cup {f})
  BY <1>4, FS_AddElement
<1>6. IsFiniteSet(((((({a} \cup {b}) \cup {c}) \cup {d}) \cup {e}) \cup {f}) \cup {g})
  BY <1>5, FS_AddElement
<1>7. (((((({a} \cup {b}) \cup {c}) \cup {d}) \cup {e}) \cup {f}) \cup {g})
        = {a, b, c, d, e, f, g}
  OBVIOUS
<1> QED
  BY <1>6, <1>7

(* A weighed sum of integers is an integer.                                *)
Weighed(x, w, S) == MapThenSumSet(LAMBDA c : x[c] * w[c], S)

(* A weighed sum of integers is an integer.                                *)
LEMMA WeighedInt ==
  ASSUME NEW S, IsFiniteSet(S), NEW x, NEW w, \A c \in S : x[c] \in Int /\ w[c] \in Int
  PROVE  Weighed(x, w, S) \in Int
<1> DEFINE v == [c \in S |-> x[c] * w[c]]
           h == CHOOSE g : g = [s \in SUBSET S |-> IF s = {} THEN 0 ELSE
                                  x[Pick(s)] * w[Pick(s)] + g[s \ {Pick(s)}]]
<1>0. \A c \in S : v[c] = x[c] * w[c] /\ v[c] \in Int
  OBVIOUS
<1> HIDE DEF v
<1>1. PICK g : Sums(v, S, g)
  BY IterExists
<1>2. \A s \in SUBSET S : s # {} => v[Pick(s)] = x[Pick(s)] * w[Pick(s)]
  BY <1>0 DEF Pick
<1>3. g = [s \in SUBSET S |-> IF s = {} THEN 0 ELSE
             x[Pick(s)] * w[Pick(s)] + g[s \ {Pick(s)}]]
  BY <1>1, <1>2 DEF Sums
<1>4. h = [s \in SUBSET S |-> IF s = {} THEN 0 ELSE
             x[Pick(s)] * w[Pick(s)] + h[s \ {Pick(s)}]]
  BY <1>3
<1>5. Weighed(x, w, S) = h[S]
  BY DEF Weighed, MapThenSumSet, MapThenFoldSet, Pick
<1> HIDE DEF h
<1>6. Sums(v, S, h)
  BY <1>4, <1>2 DEF Sums
<1>7. SumOver(v, S) = h[S]
  BY <1>6, SumOverIs
<1> QED
  BY <1>0, <1>5, <1>7, SumType

-----------------------------------------------------------------------------
(* The scores of the pipeline are whole numbers of their units.            *)

LEMMA PointsNat ==
  /\ MainlinePoint \in Nat /\ LeaderPoint \in Nat /\ CandidatePoint \in Nat
  /\ Whole \in Nat /\ Whole # 0
<1> DEFINE k == MainlinePolicy.top_k
           w == MainlinePolicy.window
<1>1. k \in Nat /\ w \in Nat /\ Whole \in Nat /\ Whole # 0
  BY MainlineStatesAssumption DEF ValidMainlinePolicy
<1>2. MainlinePoint = 2 * k * w * Whole
  BY DEF MainlinePoint
<1> HIDE DEF k, w
<1>3. MainlinePoint \in Nat
  BY <1>1, <1>2
<1> QED
  BY <1>1, <1>3 DEF LeaderPoint, CandidatePoint

(* The hits of a rank history can be counted.                              *)
LEMMA HitsNat ==
  ASSUME NEW ranks \in Seq(Ranks)
  PROVE  Hits(ranks) \in Nat
<1> DEFINE H == {k \in DOMAIN ranks : InTopK(ranks[k])}
<1>1. DOMAIN ranks = 1 .. Len(ranks) /\ Len(ranks) \in Nat
  OBVIOUS
<1>2. IsFiniteSet(1 .. Len(ranks))
  BY <1>1, FS_Interval
<1>3. IsFiniteSet(H)
  BY <1>1, <1>2, FS_Subset
<1> HIDE DEF H
<1>4. Cardinality(H) \in Nat
  BY <1>3, FS_CardinalityType
<1> QED
  BY <1>4 DEF Hits, H

(* The score of an industry (MainlineEngine's persistence and strength).   *)
LEMMA MainlineScoreInt ==
  ASSUME NEW rows \in IndustryTables, WellRanked(rows), NEW id, NEW ranks \in Seq(Ranks)
  PROVE  MainlineScore(rows, id, ranks) \in Int
<1> DEFINE p == MainlinePolicy
           k == p.top_k
           w == p.window
           strength == IF id \in ReadyRows(rows)
                       THEN Max({0, Min({200, rows[id].strength + 100})}) ELSE 0
           place == IF InTopK(Rank(rows, id)) THEN k - rows[id].rank + 1 ELSE 0
           a == p.strength_weight
           b == p.rank_weight
           c == p.persistence_weight
           hits == Hits(ranks)
<1>1. /\ k \in Nat /\ w \in Nat /\ a \in Nat /\ b \in Nat /\ c \in Nat
  BY MainlineStatesAssumption DEF ValidMainlinePolicy
<1>2. strength \in Int
  <2> SUFFICES ASSUME id \in ReadyRows(rows)
               PROVE  Max({0, Min({200, rows[id].strength + 100})}) \in Int
    OBVIOUS
  <2>1. rows[id].strength \in Int
    BY ResearchDaysAssumption
  <2>2. PICK x : x = rows[id].strength + 100 /\ x \in Int
    BY <2>1
  <2>3. Max({0, Min({200, x})}) \in Int
    BY <2>2, ClampedInt
  <2> QED
    BY <2>2, <2>3, Zenon
<1>3. place \in Int
  <2> SUFFICES ASSUME InTopK(Rank(rows, id)) PROVE rows[id].rank \in Int
    BY <1>1
  <2>1. Rank(rows, id) \in Ranks /\ Rank(rows, id) # Missing
    BY RankIs DEF InTopK
  <2>2. Rank(rows, id) = rows[id].rank
    BY <2>1 DEF Rank
  <2> QED
    BY <2>1, <2>2 DEF Ranks
<1>4. hits \in Int
  BY HitsNat
<1>5. MainlineScore(rows, id, ranks) =
        a * strength * k * w + 200 * b * place * w + 200 * c * hits * k
  BY DEF MainlineScore
<1> HIDE DEF k, w, a, b, c, strength, place, hits
<1>6. a * strength * k * w \in Int
  BY <1>1, <1>2
<1>7. 200 * b * place * w \in Int
  BY <1>1, <1>3
<1>8. 200 * c * hits * k \in Int
  BY <1>1, <1>4
<1> QED
  BY <1>5, <1>6, <1>7, <1>8

(* A signed component score (_signed_score).                               *)
LEMMA SignedInt ==
  ASSUME NEW score \in -100 .. 100 \cup {Missing}
  PROVE  Signed(score) \in Int
<1>1. CASE score = Missing
  BY <1>1 DEF Signed
<1>2. CASE score # Missing
  <2>1. score \in Int
    BY <1>2
  <2>2. PICK x : x = score + 100 /\ x \in Int
    BY <2>1
  <2>3. Max({0, Min({200, x})}) \in Int
    BY <2>2, ClampedInt
  <2>6. HalfPoints(score) \in Int
    BY <2>2, <2>3, Zenon DEF HalfPoints
  <2>7. PICK n : n = MainlinePoint * HalfPoints(score) /\ n \in Int
    BY <2>6, PointsNat
  <2>8. n \div 2 \in Int
    BY <2>7, DivInt
  <2> QED
    BY <1>2, <2>7, <2>8 DEF Signed
<1> QED
  BY <1>1, <1>2

(* A clamped component score (_clamp).                                     *)
LEMMA InPointsInt ==
  ASSUME NEW value \in Int
  PROVE  InPoints(value) \in Int
<1>1. Min({100, value}) \in Int
  BY MinTwo
<1>2. PICK y : y = Min({100, value}) /\ y \in Int
  BY <1>1
<1>3. Max({0, y}) \in Int
  BY <1>2, MaxTwo
<1> QED
  BY <1>2, <1>3 DEF InPoints

(* A score in whole points.                                                *)
LEMMA PointsInt == ASSUME NEW n \in Int PROVE Points(n) \in Int
BY PointsNat DEF Points

(* A component of two parts.                                               *)
LEMMA BlendInt ==
  ASSUME NEW a \in Int, NEW w \in Int, NEW b \in Int
  PROVE  Blend(a, w, b) \in Int
<1>1. PICK n : n = a * w + b * (Whole - w) /\ n \in Int
  BY PointsNat
<1>2. n \div Whole \in Int
  BY <1>1, PointsNat, DivInt
<1> QED
  BY <1>1, <1>2 DEF Blend

(* The return rank among the leaders of a theme.                           *)
LEMMA ThemeRankInt ==
  ASSUME NEW stocks, NEW lead, IsFiniteSet(lead), NEW s
  PROVE  ThemeReturnRank(stocks, lead, s) \in Int
<1> DEFINE peers == ThemePeers(stocks, lead, s)
           below == {t \in peers : stocks[t].return < stocks[s].return}
           equal == {t \in peers : stocks[t].return = stocks[s].return}
<1>1. IsFiniteSet(peers)
  <2>1. peers \subseteq lead
    BY DEF ThemePeers
  <2> QED
    BY <2>1, FS_Subset
<1> HIDE DEF peers
<1>2. below \subseteq peers /\ equal \subseteq peers
  OBVIOUS
<1> HIDE DEF below, equal
<1>3. Cardinality(below) \in Nat /\ Cardinality(equal) \in Nat /\ Cardinality(peers) \in Nat
  BY <1>1, <1>2, FS_Subset, FS_CardinalityType
<1>4. peers # {} => Cardinality(peers) # 0
  BY <1>1, FS_EmptySet
<1>5. ThemeReturnRank(stocks, lead, s) =
        IF peers = {} THEN 0
        ELSE (50 * (2 * Cardinality(below) + Cardinality(equal))) \div Cardinality(peers)
  BY DEF ThemeReturnRank, peers, below, equal
<1>6. CASE peers = {}
  BY <1>5, <1>6
<1>7. CASE peers # {}
  <2>1. PICK n : n = 50 * (2 * Cardinality(below) + Cardinality(equal)) /\ n \in Int
    BY <1>3
  <2>2. n \div Cardinality(peers) \in Int
    BY <1>3, <1>4, <1>7, <2>1, DivInt
  <2> QED
    BY <1>5, <1>7, <2>1, <2>2
<1> QED
  BY <1>6, <1>7

(* The gross score and the penalty of a leader.                            *)
LEMMA LeaderInt ==
  ASSUME NEW line, NEW stocks, NEW lead, IsFiniteSet(lead), NEW s \in lead,
         ValidFeatures(stocks[s]),
         line.industries[stocks[s].industry].score \in Int,
         line.industries[stocks[s].industry].crowding \in Nat
  PROVE  /\ Leader(line, stocks, lead, s).gross \in Int
         /\ Leader(line, stocks, lead, s).penalty \in Int
<1> DEFINE f == stocks[s]
           p == LeaderPolicy
           component == LeaderComponent(line, stocks, lead, s)
           industry == line.industries[f.industry]
<1>1. /\ \A c \in LeaderComponents : p.weights[c] \in Nat
      /\ p.liquidity_percentile \in Int /\ p.theme_return_rank \in Int /\ p.downside_relative \in Int
      /\ p.capacity_full \in Nat \ {0} /\ p.pullback_tolerance \in Nat \ {0}
      /\ p.maximum_penalty \in Int /\ p.degraded_penalty \in Int
      /\ p.crowded_rate \in Int /\ p.risk_multiplier \in Int
  BY StockLeadersAssumption, PointsNat DEF ValidLeaderPolicy, Percent
<1>2. /\ f.industry_relative \in -100 .. 100 \cup {Missing}
      /\ f.benchmark_relative \in -100 .. 100 \cup {Missing}
      /\ f.trend \in -100 .. 100 \cup {Missing}
      /\ f.volume \in -100 .. 100 \cup {Missing}
      /\ f.percentile # Missing => f.percentile \in Int
      /\ f.trend # Missing => f.pullback \in Int
      /\ f.capacity \in Int /\ f.quality \in Int /\ f.penalty \in Int
  BY DEF ValidFeatures, Percent
<1>3. industry.score \in Int /\ industry.crowding \in Int
  OBVIOUS
<1> DEFINE x1 == Signed(f.industry_relative)
           x2 == Signed(f.trend)
           y3 == IF f.percentile = Missing THEN 0 ELSE f.percentile
           c3 == (100 * f.capacity) \div p.capacity_full
           x3 == Blend(Points(y3), p.liquidity_percentile, Points(InPoints(c3)))
           x4 == Blend(Points(ThemeReturnRank(stocks, lead, s)), p.theme_return_rank, Signed(f.volume))
           y5 == IF f.trend = Missing THEN 100 ELSE f.pullback
           c5 == (100 * y5) \div p.pullback_tolerance
           x5 == Blend(Signed(f.benchmark_relative), p.downside_relative, Points(InPoints(100 - c5)))
           x7 == Points(f.quality)
<1>4. component = [within_theme |-> x1, trend |-> x2, liquidity |-> x3, theme_leadership |-> x4,
                   downside |-> x5, logic |-> industry.score, fundamental |-> x7]
  BY DEF LeaderComponent
<1>5. x1 \in Int /\ x2 \in Int /\ Signed(f.volume) \in Int /\ Signed(f.benchmark_relative) \in Int
  BY <1>2, SignedInt
<1>6. x3 \in Int
  <2>1. y3 \in Int
    BY <1>2
  <2>2. PICK n : n = 100 * f.capacity /\ n \in Int
    BY <1>2
  <2>3. n \div p.capacity_full \in Int
    BY <1>1, <2>2, DivInt
  <2>4. c3 \in Int
    BY <2>2, <2>3
  <2> HIDE DEF y3, c3
  <2>5. Points(y3) \in Int /\ InPoints(c3) \in Int
    BY <2>1, <2>4, PointsInt, InPointsInt
  <2>6. Points(InPoints(c3)) \in Int
    BY <2>5, PointsInt
  <2> QED
    BY <1>1, <2>5, <2>6, BlendInt
<1>7. x4 \in Int
  <2>1. ThemeReturnRank(stocks, lead, s) \in Int
    BY ThemeRankInt
  <2>2. Points(ThemeReturnRank(stocks, lead, s)) \in Int
    BY <2>1, PointsInt
  <2> QED
    BY <1>1, <1>5, <2>2, BlendInt
<1>8. x5 \in Int
  <2>1. y5 \in Int
    BY <1>2
  <2> HIDE DEF y5
  <2>2. PICK n : n = 100 * y5 /\ n \in Int
    BY <2>1
  <2>3. n \div p.pullback_tolerance \in Int
    BY <1>1, <2>2, DivInt
  <2>4. c5 \in Int
    BY <2>2, <2>3
  <2> HIDE DEF c5
  <2>5. PICK d : d = 100 - c5 /\ d \in Int
    BY <2>4
  <2>6. InPoints(d) \in Int
    BY <2>5, InPointsInt
  <2>7. Points(InPoints(d)) \in Int
    BY <2>6, PointsInt
  <2> QED
    BY <1>1, <1>5, <2>5, <2>7, BlendInt
<1>9. x7 \in Int
  BY <1>2, PointsInt
<1> HIDE DEF x1, x2, x3, x4, x5, x7, component
<1>10. LeaderGross(component) \in Int
  <2>1. \A c \in LeaderComponents : component[c] \in Int
    BY <1>3, <1>4, <1>5, <1>6, <1>7, <1>8, <1>9 DEF LeaderComponents
  <2>2. IsFiniteSet(LeaderComponents)
    BY SevenFinite DEF LeaderComponents
  <2>3. \A c \in LeaderComponents : p.weights[c] \in Int
    BY <1>1
  <2>4. Weighed(component, LeaderPolicy.weights, LeaderComponents) \in Int
    BY <2>1, <2>2, <2>3, WeighedInt
  <2> QED
    BY <2>4 DEF LeaderGross, Weighed
<1>11. LeaderPenalty(line, f) \in Int
  <2> DEFINE a == f.penalty * p.risk_multiplier * LeaderPoint
             n == 100 * industry.crowding * p.crowded_rate * MainlinePoint
             b == IF industry.state = "CROWDED" THEN n \div 3 ELSE 0
             c == IF f.status = "DEGRADED" THEN p.degraded_penalty * LeaderPoint ELSE 0
             m == p.maximum_penalty * LeaderPoint
  <2>1. a \in Int /\ c \in Int /\ m \in Int
    BY <1>1, <1>2, PointsNat
  <2>2. n \in Int
    <3>1. PICK u : u = industry.crowding /\ u \in Int
      BY <1>3
    <3>2. PICK v : v = p.crowded_rate /\ v \in Int
      BY <1>1
    <3>3. 100 * u * v * MainlinePoint \in Int
      BY <3>1, <3>2, PointsNat
    <3> QED
      BY <3>1, <3>2, <3>3
  <2>3. b \in Int
    <3> HIDE DEF n
    <3> QED
      BY <2>2, DivInt
  <2>4. LeaderPenalty(line, f) = Min({m, a + b + c})
    BY DEF LeaderPenalty
  <2> HIDE DEF a, b, c, m
  <2>5. PICK t : t = a + b + c /\ t \in Int
    BY <2>1, <2>3
  <2>6. Min({m, t}) \in Int
    BY <2>1, <2>5, MinTwo
  <2> QED
    BY <2>4, <2>5, <2>6
<1> QED
  BY <1>10, <1>11 DEF Leader, component

(* The score of a candidate, and the penalty it is measured against.       *)
LEMMA CandidateInt ==
  ASSUME NEW now, NEW line, NEW leader, NEW f, ValidFeatures(f), now.final \in Regimes,
         line.industries[leader.industry].score \in Int,
         leader.gross \in Int, leader.penalty \in Int
  PROVE  /\ Scored(now, line, leader, f).score \in Nat
         /\ Scored(now, line, leader, f).penalty \in Int
         /\ Scored(now, line, leader, f).penalty <= 100 * CandidatePoint
<1> DEFINE p == CandidatePolicy
           component == CandidateComponent(now, line, leader, f)
           gross == CandidateGross(component)
           penalty == CandidatePenalty(leader, f)
<1>1. /\ \A c \in CandidateComponents : p.weights[c] \in Int
      /\ p.regime_scores[now.final] \in Int
      /\ p.maximum_penalty \in 0 .. 100
  BY StockCandidatesAssumption DEF ValidCandidatePolicy, Percent
<1>2. /\ f.trend \in -100 .. 100 \cup {Missing}
      /\ f.volume \in -100 .. 100 \cup {Missing}
      /\ f.adjusted_quality \in Int
      /\ f.event # Missing => f.event.score \in Int /\ f.event.penalty \in Int
      /\ f.valuation # Missing => f.valuation.score \in Int /\ f.valuation.penalty \in Int
  BY DEF ValidFeatures, Percent
<1>3. /\ SignalScore(f.event) \in Int /\ SignalPenalty(f.event) \in Int
      /\ SignalScore(f.valuation) \in Int /\ SignalPenalty(f.valuation) \in Int
  BY <1>2 DEF SignalScore, SignalPenalty
<1>4. Max({f.adjusted_quality, SignalScore(f.event)}) \in Int
  BY <1>2, <1>3, MaxTwo
<1>5. Signed(f.trend) \in Int /\ Signed(f.volume) \in Int
  BY <1>2, SignedInt
<1> DEFINE x1 == p.regime_scores[now.final] * LeaderPoint
           x2 == line.industries[leader.industry].score * Whole
           x4 == Signed(f.trend) * Whole
           x5 == Signed(f.volume) * Whole
           x6 == LeaderPoint * Max({f.adjusted_quality, SignalScore(f.event)})
           x7 == LeaderPoint * SignalScore(f.valuation)
<1>6. /\ x1 \in Int /\ x2 \in Int /\ x4 \in Int /\ x5 \in Int /\ x6 \in Int /\ x7 \in Int
  BY <1>1, <1>3, <1>4, <1>5, PointsNat
<1>7. component = [regime |-> x1, theme |-> x2, leader |-> leader.gross, trend |-> x4,
                   volume |-> x5, fundamental_or_event |-> x6, valuation |-> x7]
  BY DEF CandidateComponent
<1> HIDE DEF x1, x2, x4, x5, x6, x7, component
<1>8. gross \in Int
  <2>1. \A c \in CandidateComponents : component[c] \in Int
    BY <1>6, <1>7 DEF CandidateComponents
  <2>2. IsFiniteSet(CandidateComponents)
    BY SevenFinite DEF CandidateComponents
  <2>3. Weighed(component, CandidatePolicy.weights, CandidateComponents) \in Int
    BY <1>1, <2>1, <2>2, WeighedInt
  <2> QED
    BY <2>3 DEF CandidateGross, Weighed
<1>9. penalty \in Int /\ penalty <= 100 * CandidatePoint
  <2> DEFINE m == p.maximum_penalty * CandidatePoint
             t == leader.penalty * Whole
                    + (SignalPenalty(f.event) + SignalPenalty(f.valuation)) * CandidatePoint
  <2>1. m \in Int /\ m <= 100 * CandidatePoint
    BY <1>1, PointsNat
  <2>2. t \in Int
    BY <1>3, PointsNat
  <2>3. penalty = Min({m, t})
    BY DEF CandidatePenalty
  <2> HIDE DEF m, t, penalty
  <2>4. penalty = IF m <= t THEN m ELSE t
    BY <2>1, <2>2, <2>3, MinTwo
  <2> QED
    BY <2>1, <2>2, <2>4, PointsNat
<1> HIDE DEF gross, penalty
<1>10. PICK d : d = gross - penalty /\ d \in Int
  BY <1>8, <1>9
<1>11. Max({0, d}) \in Nat
  BY <1>10, MaxTwo
<1>12. Scored(now, line, leader, f).score = Max({0, d}) /\ Scored(now, line, leader, f).penalty = penalty
  BY <1>10 DEF Scored, gross, penalty, component
<1> QED
  BY <1>9, <1>11, <1>12

-----------------------------------------------------------------------------
(* The invariant of the pipeline, and the steps that keep it.              *)

(* What a session has got so far belongs to the session: each step's       *)
(* result is of the results before it.                                     *)
RegimeInv ==
  /\ session \in Nat /\ regimes.last \in Nat /\ regimes.last <= session
  /\ outcome # Missing =>
       /\ outcome.session = regimes.last /\ outcome.version = Version
       /\ outcome.final = regimes.current /\ outcome.final \in Regimes
       /\ outcome.raw.budget \in Percent

(* The session's industries are of the session's market state, and show    *)
(* what the engine tracks.                                                 *)
MainlineInv ==
  /\ mainlines.last \in Nat /\ mainlines.last <= session
  /\ mainline # Missing =>
       /\ outcome # Missing /\ regimes.last = session /\ mainlines.last = session
       /\ mainline.session = session /\ mainline.version = Version
       /\ mainline.outcome = outcome
       /\ DOMAIN mainline.industries = DOMAIN mainlines.tracked
       /\ \A id \in DOMAIN mainline.industries :
            /\ mainline.industries[id].state = mainlines.tracked[id].state
            /\ mainline.industries[id].score \in Int
            /\ mainline.industries[id].crowding \in Nat

(* The session's candidates are what the leaders and candidates engines    *)
(* make of the session's industries and features.                          *)
PoolInv ==
  pool # Missing =>
    /\ mainline # Missing
    /\ features.stocks \in CrossSections
    /\ RankLeaders(mainline, features) # Refused /\ pool # Refused
    /\ pool = RankCandidates(outcome, mainline, RankLeaders(mainline, features), features)

(* The portfolio held: finitely many stocks, each with a positive weight   *)
(* of at most the whole.                                                   *)
PortfolioInv ==
  /\ IsFiniteSet(DOMAIN portfolio.positions) /\ DOMAIN portfolio.positions \subseteq Nat
  /\ \A s \in DOMAIN portfolio.positions : portfolio.positions[s].weight \in 1 .. WeightUnit

(* A decision is made from candidates.                                     *)
AnswerInv == answer # Missing => pool # Missing

(* What the steps of one session hand to one another.                      *)
PipelineInv == RegimeInv /\ MainlineInv /\ PoolInv /\ AnswerInv

(* The candidates of a session.                                            *)
CandidatesSound ==
  /\ pool.outcome = outcome /\ pool.mainline = mainline
  /\ pool.session = session /\ pool.version = Version
  /\ IsFiniteSet(DOMAIN pool.candidates) /\ DOMAIN pool.candidates \subseteq Nat
  /\ \A s \in DOMAIN pool.candidates :
       /\ pool.candidates[s].industry \in DOMAIN mainline.industries
       /\ pool.ranking.leaders[s].eligible =>
            features.stocks[s].eligible /\ ~features.stocks[s].blocked
       /\ pool.candidates[s].score \in Nat
       /\ pool.candidates[s].penalty \in Int
       /\ pool.candidates[s].penalty <= 100 * CandidatePoint

(* The candidates of a session are of the industries, features and market  *)
(* state of that session (_validate_alignment).                            *)
LEMMA PoolIs ==
  ASSUME RegimeInv, MainlineInv, PoolInv, pool # Missing
  PROVE  CandidatesSound
<1> DEFINE ranking == RankLeaders(mainline, features)
           lead == Leading(mainline, features)
           stocks == features.stocks
           leader(s) == Leader(mainline, stocks, lead, s)
           scored(s) == Scored(outcome, mainline, leader(s), stocks[s])
<1>1. /\ mainline # Missing /\ stocks \in CrossSections
      /\ ranking # Refused /\ pool # Refused
      /\ pool = RankCandidates(outcome, mainline, ranking, features)
  BY DEF PoolInv
<1>2. /\ IsFiniteSet(DOMAIN stocks) /\ DOMAIN stocks \subseteq Nat
      /\ \A s \in DOMAIN stocks : ValidFeatures(stocks[s])
  <2>1. \A x \in CrossSections : /\ IsFiniteSet(DOMAIN x) /\ DOMAIN x \subseteq Nat
                                 /\ \A s \in DOMAIN x : ValidFeatures(x[s])
    BY ResearchDaysAssumption
  <2> HIDE DEF stocks
  <2> QED
    BY <1>1, <2>1
<1>3. lead \subseteq DOMAIN stocks
  BY DEF Leading
<1>4. IsFiniteSet(lead) /\ lead \subseteq Nat
  BY <1>2, <1>3, FS_Subset
<1>5. ranking = [session |-> mainline.session, version |-> mainline.version,
                 mainline |-> mainline, leaders |-> [s \in lead |-> leader(s)]]
  BY <1>1 DEF RankLeaders
<1>6. ranking.leaders = [s \in lead |-> leader(s)] /\ DOMAIN ranking.leaders = lead
  BY <1>5
<1> DEFINE table == [s \in lead |-> scored(s)]
           candidates == [s \in lead |->
                            [industry |-> table[s].industry, score |-> table[s].score,
                             penalty |-> table[s].penalty, tier |-> table[s].tier,
                             rank |-> EligibleRank(table, s)]]
<1>7. [s \in DOMAIN ranking.leaders |->
          Scored(outcome, mainline, ranking.leaders[s], features.stocks[s])] = table
  BY <1>6
<1>8. /\ pool.outcome = outcome /\ pool.mainline = mainline /\ pool.ranking = ranking
      /\ pool.session = mainline.session /\ pool.version = mainline.version
      /\ pool.candidates = candidates
  <2> HIDE DEF ranking
  <2>1. CandidatesAlign(outcome, mainline, ranking, features)
    BY <1>1 DEF RankCandidates
  <2> DEFINE all == [s \in DOMAIN ranking.leaders |->
                        Scored(outcome, mainline, ranking.leaders[s], features.stocks[s])]
  <2>2. pool = [outcome |-> outcome, mainline |-> mainline, ranking |-> ranking,
                session |-> mainline.session, version |-> mainline.version,
                candidates |-> [s \in DOMAIN all |->
                  [industry |-> all[s].industry, score |-> all[s].score,
                   penalty |-> all[s].penalty, tier |-> all[s].tier,
                   rank |-> EligibleRank(all, s)]]]
    BY <1>1, <2>1 DEF RankCandidates
  <2>3. all = table /\ DOMAIN table = lead
    BY <1>7
  <2> HIDE DEF all, table
  <2> QED
    BY <2>2, <2>3
<1>9. outcome.final \in Regimes /\ mainline.session = session /\ mainline.version = Version
      /\ \A id \in DOMAIN mainline.industries :
            mainline.industries[id].score \in Int /\ mainline.industries[id].crowding \in Nat
  BY <1>1 DEF RegimeInv, MainlineInv
<1>10. ASSUME NEW s \in lead
       PROVE  /\ candidates[s].industry \in DOMAIN mainline.industries
              /\ ranking.leaders[s].eligible => stocks[s].eligible /\ ~stocks[s].blocked
              /\ candidates[s].score \in Nat
              /\ candidates[s].penalty \in Int
              /\ candidates[s].penalty <= 100 * CandidatePoint
  <2>1. stocks[s].industry \in DOMAIN mainline.industries /\ s \in DOMAIN stocks
    BY DEF Leading
  <2>2. leader(s).industry = stocks[s].industry
    BY DEF Leader
  <2>3. ranking.leaders[s] = leader(s)
    BY <1>6
  <2>4. leader(s).eligible = Tradeable(stocks[s], leader(s).type, leader(s).score)
    BY DEF Leader
  <2>5. /\ candidates[s].industry = scored(s).industry /\ candidates[s].score = scored(s).score
        /\ candidates[s].penalty = scored(s).penalty
    OBVIOUS
  <2>6. scored(s).industry = leader(s).industry
    BY DEF Scored
  <2>7. ValidFeatures(stocks[s])
    BY <1>2, <2>1
  <2>8. /\ mainline.industries[stocks[s].industry].score \in Int
        /\ mainline.industries[stocks[s].industry].crowding \in Nat
    BY <1>9, <2>1
  <2>9. leader(s).gross \in Int /\ leader(s).penalty \in Int
    <3> HIDE DEF lead, stocks
    <3> QED
      BY <1>4, <2>7, <2>8, LeaderInt
  <2> HIDE DEF candidates, stocks, ranking
  <2>10. /\ scored(s).score \in Nat /\ scored(s).penalty \in Int
         /\ scored(s).penalty <= 100 * CandidatePoint
    <3>1. PICK l : l = leader(s)
      OBVIOUS
    <3>2. l.gross \in Int /\ l.penalty \in Int /\ mainline.industries[l.industry].score \in Int
      BY <2>2, <2>8, <2>9, <3>1
    <3>3. PICK f : f = stocks[s]
      OBVIOUS
    <3>4. ValidFeatures(f) /\ outcome.final \in Regimes
      BY <1>9, <2>7, <3>3
    <3> HIDE DEF leader
    <3>5. /\ Scored(outcome, mainline, l, f).score \in Nat
          /\ Scored(outcome, mainline, l, f).penalty \in Int
          /\ Scored(outcome, mainline, l, f).penalty <= 100 * CandidatePoint
      BY <3>2, <3>4, CandidateInt
    <3> QED
      BY <3>1, <3>3, <3>5
  <2>11. ranking.leaders[s].eligible => stocks[s].eligible /\ ~stocks[s].blocked
    <3>1. Tradeable(stocks[s], leader(s).type, leader(s).score)
            => stocks[s].eligible /\ ~stocks[s].blocked
      BY DEF Tradeable
    <3> QED
      BY <2>3, <2>4, <3>1
  <2> HIDE DEF leader
  <2> QED
    BY <2>1, <2>2, <2>5, <2>6, <2>10, <2>11
<1>11. DOMAIN candidates = lead
  OBVIOUS
<1> HIDE DEF candidates, lead, ranking
<1> QED
  BY <1>4, <1>8, <1>9, <1>10, <1>11 DEF CandidatesSound, stocks

(* What a share is measured by is never negative.                          *)
LEMMA BasisNat ==
  ASSUME CandidatesSound, NEW s \in DOMAIN pool.candidates
  PROVE  Basis(pool, s) \in Nat
<1> DEFINE a == pool.candidates[s].score
           b == 100 * CandidatePoint - pool.candidates[s].penalty
<1>1. a \in Nat /\ b \in Nat
  BY PointsNat DEF CandidatesSound
<1> HIDE DEF a, b
<1>2. a * b \in Nat
  BY <1>1
<1> QED
  BY <1>2 DEF Basis, a, b

-----------------------------------------------------------------------------
(* The effective state is one of the five.                                 *)
LEMMA DecisionNames ==
  ASSUME NEW engine, NEW result, result.regime \in Regimes,
         engine.current \in Regimes \cup {Missing}
  PROVE  Decision(engine, result).final \in Regimes
<1>1. CASE engine.current = Missing
  BY <1>1 DEF Decision, Settled
<1>2. CASE engine.current # Missing /\ engine.current = result.regime
  BY <1>2 DEF Decision, Settled
<1>3. CASE engine.current # Missing /\ engine.current # result.regime
  BY <1>3 DEF Decision, Settled, AdvancedTo
<1> QED
  BY <1>1, <1>2, <1>3

(* The invariant holds before the first session.                           *)
LEMMA InitPipeline == ResearchInit => PipelineInv /\ StreakInv /\ PortfolioInv /\ HistoryHolds(mainlines, leading)
<1> SUFFICES ASSUME ResearchInit PROVE PipelineInv /\ StreakInv /\ PortfolioInv /\ HistoryHolds(mainlines, leading)
  OBVIOUS
<1>1. PipelineInv
  BY DEF ResearchInit, PipelineInv, RegimeInv, MainlineInv, PoolInv, AnswerInv, NewTransitionEngine, NewMainlineEngine
<1>2. StreakInv
  BY MarketRegimeAssumption DEF ResearchInit, StreakInv, NewTransitionEngine
<1>3. PortfolioInv
  <2>1. portfolio.positions = Opening
    BY DEF ResearchInit
  <2> QED
    BY <2>1, ResearchDaysAssumption DEF PortfolioInv
<1>4. HistoryHolds(mainlines, leading)
  <2>1. /\ mainlines.sessions = 0 /\ mainlines.histories = << >> /\ mainlines.tracked = << >>
        /\ leading = << >>
    BY DEF ResearchInit, NewMainlineEngine
  <2>2. leading \in Seq(SUBSET Ids) /\ Len(leading) = 0 /\ DOMAIN mainlines.histories = {}
        /\ DOMAIN mainlines.tracked = {}
    BY <2>1
  <2>3. 0 <= Memory
    BY WindowIs
  <2> QED
    BY <2>1, <2>2, <2>3 DEF HistoryHolds
<1> QED
  BY <1>1, <1>2, <1>3, <1>4

(* Classifying the market keeps the pipeline sound, and changes the        *)
(* effective state exactly when the streak is long enough.                 *)
LEMMA ClassifyKeeps ==
  ASSUME PipelineInv, StreakInv, NEW market, ClassifyMarket(market)
  PROVE  PipelineInv' /\ StreakInv' /\ answer' = Missing /\ UNCHANGED << portfolio, mainlines, leading >>
         /\ (regimes.current # Missing =>
               regimes'.current = IF streak'.length >= RequiredSessions(outcome'.raw)
                                  THEN streak'.regime ELSE regimes.current)
<1>1. PICK result :
        /\ result.regime \in Regimes /\ result.session = session /\ result.version = Version
        /\ result.budget = RegimePolicy.budgets[result.regime]
        /\ NextInSequence(regimes, result)
        /\ AcceptedDecision(Decision(regimes, result))
        /\ regimes' = [last |-> session, version |-> Version,
                       current |-> Decision(regimes, result).final,
                       candidate |-> Decision(regimes, result).candidate,
                       count |-> Decision(regimes, result).count,
                       required |-> Decision(regimes, result).required]
        /\ outcome' = [session |-> session, version |-> Version, raw |-> result,
                       final |-> Decision(regimes, result).final,
                       action |-> Decision(regimes, result).action]
        /\ streak' = Lengthened(result)
  BY ClassifyTakes
<1>2. UNCHANGED << session, mainlines, mainline, features, pool, portfolio, answer, leading >>
  BY DEF ClassifyMarket
<1> DEFINE d == Decision(regimes, result)
<1>3. regimes'.current = d.final /\ regimes'.candidate = d.candidate /\ regimes'.count = d.count
      /\ regimes'.last = session
      /\ outcome'.raw = result /\ outcome'.session = session /\ outcome'.version = Version
      /\ outcome'.final = d.final
  BY <1>1
<1>4. /\ StreakInv'
      /\ regimes.current # Missing =>
           regimes'.current = IF streak'.length >= RequiredSessions(result)
                              THEN streak'.regime ELSE regimes.current
  BY <1>1, <1>3, StreakStep
<1>5. d.final \in Regimes
  <2>1. regimes.current \in Regimes \cup {Missing}
    BY DEF StreakInv
  <2> QED
    BY <1>1, <2>1, DecisionNames
<1>6. result.budget \in Percent
  BY <1>1, MarketRegimeAssumption DEF ValidRegimePolicy
<1>7. mainline = Missing
  BY <1>1 DEF PipelineInv, RegimeInv, MainlineInv, NextInSequence
<1>8. pool = Missing /\ answer = Missing
  BY <1>7 DEF PipelineInv, PoolInv, AnswerInv
<1> HIDE DEF d
<1>9. RegimeInv'
  BY <1>2, <1>3, <1>5, <1>6 DEF PipelineInv, RegimeInv
<1>10. MainlineInv'
  BY <1>2, <1>7 DEF PipelineInv, MainlineInv
<1>11. PoolInv' /\ AnswerInv'
  BY <1>2, <1>8 DEF PoolInv, AnswerInv
<1> QED
  BY <1>2, <1>3, <1>4, <1>8, <1>9, <1>10, <1>11 DEF PipelineInv

(* Advancing the industries keeps the pipeline and the history.            *)
LEMMA UpdateKeeps ==
  ASSUME PipelineInv, HistoryHolds(mainlines, leading),
         NEW rows \in IndustryTables, UpdateMainlines(rows)
  PROVE  /\ PipelineInv' /\ HistoryHolds(mainlines', leading')
         /\ answer' = Missing /\ UNCHANGED << regimes, outcome, portfolio, streak >>
<1> DEFINE snapshot == [session |-> session, version |-> Version, rows |-> rows]
           taken == ProcessMainlines(mainlines, snapshot, outcome)
           histories == NextHistories(mainlines, rows)
           next == [id \in Candidates(mainlines, rows) |->
                      NextTracked(rows, id, histories[id],
                                  Known(mainlines.tracked, id), outcome)]
           kept == {id \in DOMAIN next : next[id] # Missing}
<1>1. /\ outcome # Missing /\ taken # Refused
      /\ mainlines' = taken.engine /\ mainline' = taken.mainline
      /\ leading' = Recorded(leading, TopK(rows), Memory)
      /\ UNCHANGED << session, regimes, outcome, features, pool, portfolio, answer, streak >>
  BY DEF UpdateMainlines, Recorded, TopK
<1>2. ConsumesOutcome(mainlines, snapshot, outcome) /\ WellRanked(rows)
  BY <1>1 DEF ProcessMainlines
<1>3. outcome.session = session /\ session > mainlines.last
  BY <1>2 DEF ConsumesOutcome
<1>4. regimes.last = session
  BY <1>1, <1>3 DEF PipelineInv, RegimeInv
<1>5. mainline = Missing
  BY <1>3 DEF PipelineInv, RegimeInv, MainlineInv
<1>6. pool = Missing /\ answer = Missing
  BY <1>5 DEF PipelineInv, PoolInv, AnswerInv
<1>7. HistoryHolds(mainlines', leading')
  <2>1. PICK snap : snap = snapshot
    OBVIOUS
  <2>2. HistoryHolds(ProcessMainlines(mainlines, snap, outcome).engine,
                     Recorded(leading, TopK(rows), Memory))
    <3>1. ProcessMainlines(mainlines, snap, outcome) # Refused
      BY <1>1, <2>1
    <3> QED
      BY <2>1, <3>1, MainlineStep
  <2> QED
    BY <1>1, <2>1, <2>2
<1>8. /\ mainlines'.last = session
      /\ mainlines'.tracked = [id \in kept |-> next[id]]
      /\ mainline'.session = session /\ mainline'.version = Version
      /\ mainline'.outcome = outcome
      /\ mainline'.industries = [id \in kept |->
           [state |-> next[id].state,
            score |-> MainlineScore(rows, id, histories[id]),
            crowding |-> Cardinality(CrowdingSignals(rows, id))]]
  BY <1>1, <1>2 DEF ProcessMainlines
<1>9. ASSUME NEW id \in kept
      PROVE  /\ MainlineScore(rows, id, histories[id]) \in Int
             /\ Cardinality(CrowdingSignals(rows, id)) \in Nat
  <2>1. id \in DOMAIN mainlines.histories \cup DOMAIN rows
    BY DEF Candidates, HistoryHolds
  <2> HIDE DEF histories, next, kept
  <2>2. Tells(NextHistories(mainlines, rows)[id], Recorded(leading, TopK(rows), Memory),
              id, mainlines.sessions + 1)
    BY <1>2, <2>1, HistoryGrows
  <2>3. histories[id] \in Seq(Ranks)
    BY <2>2 DEF Tells, histories
  <2>4. IsFiniteSet(Heat)
    <3>1. IsFiniteSet(({"TURNOVER_GROWTH"} \cup {"NEW_HIGH_HEAT"}) \cup {"TURNOVER_CONCENTRATION"})
      BY FS_Singleton, FS_AddElement
    <3>2. Heat = ({"TURNOVER_GROWTH"} \cup {"NEW_HIGH_HEAT"}) \cup {"TURNOVER_CONCENTRATION"}
      BY DEF Heat
    <3> QED
      BY <3>1, <3>2
  <2>5. CrowdingSignals(rows, id) \subseteq Heat
    BY DEF CrowdingSignals
  <2>6. Cardinality(CrowdingSignals(rows, id)) \in Nat
    BY <2>4, <2>5, FS_Subset, FS_CardinalityType
  <2>7. MainlineScore(rows, id, histories[id]) \in Int
    BY <1>2, <2>3, MainlineScoreInt
  <2> QED
    BY <2>6, <2>7
<1> HIDE DEF next, histories, taken, snapshot, kept
<1>10. MainlineInv'
  <2>1. session \in Nat
    BY DEF PipelineInv, RegimeInv
  <2>2. DOMAIN mainline'.industries = kept /\ DOMAIN mainlines'.tracked = kept
    BY <1>8
  <2>3. ASSUME NEW id \in kept
        PROVE  /\ mainline'.industries[id].state = mainlines'.tracked[id].state
               /\ mainline'.industries[id].score \in Int
               /\ mainline'.industries[id].crowding \in Nat
    BY <1>8, <1>9
  <2> QED
    BY <1>1, <1>4, <1>8, <2>1, <2>2, <2>3 DEF MainlineInv
<1>11. RegimeInv'
  BY <1>1 DEF PipelineInv, RegimeInv
<1>12. PoolInv' /\ AnswerInv'
  BY <1>1, <1>6 DEF PoolInv, AnswerInv
<1> QED
  BY <1>1, <1>6, <1>7, <1>10, <1>11, <1>12 DEF PipelineInv

(* Ranking the stocks keeps the pipeline.                                  *)
LEMMA RankKeeps ==
  ASSUME PipelineInv, NEW stocks \in CrossSections, RankStocks(stocks)
  PROVE  /\ PipelineInv' /\ answer' = Missing
         /\ UNCHANGED << regimes, mainlines, outcome, portfolio, streak, leading >>
<1> DEFINE today == [session |-> session, version |-> Version, stocks |-> stocks]
<1>1. /\ mainline # Missing /\ pool' # Refused /\ features' = today /\ answer' = Missing
      /\ UNCHANGED << session, regimes, mainlines, outcome, mainline, portfolio, streak, leading >>
  BY DEF RankStocks, engines
<1>2. RankLeaders(mainline, today) # Refused
      /\ pool' = RankCandidates(outcome, mainline, RankLeaders(mainline, today), today)
  BY DEF RankStocks
<1>3. today.stocks \in CrossSections
  OBVIOUS
<1> HIDE DEF today
<1>4. PoolInv'
  BY <1>1, <1>2, <1>3 DEF PoolInv
<1>5. RegimeInv' /\ MainlineInv' /\ AnswerInv'
  BY <1>1 DEF PipelineInv, RegimeInv, MainlineInv, AnswerInv
<1> QED
  BY <1>1, <1>4, <1>5 DEF PipelineInv

(* The next session starts without results.                                *)
LEMMA SessionKeeps ==
  ASSUME PipelineInv, NextSession
  PROVE  /\ PipelineInv' /\ answer' = Missing
         /\ UNCHANGED << regimes, mainlines, outcome, portfolio, streak, leading >>
<1>1. /\ session' = session + 1 /\ mainline' = Missing /\ pool' = Missing /\ answer' = Missing
      /\ UNCHANGED << regimes, mainlines, outcome, portfolio, streak, leading >>
  BY DEF NextSession, engines
<1>2. RegimeInv'
  BY <1>1 DEF PipelineInv, RegimeInv
<1>3. MainlineInv' /\ PoolInv' /\ AnswerInv'
  BY <1>1 DEF PipelineInv, RegimeInv, MainlineInv, PoolInv, AnswerInv
<1> QED
  BY <1>1, <1>2, <1>3 DEF PipelineInv

(* A decision leaves what it is made from alone.                           *)
LEMMA DecideKeeps ==
  ASSUME PipelineInv, DecidePortfolio
  PROVE  /\ PipelineInv' /\ pool # Missing
         /\ UNCHANGED << session, regimes, mainlines, outcome, mainline, features, pool,
                         streak, leading >>
<1>1. /\ pool # Missing
      /\ UNCHANGED << session, regimes, mainlines, outcome, mainline, features, pool,
                      streak, leading >>
  BY DEF DecidePortfolio, engines
<1> QED
  BY <1>1 DEF PipelineInv, RegimeInv, MainlineInv, PoolInv, AnswerInv

(* A step that changes nothing keeps everything.                           *)
LEMMA StutterKeeps ==
  ASSUME PipelineInv, StreakInv, PortfolioInv, UNCHANGED researchVars
  PROVE  PipelineInv' /\ StreakInv' /\ PortfolioInv'
<1> QED
  BY DEF researchVars, engines, PipelineInv, RegimeInv, MainlineInv, PoolInv, AnswerInv, StreakInv, PortfolioInv

-----------------------------------------------------------------------------
(* Rounded shares of a whole.                                              *)

(* Multiplying by a natural keeps the order.                               *)
LEMMA TimesMonotone ==
  ASSUME NEW a \in Int, NEW b \in Int, NEW c \in Nat, a <= b
  PROVE  a * c <= b * c /\ a * c \in Int /\ b * c \in Int
<1>1. (b - a) * c >= 0 /\ (b - a) * c = b * c - a * c
  OBVIOUS
<1> QED
  BY <1>1

(* A share rounded to the unit stays between nothing and the whole.        *)
LEMMA NearBetween ==
  ASSUME NEW v \in Int, NEW num \in Nat, NEW den \in Nat \ {0}, num <= den,
         NEW y \in Int, Near(y, v * num, den)
  PROVE  /\ v >= 0 => 0 <= y /\ y <= v
         /\ v <= 0 => v <= y /\ y <= 0
<1> DEFINE n == v * num
           a == y * den
<1>1. n \in Int /\ a \in Int /\ -den <= 2 * (a - n) /\ 2 * (a - n) <= den
  BY DEF Near
<1>2. y <= -1 => a <= -den
  <2>1. y <= -1 => y * den <= (-1) * den
    BY TimesMonotone
  <2> QED
    BY <2>1
<1>3. y >= 1 => a >= den
  <2>1. y >= 1 => 1 * den <= y * den
    BY TimesMonotone
  <2> QED
    BY <2>1
<1>4. y >= v + 1 => a >= v * den + den
  <2>1. y >= v + 1 => (v + 1) * den <= y * den
    BY TimesMonotone
  <2>2. (v + 1) * den = v * den + den
    OBVIOUS
  <2> QED
    BY <2>1, <2>2
<1>5. y <= v - 1 => a <= v * den - den
  <2>1. y <= v - 1 => y * den <= (v - 1) * den
    BY TimesMonotone
  <2>2. (v - 1) * den = v * den - den
    OBVIOUS
  <2> QED
    BY <2>1, <2>2
<1>6. v >= 0 => n >= 0 /\ n <= v * den
  <2>1. v >= 0 => 0 * num <= v * num
    BY TimesMonotone
  <2>2. v >= 0 => num * v <= den * v
    BY TimesMonotone
  <2> QED
    BY <2>1, <2>2
<1>7. v <= 0 => n <= 0 /\ n >= v * den
  <2>1. v <= 0 => v * num <= 0 * num
    BY TimesMonotone
  <2>2. v <= 0 => num * (-v) <= den * (-v)
    BY TimesMonotone
  <2>3. num * (-v) = -(v * num) /\ den * (-v) = -(v * den)
    OBVIOUS
  <2> QED
    BY <2>1, <2>2, <2>3
<1>8. v * den \in Int
  OBVIOUS
<1> HIDE DEF n, a
<1> QED
  BY <1>1, <1>2, <1>3, <1>4, <1>5, <1>6, <1>7, <1>8

(* A fraction is its quotient up to half a unit, whatever its sign.        *)
LEMMA FractionNear ==
  ASSUME NEW v \in Int, NEW num \in Nat, NEW den \in Nat \ {0}
  PROVE  Fraction(v, num, den) \in Int /\ Near(Fraction(v, num, den), v * num, den)
<1>1. CASE v >= 0
  <2>1. v * num \in Int /\ Near(Rounded(v * num, den), v * num, den)
    BY RoundedNear
  <2> QED
    BY <1>1, <2>1 DEF Fraction, Near
<1>2. CASE v < 0
  <2>1. -v * num \in Int /\ -v * num = -(v * num) /\ v * num \in Int
    OBVIOUS
  <2>2. PICK z : z = Rounded(-v * num, den)
    OBVIOUS
  <2>3. Near(z, -v * num, den)
    BY <2>1, <2>2, RoundedNear
  <2>4. z \in Int /\ (-z) * den = -(z * den) /\ z * den \in Int
    BY <2>3 DEF Near
  <2>5. Near(-z, v * num, den)
    BY <2>1, <2>3, <2>4 DEF Near
  <2>6. Fraction(v, num, den) = -z
    BY <1>2, <2>2 DEF Fraction
  <2> QED
    BY <2>4, <2>5, <2>6
<1> QED
  BY <1>1, <1>2

(* Each value rounded by at most half a unit rounds the sum by at most     *)
(* half a unit per element.                                                *)
LEMMA NearSums ==
  ASSUME NEW S, IsFiniteSet(S), NEW d \in Nat \ {0}, NEW x, NEW c,
         \A s \in S : x[s] \in Int /\ c[s] \in Int /\ Near(x[s], c[s], d)
  PROVE  /\ SumOver(x, S) \in Int /\ SumOver(c, S) \in Int /\ Cardinality(S) \in Nat
         /\ 2 * (SumOver(x, S) * d - SumOver(c, S)) <= d * Cardinality(S)
         /\ 2 * (SumOver(x, S) * d - SumOver(c, S)) >= -(d * Cardinality(S))
<1> DEFINE Good(T) == /\ 2 * (SumOver(x, T) * d - SumOver(c, T)) <= d * Cardinality(T)
                      /\ 2 * (SumOver(x, T) * d - SumOver(c, T)) >= -(d * Cardinality(T))
           Bad == {n \in Nat : \E T \in SUBSET S : Cardinality(T) = n /\ ~Good(T)}
<1>1. ASSUME Bad # {} PROVE FALSE
  <2>1. PICK n \in Bad : \A m \in Bad : n <= m
    BY <1>1, LeastNat
  <2>2. PICK T \in SUBSET S : Cardinality(T) = n /\ ~Good(T)
    BY <2>1
  <2>3. T # {}
    <3>1. SumOver(x, {}) = 0 /\ SumOver(c, {}) = 0 /\ Cardinality({}) = 0
      BY SumEmpty, FS_EmptySet
    <3>2. 0 * d = 0 /\ d * 0 = 0
      OBVIOUS
    <3>3. T = {} => SumOver(x, T) = 0 /\ SumOver(c, T) = 0 /\ Cardinality(T) = 0
      BY <3>1
    <3> QED
      BY <2>2, <3>2, <3>3
  <2>4. IsFiniteSet(T) /\ Cardinality(T) \in Nat /\ Cardinality(T) # 0
    BY <2>3, SubsetFacts
  <2>5. PICK p : p = Pick(T) /\ p \in T /\ Cardinality(T \ {p}) = Cardinality(T) - 1
    BY <2>3, SubsetFacts
  <2>6. n - 1 \notin Bad /\ n - 1 \in Nat
    BY <2>1, <2>2, <2>4
  <2>7. PICK R : R = T \ {p}
    OBVIOUS
  <2>8. R \in SUBSET S /\ Cardinality(R) = n - 1
    BY <2>2, <2>5, <2>7
  <2>9. Good(R)
    BY <2>6, <2>8
  <2>10. SumOver(x, T) = x[p] + SumOver(x, R) /\ SumOver(c, T) = c[p] + SumOver(c, R)
    BY <2>3, <2>4, <2>5, <2>7, SumPick
  <2>11. IsFiniteSet(R) /\ \A s \in R : x[s] \in Int /\ c[s] \in Int
    BY <2>4, <2>8, FS_Subset
  <2>12. SumOver(x, R) \in Int /\ SumOver(c, R) \in Int
    BY <2>11, SumType
  <2>13. x[p] \in Int /\ c[p] \in Int /\ Near(x[p], c[p], d)
    BY <2>5
  <2>14. (x[p] + SumOver(x, R)) * d = x[p] * d + SumOver(x, R) * d
    BY <2>12, <2>13
  <2>15. d * n = d * (n - 1) + d /\ d * n \in Int /\ d * (n - 1) \in Int
    BY <2>6
  <2>16. x[p] * d \in Int /\ SumOver(x, R) * d \in Int
    BY <2>12, <2>13
  <2>17. PICK a \in Int : a = x[p] * d
    BY <2>16
  <2>18. PICK b \in Int : b = SumOver(x, R) * d
    BY <2>16
  <2>19. -d <= 2 * (a - c[p]) /\ 2 * (a - c[p]) <= d
    BY <2>13, <2>17 DEF Near
  <2>20. 2 * (b - SumOver(c, R)) <= d * (n - 1) /\ 2 * (b - SumOver(c, R)) >= -(d * (n - 1))
    BY <2>8, <2>9, <2>18
  <2>21. SumOver(x, T) * d = a + b
    BY <2>10, <2>14, <2>17, <2>18
  <2>22. PICK e \in Int : e = d * (n - 1)
    BY <2>15
  <2>23. d * n = e + d
    BY <2>15, <2>22
  <2>24. /\ 2 * ((a + b) - (c[p] + SumOver(c, R))) <= e + d
         /\ 2 * ((a + b) - (c[p] + SumOver(c, R))) >= -(e + d)
    BY <2>12, <2>13, <2>19, <2>20, <2>22
  <2>25. /\ 2 * (SumOver(x, T) * d - SumOver(c, T)) <= d * Cardinality(T)
         /\ 2 * (SumOver(x, T) * d - SumOver(c, T)) >= -(d * Cardinality(T))
    BY <2>2, <2>10, <2>21, <2>23, <2>24
  <2> QED
    BY <2>2, <2>25
<1>2. Cardinality(S) \in Nat
  BY FS_CardinalityType
<1>3. Good(S)
  BY <1>1, <1>2
<1> QED
  BY <1>2, <1>3, SumType

(* A positive factor can be cancelled.                                     *)
LEMMA Cancel ==
  ASSUME NEW z \in Int, NEW n \in Int, NEW d \in Nat \ {0}, z * d <= d * n
  PROVE  z <= n
<1> SUFFICES ASSUME z >= n + 1 PROVE FALSE
  OBVIOUS
<1>1. (n + 1) * d <= z * d
  BY TimesMonotone
<1>2. (n + 1) * d = d * n + d /\ d * n \in Int /\ z * d \in Int
  OBVIOUS
<1> QED
  BY <1>1, <1>2

(* Shares of num in proportion to w add up to num, or to the part of it    *)
(* that w is of d, up to half a unit per share.                            *)
LEMMA SharesAddUp ==
  ASSUME NEW S, IsFiniteSet(S), NEW d \in Nat \ {0}, NEW num \in Nat, NEW x, NEW w,
         \A s \in S : x[s] \in Int /\ w[s] \in Int /\ Near(x[s], w[s] * num, d),
         SumOver(w, S) <= d
  PROVE  2 * SumOver(x, S) <= 2 * num + Cardinality(S)
<1> DEFINE c == [s \in S |-> num * w[s]]
<1>1. \A s \in S : c[s] = num * w[s] /\ c[s] \in Int /\ c[s] = w[s] * num
  OBVIOUS
<1> HIDE DEF c
<1>2. \A s \in S : x[s] \in Int /\ c[s] \in Int /\ Near(x[s], c[s], d)
  BY <1>1
<1>3. /\ SumOver(x, S) \in Int /\ SumOver(c, S) \in Int /\ Cardinality(S) \in Nat
      /\ 2 * (SumOver(x, S) * d - SumOver(c, S)) <= d * Cardinality(S)
  BY <1>2, NearSums
<1>4. num \in Int /\ \A s \in S : w[s] \in Int /\ c[s] = num * w[s]
  BY <1>1
<1>5. SumOver(c, S) = num * SumOver(w, S)
  BY <1>4, SumTimes
<1>6. SumOver(w, S) \in Int
  BY SumType
<1>7. num * SumOver(w, S) <= num * d
  <2>1. SumOver(w, S) * num <= d * num
    BY <1>6, TimesMonotone
  <2> QED
    BY <1>6, <2>1
<1>8. PICK k \in Nat : k = Cardinality(S)
  BY <1>3
<1>9. PICK a \in Int : a = SumOver(x, S)
  BY <1>3
<1>10. a * d \in Int /\ num * d \in Int /\ d * k \in Int
  OBVIOUS
<1>11. 2 * (a * d - num * d) <= d * k
  BY <1>3, <1>5, <1>7, <1>8, <1>9, <1>10
<1>12. (2 * a - 2 * num) * d = 2 * (a * d - num * d)
  OBVIOUS
<1>13. 2 * a - 2 * num <= k
  BY <1>11, <1>12, Cancel
<1> QED
  BY <1>8, <1>9, <1>13

-----------------------------------------------------------------------------
(* Every allocation of _capped_allocation keeps to its limits.             *)

(* The parts of _capped_allocation: what is left of the exposure for the   *)
(* remaining, the share of one of them, who would get more than the        *)
(* maximum, and the shares of everybody when nobody would.                 *)
LeftFor(b, e, m, R) == e - m * Cardinality(DOMAIN b \ R)
ShareOf(b, e, m, R, s) ==
  IF SumOver(b, R) = 0 THEN Rounded(LeftFor(b, e, m, R), Cardinality(R))
  ELSE Fraction(LeftFor(b, e, m, R), b[s], SumOver(b, R))
CappedOf(b, e, m, R) == {s \in R : ShareOf(b, e, m, R, s) > m}
OthersShare(b, e, m, R, T) == MapThenSumSet(LAMBDA t : ShareOf(b, e, m, R, t), T)
SharedBy(b, e, m, R) ==
  [s \in R |-> IF s # Max(R) THEN ShareOf(b, e, m, R, s)
               ELSE LeftFor(b, e, m, R) - OthersShare(b, e, m, R, R \ {Max(R)})]
StepOf(b, e, m, g, R) ==
  IF R = {} \/ LeftFor(b, e, m, R) <= 0 THEN [s \in DOMAIN b |-> 0]
  ELSE IF CappedOf(b, e, m, R) = {}
  THEN [s \in DOMAIN b |-> IF s \in R THEN SharedBy(b, e, m, R)[s] ELSE 0]
  ELSE [s \in DOMAIN b |-> IF s \in CappedOf(b, e, m, R) THEN m
                           ELSE g[R \ CappedOf(b, e, m, R)][s]]
Allocates(b, e, m, g) == g = [R \in SUBSET DOMAIN b |-> StepOf(b, e, m, g, R)]

(* CappedAllocation is the recursion of these parts.                       *)
LEMMA AllocationIs ==
  ASSUME NEW b, NEW e, NEW m
  PROVE  CappedAllocation(b, e, m) = (CHOOSE g : Allocates(b, e, m, g))[DOMAIN b]
BY Zenon DEF CappedAllocation, Allocates, StepOf, SharedBy, OthersShare, CappedOf, ShareOf, LeftFor, SumOver

(* A step of the recursion looks only at the allocation of those who are   *)
(* not capped.                                                             *)
LEMMA StepAgrees ==
  ASSUME NEW b, NEW e, NEW m, NEW g, NEW h, NEW R,
         R # {} /\ CappedOf(b, e, m, R) # {}
           => g[R \ CappedOf(b, e, m, R)] = h[R \ CappedOf(b, e, m, R)]
  PROVE  StepOf(b, e, m, g, R) = StepOf(b, e, m, h, R)
BY DEF StepOf

(* The recursion of _capped_allocation ends.                               *)
LEMMA AllocationExists ==
  ASSUME NEW b, IsFiniteSet(DOMAIN b), NEW e, NEW m
  PROVE  \E g : Allocates(b, e, m, g)
<1> DEFINE S == DOMAIN b
           D(n) == {T \in SUBSET S : Cardinality(T) \in 0..n}
           Good(n) == \E g : g = [R \in D(n) |-> StepOf(b, e, m, g, R)]
           Bad == {n \in Nat : ~Good(n)}
<1>1. ASSUME NEW n \in Nat, NEW R \in D(n + 1), R # {}, CappedOf(b, e, m, R) # {}
      PROVE  R \ CappedOf(b, e, m, R) \in D(n)
  <2>1. PICK C : C = CappedOf(b, e, m, R)
    OBVIOUS
  <2>2. C \subseteq R /\ C # {}
    BY <1>1, <2>1 DEF CappedOf
  <2>3. IsFiniteSet(R) /\ IsFiniteSet(C) /\ R \subseteq S /\ Cardinality(R) \in 0 .. n + 1
    BY <1>1, <2>2, FS_Subset
  <2>4. Cardinality(C) \in Nat /\ Cardinality(C) # 0
    BY <2>2, <2>3, FS_CardinalityType, FS_EmptySet
  <2>5. Cardinality(R \ C) = Cardinality(R) - Cardinality(R \cap C) /\ IsFiniteSet(R \ C)
    BY <2>3, FS_Difference
  <2>6. R \cap C = C /\ Cardinality(R \cap C) = Cardinality(C)
    <3>1. R \cap C = C
      BY <2>2
    <3> QED
      BY <3>1
  <2>7. Cardinality(R \ C) \in Nat
    BY <2>5, FS_CardinalityType
  <2>8. Cardinality(R \ C) \in 0 .. n
    <3>1. PICK k \in Nat : k = Cardinality(R \ C)
      BY <2>7
    <3>2. PICK c \in Nat : c = Cardinality(C) /\ c # 0
      BY <2>4
    <3>3. PICK r \in 0 .. n + 1 : r = Cardinality(R)
      BY <2>3
    <3>4. k = r - c
      BY <2>5, <2>6, <3>1, <3>2, <3>3
    <3>5. k \in 0 .. n
      BY <3>2, <3>3, <3>4
    <3> QED
      BY <3>1, <3>5
  <2>9. R \ C \in SUBSET S
    BY <2>3
  <2> QED
    BY <2>1, <2>8, <2>9
<1>2. Good(0)
  <2> DEFINE g == [R \in D(0) |-> StepOf(b, e, m, << >>, R)]
  <2>1. ASSUME NEW R \in D(0) PROVE R = {}
    <3>1. R \subseteq S /\ Cardinality(R) = 0
      OBVIOUS
    <3> QED
      BY <3>1, SubsetFacts
  <2>2. ASSUME NEW R \in D(0) PROVE StepOf(b, e, m, << >>, R) = StepOf(b, e, m, g, R)
    <3>1. PICK h : h = g
      OBVIOUS
    <3> HIDE DEF g
    <3>2. R = {}
      BY <2>1
    <3>3. StepOf(b, e, m, << >>, R) = StepOf(b, e, m, h, R)
      BY <3>2 DEF StepOf
    <3> QED
      BY <3>1, <3>3
  <2>3. g = [R \in D(0) |-> StepOf(b, e, m, g, R)]
    BY <2>2
  <2> QED
    BY <2>3
<1>3. ASSUME NEW n \in Nat, Good(n) PROVE Good(n + 1)
  <2>1. PICK g : g = [R \in D(n) |-> StepOf(b, e, m, g, R)]
    BY <1>3
  <2> DEFINE h == [R \in D(n + 1) |-> StepOf(b, e, m, g, R)]
  <2>2. ASSUME NEW R \in D(n) PROVE R \in D(n + 1) /\ h[R] = g[R]
    <3>1. R \in D(n + 1)
      OBVIOUS
    <3> QED
      BY <2>1, <3>1
  <2> HIDE DEF D
  <2>3. ASSUME NEW R \in D(n + 1) PROVE StepOf(b, e, m, g, R) = StepOf(b, e, m, h, R)
    <3>1. PICK k : k = h
      OBVIOUS
    <3>2. R # {} /\ CappedOf(b, e, m, R) # {}
            => g[R \ CappedOf(b, e, m, R)] = k[R \ CappedOf(b, e, m, R)]
      <4> SUFFICES ASSUME R # {}, CappedOf(b, e, m, R) # {}
                   PROVE g[R \ CappedOf(b, e, m, R)] = k[R \ CappedOf(b, e, m, R)]
        OBVIOUS
      <4>1. R \ CappedOf(b, e, m, R) \in D(n)
        BY <1>1
      <4> HIDE DEF h
      <4> QED
        BY <2>2, <3>1, <4>1
    <3> HIDE DEF h
    <3>3. StepOf(b, e, m, g, R) = StepOf(b, e, m, k, R)
      BY <3>2, StepAgrees
    <3> QED
      BY <3>1, <3>3
  <2>4. h = [R \in D(n + 1) |-> StepOf(b, e, m, h, R)]
    BY <2>3
  <2> QED
    BY <2>4
<1> HIDE DEF Good
<1>4. Bad = {}
  <2> SUFFICES ASSUME Bad # {} PROVE FALSE
    OBVIOUS
  <2>1. PICK n \in Bad : \A k \in Bad : n <= k
    BY LeastNat
  <2>2. n # 0
    BY <1>2, <2>1
  <2>3. n - 1 \in Nat /\ Good(n - 1)
    BY <2>1, <2>2
  <2>4. Good((n - 1) + 1)
    BY <1>3, <2>3
  <2> QED
    BY <2>1, <2>4
<1>5. D(Cardinality(S)) = SUBSET S
  BY FS_Subset, FS_CardinalityType
<1>6. Good(Cardinality(S))
  BY <1>4, FS_CardinalityType
<1> QED
  BY <1>5, <1>6 DEF Allocates, Good

(* The sum of as many ones is their number.                                *)
LEMMA SumOnes ==
  ASSUME NEW S, IsFiniteSet(S), NEW v, \A x \in S : v[x] = 1
  PROVE  SumOver(v, S) = Cardinality(S) /\ Cardinality(S) \in Nat
<1> DEFINE Bad == {n \in Nat : \E T \in SUBSET S : Cardinality(T) = n /\ SumOver(v, T) # n}
<1>1. ASSUME Bad # {} PROVE FALSE
  <2>1. PICK n \in Bad : \A m \in Bad : n <= m
    BY <1>1, LeastNat
  <2>2. PICK T \in SUBSET S : Cardinality(T) = n /\ SumOver(v, T) # n
    BY <2>1
  <2>3. T # {}
    <3>1. T = {} => n = 0 /\ SumOver(v, T) = 0
      BY <2>2, SumEmpty, FS_EmptySet
    <3> QED
      BY <2>2, <3>1
  <2>4. IsFiniteSet(T) /\ Cardinality(T) \in Nat /\ Cardinality(T) # 0
    BY <2>3, SubsetFacts
  <2>5. Pick(T) \in T /\ Cardinality(T \ {Pick(T)}) = Cardinality(T) - 1
    BY <2>3, SubsetFacts
  <2>6. n - 1 \notin Bad /\ n - 1 \in Nat
    BY <2>1, <2>2, <2>4
  <2>7. SumOver(v, T \ {Pick(T)}) = n - 1
    BY <2>2, <2>5, <2>6
  <2>8. SumOver(v, T) = v[Pick(T)] + SumOver(v, T \ {Pick(T)}) /\ v[Pick(T)] = 1
    BY <2>3, <2>4, <2>5, SumPick
  <2> QED
    BY <2>2, <2>7, <2>8
<1>2. Cardinality(S) \in Nat
  BY FS_CardinalityType
<1> QED
  BY <1>1, <1>2

(* The sum of a constant.                                                  *)
LEMMA SumSame ==
  ASSUME NEW S, IsFiniteSet(S), NEW k \in Int, NEW v, \A x \in S : v[x] = k
  PROVE  SumOver(v, S) = k * Cardinality(S)
<1> DEFINE w == [x \in S |-> 1]
<1>1. \A x \in S : w[x] = 1
  OBVIOUS
<1> HIDE DEF w
<1>2. SumOver(w, S) = Cardinality(S)
  BY <1>1, SumOnes
<1>3. \A x \in S : w[x] \in Int /\ v[x] = k * w[x]
  BY <1>1
<1>4. SumOver(v, S) = k * SumOver(w, S)
  BY <1>3, SumTimes
<1> QED
  BY <1>2, <1>4

(* What _capped_allocation is given: a natural basis per stock and limits  *)
(* below the whole portfolio w.                                            *)
Fair(b, e, m, w) ==
  /\ IsFiniteSet(DOMAIN b) /\ DOMAIN b \subseteq Nat /\ \A s \in DOMAIN b : b[s] \in Nat
  /\ e \in Nat /\ m \in Nat /\ w \in Nat /\ e <= w /\ m <= w

(* What is left is at most the exposure.                                   *)
LEMMA LeftInt ==
  ASSUME NEW b, NEW e, NEW m, NEW w, Fair(b, e, m, w), NEW R, R \subseteq DOMAIN b
  PROVE  LeftFor(b, e, m, R) \in Int /\ LeftFor(b, e, m, R) <= e
<1>1. IsFiniteSet(DOMAIN b \ R)
  BY FS_Subset DEF Fair
<1>2. PICK k \in Nat : k = Cardinality(DOMAIN b \ R)
  BY <1>1, FS_CardinalityType
<1>3. m * k \in Nat /\ e \in Nat
  BY DEF Fair
<1>4. LeftFor(b, e, m, R) = e - m * k
  BY <1>2 DEF LeftFor
<1> QED
  BY <1>3, <1>4

(* Who is capped takes the maximum out of what is left.                    *)
LEMMA LeftLess ==
  ASSUME NEW b, NEW e, NEW m, NEW w, Fair(b, e, m, w), NEW R, R \subseteq DOMAIN b,
         NEW C, C \subseteq R
  PROVE  LeftFor(b, e, m, R \ C) = LeftFor(b, e, m, R) - m * Cardinality(C)
<1>1. PICK A : A = DOMAIN b \ R
  OBVIOUS
<1>2. IsFiniteSet(A) /\ IsFiniteSet(C) /\ A \cap C = {} /\ DOMAIN b \ (R \ C) = A \cup C
  BY <1>1, FS_Subset DEF Fair
<1>3. Cardinality(A \cup C) = Cardinality(A) + Cardinality(C) - Cardinality(A \cap C)
  BY <1>2, FS_Union
<1>4. Cardinality(A \cap C) = 0
  BY <1>2, FS_EmptySet
<1>5. PICK a \in Nat, c \in Nat : a = Cardinality(A) /\ c = Cardinality(C)
  BY <1>2, FS_CardinalityType
<1>6. Cardinality(DOMAIN b \ (R \ C)) = a + c
  <2>1. Cardinality(DOMAIN b \ (R \ C)) = Cardinality(A \cup C)
    BY <1>2
  <2>2. PICK i : i = Cardinality(A \cap C)
    OBVIOUS
  <2>3. PICK u : u = Cardinality(A \cup C)
    OBVIOUS
  <2>4. u = (a + c) - i /\ i = 0
    BY <1>3, <1>4, <1>5, <2>2, <2>3
  <2>5. u = a + c
    BY <2>4
  <2> QED
    BY <2>1, <2>3, <2>5
<1>7. m \in Nat /\ e \in Nat
  BY DEF Fair
<1>8. m * (a + c) = m * a + m * c /\ m * a \in Int /\ m * c \in Int
  BY <1>7
<1>9. LeftFor(b, e, m, R \ C) = e - m * Cardinality(DOMAIN b \ (R \ C))
  BY DEF LeftFor
<1>10. LeftFor(b, e, m, R \ C) = e - m * (a + c) /\ LeftFor(b, e, m, R) = e - m * a
  <2>1. LeftFor(b, e, m, R) = e - m * Cardinality(A)
    BY <1>1 DEF LeftFor
  <2>2. LeftFor(b, e, m, R) = e - m * a
    BY <1>5, <2>1
  <2>3. LeftFor(b, e, m, R \ C) = e - m * (a + c)
    BY <1>6, <1>9
  <2> QED
    BY <2>2, <2>3
<1> QED
  BY <1>5, <1>7, <1>8, <1>10

(* The shares of some of the remaining: each of them a natural, together   *)
(* no more than what is left, up to half a unit per share.                 *)
LEMMA SharesFit ==
  ASSUME NEW b, NEW e, NEW m, NEW w, Fair(b, e, m, w), NEW R, R \subseteq DOMAIN b,
         R # {}, LeftFor(b, e, m, R) > 0,
         NEW x, \A s \in R : x[s] = ShareOf(b, e, m, R, s)
  PROVE  /\ \A s \in R : x[s] \in Nat
         /\ \A T \in SUBSET R : 2 * SumOver(x, T) <= 2 * LeftFor(b, e, m, R) + Cardinality(T)
<1>1. PICK L : L = LeftFor(b, e, m, R)
  OBVIOUS
<1>2. L \in Nat /\ L # 0
  BY <1>1, LeftInt
<1>3. IsFiniteSet(R) /\ \A s \in R : b[s] \in Nat
  BY FS_Subset DEF Fair
<1>4. PICK n : n = Cardinality(R)
  OBVIOUS
<1>5. n \in Nat \ {0}
  BY <1>3, <1>4, FS_CardinalityType, FS_EmptySet
<1>6. PICK t : t = SumOver(b, R)
  OBVIOUS
<1>7. t \in Nat
  BY <1>3, <1>6, SumNat
<1>8. CASE t = 0
  <2>1. ASSUME NEW s \in R PROVE x[s] = Rounded(L, n)
    BY <1>1, <1>4, <1>6, <1>8 DEF ShareOf
  <2>2. Near(Rounded(L, n), L, n) /\ Rounded(L, n) >= 0
    BY <1>2, <1>5, RoundedNear
  <2>3. \A s \in R : x[s] \in Nat
    BY <2>1, <2>2 DEF Near
  <2> DEFINE v == [s \in R |-> 1]
  <2>4. \A s \in R : v[s] = 1
    OBVIOUS
  <2> HIDE DEF v
  <2>5. ASSUME NEW T \in SUBSET R PROVE 2 * SumOver(x, T) <= 2 * L + Cardinality(T)
    <3>1. IsFiniteSet(T)
      BY <1>3, FS_Subset
    <3>2. \A s \in T : v[s] = 1
      BY <2>4
    <3>3. SumOver(v, T) = Cardinality(T) /\ Cardinality(T) \in Nat
      BY <3>1, <3>2, SumOnes
    <3>4. Cardinality(T) <= n
      BY <1>3, <1>4, FS_Subset
    <3>5. ASSUME NEW s \in T PROVE x[s] \in Int /\ v[s] \in Int /\ Near(x[s], v[s] * L, n)
      <4>1. 1 * L = L
        BY <1>2
      <4>2. x[s] = Rounded(L, n) /\ v[s] = 1
        BY <2>1, <2>4
      <4>3. Near(x[s], L, n)
        BY <2>2, <4>2
      <4>4. v[s] * L = L
        BY <4>1, <4>2
      <4> QED
        BY <2>3, <4>2, <4>3, <4>4
    <3> QED
      BY <1>2, <1>5, <3>1, <3>3, <3>4, <3>5, SharesAddUp
  <2> QED
    BY <1>1, <2>3, <2>5
<1>9. CASE t # 0
  <2>1. t \in Nat \ {0}
    BY <1>7, <1>9
  <2>2. ASSUME NEW s \in R
        PROVE x[s] \in Nat /\ b[s] \in Int /\ Near(x[s], b[s] * L, t)
    <3>1. x[s] = Fraction(L, b[s], t)
      BY <1>1, <1>6, <1>9 DEF ShareOf
    <3>2. Fraction(L, b[s], t) = Rounded(L * b[s], t)
      BY <1>2 DEF Fraction
    <3>3. L * b[s] \in Nat /\ L * b[s] = b[s] * L
      BY <1>2, <1>3
    <3>4. PICK z \in Nat : z = L * b[s]
      BY <3>3
    <3>5. Near(Rounded(z, t), z, t) /\ Rounded(z, t) >= 0
      BY <2>1, RoundedNear
    <3>6. x[s] = Rounded(z, t)
      BY <3>1, <3>2, <3>4
    <3>7. Near(x[s], z, t) /\ x[s] >= 0
      BY <3>5, <3>6
    <3>8. x[s] \in Nat
      BY <3>7 DEF Near
    <3> QED
      BY <1>3, <3>3, <3>4, <3>7, <3>8
  <2>3. ASSUME NEW T \in SUBSET R PROVE 2 * SumOver(x, T) <= 2 * L + Cardinality(T)
    <3>1. IsFiniteSet(T)
      BY <1>3, FS_Subset
    <3>2. SumOver(b, T) <= t
      BY <1>3, <1>6, SumPart
    <3>3. \A s \in T : x[s] \in Int /\ b[s] \in Int /\ Near(x[s], b[s] * L, t)
      BY <2>2
    <3> QED
      BY <1>2, <2>1, <3>1, <3>2, <3>3, SharesAddUp
  <2> QED
    BY <1>1, <2>2, <2>3
<1> QED
  BY <1>8, <1>9

(* The shares of the others, as a sum.                                     *)
LEMMA OthersIs ==
  ASSUME NEW b, NEW e, NEW m, NEW R, NEW T, IsFiniteSet(T),
         NEW x, \A s \in T : x[s] = ShareOf(b, e, m, R, s)
  PROVE  OthersShare(b, e, m, R, T) = SumOver(x, T)
<1> DEFINE h == CHOOSE g : g = [s \in SUBSET T |-> IF s = {} THEN 0 ELSE
                                  ShareOf(b, e, m, R, Pick(s)) + g[s \ {Pick(s)}]]
<1>1. PICK g : Sums(x, T, g)
  BY IterExists
<1>2. \A s \in SUBSET T : s # {} => x[Pick(s)] = ShareOf(b, e, m, R, Pick(s))
  BY DEF Pick
<1>3. g = [s \in SUBSET T |-> IF s = {} THEN 0 ELSE
             ShareOf(b, e, m, R, Pick(s)) + g[s \ {Pick(s)}]]
  BY <1>1, <1>2 DEF Sums
<1>4. h = [s \in SUBSET T |-> IF s = {} THEN 0 ELSE
             ShareOf(b, e, m, R, Pick(s)) + h[s \ {Pick(s)}]]
  BY <1>3
<1>5. OthersShare(b, e, m, R, T) = h[T]
  BY DEF OthersShare, MapThenSumSet, MapThenFoldSet, Pick
<1> HIDE DEF h
<1>6. Sums(x, T, h)
  BY <1>4, <1>2 DEF Sums
<1> QED
  BY <1>5, <1>6, SumOverIs

(* A finite set of naturals has a greatest element.                        *)
LEMMA MaxIn ==
  ASSUME NEW S, IsFiniteSet(S), S # {}, S \subseteq Nat
  PROVE  Max(S) \in S
<1> DEFINE Top(T) == \E y \in T : \A x \in T : y >= x
           Bad == {n \in Nat : \E T \in SUBSET S : T # {} /\ Cardinality(T) = n /\ ~Top(T)}
<1>1. ASSUME Bad # {} PROVE FALSE
  <2>1. PICK n \in Bad : \A m \in Bad : n <= m
    BY <1>1, LeastNat
  <2>2. PICK T \in SUBSET S : T # {} /\ Cardinality(T) = n /\ ~Top(T)
    BY <2>1
  <2>3. IsFiniteSet(T) /\ Cardinality(T) \in Nat /\ Cardinality(T) # 0
    BY <2>2, SubsetFacts
  <2>4. PICK p : p = Pick(T) /\ p \in T /\ Cardinality(T \ {p}) = Cardinality(T) - 1
    BY <2>2, SubsetFacts
  <2>5. PICK R : R = T \ {p}
    OBVIOUS
  <2>6. n - 1 \notin Bad /\ n - 1 \in Nat /\ R \in SUBSET S /\ Cardinality(R) = n - 1
    BY <2>1, <2>2, <2>3, <2>4, <2>5
  <2>7. CASE R = {}
    <3>1. \A x \in T : x = p
      BY <2>5, <2>7
    <3>2. p \in T /\ \A x \in T : p >= x
      BY <2>4, <3>1
    <3> QED
      BY <2>2, <3>2
  <2>8. CASE R # {}
    <3>1. Top(R)
      BY <2>6, <2>8
    <3>2. PICK y \in R : \A x \in R : y >= x
      BY <3>1
    <3>3. y \in Nat /\ p \in Nat /\ y \in T
      BY <2>4, <2>5
    <3>4. \A x \in T : x \in R \/ x = p
      BY <2>5
    <3>5. CASE y >= p
      <4>1. \A x \in T : y >= x
        BY <3>2, <3>4, <3>5
      <4> QED
        BY <2>2, <3>3, <4>1
    <3>6. CASE y < p
      <4>1. \A x \in T : p >= x
        BY <3>2, <3>3, <3>4, <3>6
      <4> QED
        BY <2>2, <2>4, <4>1
    <3> QED
      BY <3>3, <3>5, <3>6
  <2> QED
    BY <2>7, <2>8
<1>2. Cardinality(S) \in Nat
  BY FS_CardinalityType
<1>3. Top(S)
  BY <1>1, <1>2
<1> QED
  BY <1>3 DEF Max

(* The positive part of an allocation, and of a number.                    *)
Positive(f) == [s \in DOMAIN f |-> IF f[s] > 0 THEN f[s] ELSE 0]
AtLeastZero(n) == IF n > 0 THEN n ELSE 0

(* What _capped_allocation gives the stocks of R: nothing to the others,   *)
(* no more than the whole to one, and together no more than what is left;  *)
(* each of these up to a unit per stock.                                   *)
Within(b, e, m, w, R, f) ==
  /\ DOMAIN f = DOMAIN b
  /\ \A s \in DOMAIN b : /\ f[s] \in Int /\ -Cardinality(R) <= f[s] /\ f[s] <= w
                         /\ s \notin R => f[s] = 0
  /\ 2 * SumOver(Positive(f), R) <= 2 * AtLeastZero(LeftFor(b, e, m, R)) + Cardinality(R)

(* With nothing left nobody gets anything.                                 *)
LEMMA WithinNothing ==
  ASSUME NEW b, NEW e, NEW m, NEW w, Fair(b, e, m, w), NEW R, R \subseteq DOMAIN b,
         NEW f, f = [s \in DOMAIN b |-> 0]
  PROVE  Within(b, e, m, w, R, f)
<1>1. IsFiniteSet(R)
  BY FS_Subset DEF Fair
<1>2. PICK n \in Nat : n = Cardinality(R)
  BY <1>1, FS_CardinalityType
<1>3. PICK p : p = Positive(f)
  OBVIOUS
<1>4. \A s \in R : p[s] = 0
  BY <1>3 DEF Positive
<1>5. SumOver(p, R) = 0
  BY <1>1, <1>4, SumZero
<1>6. AtLeastZero(LeftFor(b, e, m, R)) \in Nat
  BY LeftInt DEF AtLeastZero
<1>7. w \in Nat
  BY DEF Fair
<1>8. 2 * SumOver(Positive(f), R) <= 2 * AtLeastZero(LeftFor(b, e, m, R)) + Cardinality(R)
  BY <1>2, <1>3, <1>5, <1>6
<1>9. DOMAIN f = DOMAIN b /\ \A s \in DOMAIN b : f[s] = 0
  OBVIOUS
<1> QED
  BY <1>2, <1>7, <1>8, <1>9 DEF Within

(* When nobody is capped the last one takes the remainder.                 *)
LEMMA WithinShared ==
  ASSUME NEW b, NEW e, NEW m, NEW w, Fair(b, e, m, w), NEW R, R \subseteq DOMAIN b,
         R # {}, LeftFor(b, e, m, R) > 0, CappedOf(b, e, m, R) = {},
         NEW f, f = [s \in DOMAIN b |-> IF s \in R THEN SharedBy(b, e, m, R)[s] ELSE 0]
  PROVE  Within(b, e, m, w, R, f)
<1> DEFINE x == [s \in R |-> ShareOf(b, e, m, R, s)]
<1>1. \A s \in R : x[s] = ShareOf(b, e, m, R, s)
  OBVIOUS
<1> HIDE DEF x
<1>2. PICK L : L = LeftFor(b, e, m, R)
  OBVIOUS
<1>3. L \in Nat /\ L > 0 /\ L <= e /\ e \in Nat /\ m \in Nat /\ w \in Nat /\ e <= w /\ m <= w
  <2>1. LeftFor(b, e, m, R) \in Int /\ LeftFor(b, e, m, R) <= e
    BY LeftInt
  <2>2. e \in Nat /\ m \in Nat /\ w \in Nat /\ e <= w /\ m <= w
    BY DEF Fair
  <2> QED
    BY <1>2, <2>1, <2>2
<1>4. IsFiniteSet(R) /\ R \subseteq Nat
  BY FS_Subset DEF Fair
<1>5. PICK last : last = Max(R) /\ last \in R
  BY <1>4, MaxIn
<1>6. PICK T : T = R \ {last}
  OBVIOUS
<1>7. T \in SUBSET R /\ IsFiniteSet(T) /\ last \in R \ T /\ R = T \cup {last}
  BY <1>4, <1>5, <1>6, FS_Subset
<1>8. PICK n \in Nat : n = Cardinality(R) /\ n # 0 /\ Cardinality(T) = n - 1
  BY <1>4, <1>5, <1>6, FS_CardinalityType, FS_EmptySet, FS_RemoveElement
<1>9. /\ \A s \in R : x[s] \in Nat
      /\ 2 * SumOver(x, T) <= 2 * L + (n - 1)
  <2>1. /\ \A s \in R : x[s] \in Nat
        /\ \A U \in SUBSET R : 2 * SumOver(x, U) <= 2 * LeftFor(b, e, m, R) + Cardinality(U)
    BY <1>1, SharesFit
  <2> QED
    BY <1>2, <1>7, <1>8, <2>1
<1>10. PICK o \in Nat : o = SumOver(x, T)
  <2>1. \A s \in T : x[s] \in Nat
    BY <1>7, <1>9
  <2> QED
    BY <1>7, <2>1, SumNat
<1>11. OthersShare(b, e, m, R, T) = o
  <2>1. \A s \in T : x[s] = ShareOf(b, e, m, R, s)
    BY <1>1, <1>7
  <2>2. OthersShare(b, e, m, R, T) = SumOver(x, T)
    BY <1>7, <2>1, OthersIs
  <2> QED
    BY <1>10, <2>2
<1>12. SharedBy(b, e, m, R) = [s \in R |-> IF s # last THEN ShareOf(b, e, m, R, s) ELSE L - o]
  <2>1. OthersShare(b, e, m, R, R \ {Max(R)}) = o
    BY <1>5, <1>6, <1>11
  <2> QED
    BY <1>2, <1>5, <2>1 DEF SharedBy
<1>13. /\ \A s \in T : f[s] = x[s]
       /\ f[last] = L - o
       /\ \A s \in DOMAIN b : s \notin R => f[s] = 0
       /\ DOMAIN f = DOMAIN b
  BY <1>1, <1>5, <1>7, <1>6, <1>12
<1>14. \A s \in R : x[s] <= m
  <2>1. \A s \in R : ~(ShareOf(b, e, m, R, s) > m)
    BY DEF CappedOf
  <2> QED
    BY <1>1, <1>3, <1>9, <2>1
<1>15. 2 * o <= 2 * L + (n - 1)
  BY <1>9, <1>10
<1>16. ASSUME NEW s \in DOMAIN b
       PROVE  f[s] \in Int /\ -n <= f[s] /\ f[s] <= w /\ (s \notin R => f[s] = 0)
  <2>1. CASE s \in T
    <3>1. f[s] = x[s] /\ x[s] \in Nat /\ x[s] <= m /\ s \in R
      BY <1>7, <1>9, <1>13, <1>14, <2>1
    <3> QED
      BY <1>3, <3>1
  <2>2. CASE s = last
    <3>1. f[s] = L - o /\ s \in R
      BY <1>5, <1>13, <2>2
    <3>2. 2 * (L - o) >= -n
      BY <1>3, <1>15
    <3> QED
      BY <1>3, <3>1, <3>2
  <2>3. CASE s \notin R
    BY <1>3, <1>13, <2>3
  <2> QED
    BY <1>7, <2>1, <2>2, <2>3
<1>17. 2 * SumOver(Positive(f), R) <= 2 * L + n
  <2>1. PICK p : p = Positive(f)
    OBVIOUS
  <2>2. \A s \in DOMAIN b : p[s] = IF f[s] > 0 THEN f[s] ELSE 0
    BY <1>13, <2>1 DEF Positive
  <2>3. \A s \in R : p[s] \in Int
    BY <1>16, <2>2
  <2>4. ASSUME NEW s \in T PROVE p[s] = x[s]
    <3>1. s \in DOMAIN b /\ f[s] = x[s] /\ x[s] \in Nat
      BY <1>7, <1>9, <1>13
    <3>2. p[s] = IF f[s] > 0 THEN f[s] ELSE 0
      BY <2>2, <3>1
    <3> QED
      BY <3>1, <3>2
  <2>5. SumOver(p, T) = o
    BY <1>7, <1>10, <2>4, SumCongruence
  <2>6. SumOver(p, T \cup {last}) = SumOver(p, T) + p[last]
    BY <1>4, <1>7, <2>3, SumAdd
  <2>7. p[last] = IF L - o > 0 THEN L - o ELSE 0
    BY <1>5, <1>13, <2>2
  <2>8. SumOver(p, R) = o + p[last]
    BY <1>7, <2>5, <2>6
  <2> QED
    BY <1>3, <1>15, <2>1, <2>7, <2>8
<1>18. AtLeastZero(L) = L
  BY <1>3 DEF AtLeastZero
<1> QED
  BY <1>2, <1>8, <1>13, <1>16, <1>17, <1>18 DEF Within

(* Who is capped gets the maximum, and the others share what is left.      *)
LEMMA WithinCapped ==
  ASSUME NEW b, NEW e, NEW m, NEW w, Fair(b, e, m, w), NEW R, R \subseteq DOMAIN b,
         R # {}, LeftFor(b, e, m, R) > 0,
         NEW C, C = CappedOf(b, e, m, R), C # {},
         NEW h, Within(b, e, m, w, R \ C, h),
         NEW f, f = [s \in DOMAIN b |-> IF s \in C THEN m ELSE h[s]]
  PROVE  Within(b, e, m, w, R, f)
<1> DEFINE x == [s \in R |-> ShareOf(b, e, m, R, s)]
<1>1. \A s \in R : x[s] = ShareOf(b, e, m, R, s)
  OBVIOUS
<1> HIDE DEF x
<1>2. PICK L : L = LeftFor(b, e, m, R)
  OBVIOUS
<1>3. L \in Nat /\ L > 0 /\ L <= e /\ e \in Nat /\ m \in Nat /\ w \in Nat /\ e <= w /\ m <= w
  <2>1. LeftFor(b, e, m, R) \in Int /\ LeftFor(b, e, m, R) <= e
    BY LeftInt
  <2>2. e \in Nat /\ m \in Nat /\ w \in Nat /\ e <= w /\ m <= w
    BY DEF Fair
  <2> QED
    BY <1>2, <2>1, <2>2
<1>4. C \subseteq R
  BY DEF CappedOf
<1>5. PICK T : T = R \ C
  OBVIOUS
<1>6. IsFiniteSet(R) /\ IsFiniteSet(C) /\ IsFiniteSet(T) /\ C \cap T = {} /\ R = C \cup T
  BY <1>4, <1>5, FS_Subset DEF Fair
<1>7. PICK c \in Nat, t \in Nat : c = Cardinality(C) /\ t = Cardinality(T) /\ c # 0
  BY <1>6, FS_CardinalityType, FS_EmptySet
<1>8. Cardinality(R) = c + t
  <2>1. Cardinality(C \cup T) = Cardinality(C) + Cardinality(T) - Cardinality(C \cap T)
    BY <1>6, FS_Union
  <2>2. Cardinality(C \cap T) = 0
    BY <1>6, FS_EmptySet
  <2>3. PICK i : i = Cardinality(C \cap T)
    OBVIOUS
  <2>4. PICK u : u = Cardinality(C \cup T)
    OBVIOUS
  <2>5. u = (c + t) - i /\ i = 0
    BY <1>7, <2>1, <2>2, <2>3, <2>4
  <2>6. u = c + t
    BY <2>5
  <2> QED
    BY <1>6, <2>4, <2>6
<1>9. /\ \A s \in R : x[s] \in Nat
      /\ 2 * SumOver(x, C) <= 2 * L + c
  <2>1. /\ \A s \in R : x[s] \in Nat
        /\ \A U \in SUBSET R : 2 * SumOver(x, U) <= 2 * LeftFor(b, e, m, R) + Cardinality(U)
    BY <1>1, SharesFit
  <2> QED
    BY <1>2, <1>4, <1>7, <2>1
<1>10. \A s \in C : x[s] \in Int /\ m + 1 <= x[s]
  <2>1. \A s \in C : s \in R /\ ShareOf(b, e, m, R, s) > m
    BY DEF CappedOf
  <2> QED
    BY <1>1, <1>3, <1>9, <2>1
<1>11. (m + 1) * c <= SumOver(x, C)
  <2> DEFINE v == [s \in C |-> m + 1]
  <2>1. \A s \in C : v[s] = m + 1
    OBVIOUS
  <2> HIDE DEF v
  <2>2. m + 1 \in Int
    BY <1>3
  <2>3. SumOver(v, C) = (m + 1) * Cardinality(C)
    BY <1>6, <2>1, <2>2, SumSame
  <2>4. \A s \in C : v[s] \in Int /\ x[s] \in Int /\ v[s] <= x[s]
    BY <1>10, <2>1, <2>2
  <2>5. SumOver(v, C) <= SumOver(x, C)
    BY <1>6, <2>4, SumBelow
  <2> QED
    BY <1>7, <2>3, <2>5
<1>12. PICK k \in Nat : k = m * c
  BY <1>3
<1>13. (m + 1) * c = k + c
  BY <1>3, <1>12
<1>14. SumOver(x, C) \in Int
  BY <1>6, <1>10, SumType
<1>15. 2 * k + c <= 2 * L
  BY <1>3, <1>9, <1>11, <1>13, <1>14
<1>16. LeftFor(b, e, m, T) = L - k
  <2>1. LeftFor(b, e, m, R \ C) = LeftFor(b, e, m, R) - m * Cardinality(C)
    BY <1>4, LeftLess
  <2> QED
    BY <1>2, <1>5, <1>7, <1>12, <2>1
<1>17. AtLeastZero(LeftFor(b, e, m, T)) = L - k
  <2>1. L - k \in Nat
    BY <1>3, <1>15
  <2> QED
    BY <1>16, <2>1 DEF AtLeastZero
<1>18. Within(b, e, m, w, T, h)
  BY <1>5
<1>19. /\ DOMAIN h = DOMAIN b
       /\ \A s \in DOMAIN b : h[s] \in Int /\ -t <= h[s] /\ h[s] <= w /\ (s \notin T => h[s] = 0)
       /\ 2 * SumOver(Positive(h), T) <= 2 * (L - k) + t
  BY <1>7, <1>17, <1>18 DEF Within
<1>20. DOMAIN f = DOMAIN b /\ \A s \in DOMAIN b : f[s] = IF s \in C THEN m ELSE h[s]
  OBVIOUS
<1>21. ASSUME NEW s \in DOMAIN b
       PROVE  f[s] \in Int /\ -(c + t) <= f[s] /\ f[s] <= w /\ (s \notin R => f[s] = 0)
  <2>1. CASE s \in C
    BY <1>3, <1>4, <1>20, <2>1
  <2>2. CASE s \notin C
    <3>1. f[s] = h[s] /\ h[s] \in Int /\ -t <= h[s] /\ h[s] <= w /\ (s \notin T => h[s] = 0)
      BY <1>19, <1>20, <2>2
    <3>2. s \notin R => s \notin T
      BY <1>5
    <3> QED
      BY <3>1, <3>2
  <2> QED
    BY <2>1, <2>2
<1>22. 2 * SumOver(Positive(f), R) <= 2 * L + (c + t)
  <2>1. PICK p : p = Positive(f)
    OBVIOUS
  <2>2. PICK q : q = Positive(h)
    OBVIOUS
  <2>3. \A s \in DOMAIN b : p[s] = IF f[s] > 0 THEN f[s] ELSE 0
    BY <1>20, <2>1 DEF Positive
  <2>4. \A s \in DOMAIN b : q[s] = IF h[s] > 0 THEN h[s] ELSE 0
    BY <1>19, <2>2 DEF Positive
  <2>5. \A s \in C : p[s] = m
    BY <1>3, <1>4, <1>20, <2>3
  <2>6. \A s \in T : p[s] = q[s]
    BY <1>5, <1>20, <2>3, <2>4
  <2>7. SumOver(p, C) = k
    <3>1. m \in Int
      BY <1>3
    <3>2. SumOver(p, C) = m * Cardinality(C)
      BY <1>6, <2>5, <3>1, SumSame
    <3> QED
      BY <1>7, <1>12, <3>2
  <2>8. SumOver(p, T) = SumOver(q, T)
    BY <1>6, <2>6, SumCongruence
  <2>9. \A s \in R : p[s] \in Int
    BY <1>21, <2>3
  <2>10. SumOver(p, C \cup T) = SumOver(p, C) + SumOver(p, T)
    <3>1. C \subseteq R /\ T \subseteq R
      BY <1>4, <1>5
    <3>2. C \cap T = {} /\ IsFiniteSet(R)
      BY <1>6
    <3> QED
      BY <2>9, <3>1, <3>2, SumUnion
  <2>11. SumOver(p, T) \in Int
    <3>1. \A s \in T : p[s] \in Int
      BY <1>5, <2>9
    <3> QED
      BY <1>6, <3>1, SumType
  <2>12. PICK z \in Int : z = SumOver(p, T)
    BY <2>11
  <2>13. SumOver(p, R) = k + z
    BY <1>6, <2>7, <2>10, <2>12
  <2>14. 2 * z <= 2 * (L - k) + t
    BY <1>19, <2>2, <2>8, <2>12
  <2>15. 2 * (k + z) <= 2 * L + (c + t)
    BY <1>3, <2>14
  <2> QED
    BY <2>1, <2>13, <2>15
<1>23. AtLeastZero(L) = L
  BY <1>3 DEF AtLeastZero
<1> QED
  BY <1>2, <1>8, <1>20, <1>21, <1>22, <1>23 DEF Within

(* Every allocation of _capped_allocation is within its limits.            *)
LEMMA AllocationWithin ==
  ASSUME NEW b, NEW e, NEW m, NEW w, Fair(b, e, m, w)
  PROVE  Within(b, e, m, w, DOMAIN b, CappedAllocation(b, e, m))
<1>1. IsFiniteSet(DOMAIN b)
  BY DEF Fair
<1>2. PICK g : g = (CHOOSE h : Allocates(b, e, m, h))
  OBVIOUS
<1>3. Allocates(b, e, m, g)
  BY <1>1, <1>2, AllocationExists
<1>4. \A R \in SUBSET DOMAIN b : g[R] = StepOf(b, e, m, g, R)
  BY <1>3 DEF Allocates
<1> DEFINE Bad == {n \in Nat : \E R \in SUBSET DOMAIN b :
                      Cardinality(R) = n /\ ~Within(b, e, m, w, R, g[R])}
<1>5. ASSUME Bad # {} PROVE FALSE
  <2>1. PICK n \in Bad : \A k \in Bad : n <= k
    BY <1>5, LeastNat
  <2>2. PICK R \in SUBSET DOMAIN b : Cardinality(R) = n /\ ~Within(b, e, m, w, R, g[R])
    BY <2>1
  <2>3. PICK C : C = CappedOf(b, e, m, R)
    OBVIOUS
  <2>4. g[R] = IF R = {} \/ LeftFor(b, e, m, R) <= 0 THEN [s \in DOMAIN b |-> 0]
               ELSE IF C = {}
               THEN [s \in DOMAIN b |-> IF s \in R THEN SharedBy(b, e, m, R)[s] ELSE 0]
               ELSE [s \in DOMAIN b |-> IF s \in C THEN m ELSE g[R \ C][s]]
    BY <1>4, <2>3 DEF StepOf
  <2>5. PICK f : f = g[R]
    OBVIOUS
  <2>6. PICK L \in Int : L = LeftFor(b, e, m, R)
    BY LeftInt
  <2>7. CASE R = {} \/ L <= 0
    <3>1. f = [s \in DOMAIN b |-> 0]
      BY <2>4, <2>5, <2>6, <2>7
    <3>2. Within(b, e, m, w, R, f)
      BY <3>1, WithinNothing
    <3> QED
      BY <2>2, <2>5, <3>2
  <2>8. CASE R # {} /\ L > 0 /\ C = {}
    <3>1. f = [s \in DOMAIN b |-> IF s \in R THEN SharedBy(b, e, m, R)[s] ELSE 0]
      BY <2>4, <2>5, <2>6, <2>8
    <3>2. R \subseteq DOMAIN b /\ LeftFor(b, e, m, R) > 0 /\ CappedOf(b, e, m, R) = {}
      BY <2>3, <2>6, <2>8
    <3>3. Within(b, e, m, w, R, f)
      BY <2>8, <3>1, <3>2, WithinShared
    <3> QED
      BY <2>2, <2>5, <3>3
  <2>9. CASE R # {} /\ L > 0 /\ C # {}
    <3>1. PICK h : h = g[R \ C]
      OBVIOUS
    <3>2. f = [s \in DOMAIN b |-> IF s \in C THEN m ELSE h[s]]
      BY <2>4, <2>5, <2>6, <2>9, <3>1
    <3>3. C \subseteq R
      BY <2>3 DEF CappedOf
    <3>4. PICK T : T = R \ C
      OBVIOUS
    <3>5. IsFiniteSet(R) /\ IsFiniteSet(C) /\ T \in SUBSET DOMAIN b
      BY <1>1, <3>3, <3>4, FS_Subset
    <3>6. Cardinality(T) \in Nat /\ Cardinality(T) < n
      <4>1. Cardinality(T) = Cardinality(R) - Cardinality(R \cap C) /\ IsFiniteSet(T)
        BY <3>4, <3>5, FS_Difference
      <4>2. R \cap C = C
        BY <3>3
      <4>3. Cardinality(R \cap C) = Cardinality(C)
        BY <4>2
      <4>4. PICK c \in Nat : c = Cardinality(C) /\ c # 0
        BY <2>9, <3>5, FS_CardinalityType, FS_EmptySet
      <4>5. Cardinality(T) \in Nat /\ n \in Nat
        BY <2>1, <4>1, FS_CardinalityType
      <4>6. Cardinality(T) = n - c
        BY <2>2, <4>1, <4>3, <4>4
      <4> QED
        BY <4>4, <4>5, <4>6
    <3>7. Cardinality(T) \notin Bad
      BY <2>1, <3>6
    <3>8. Within(b, e, m, w, T, g[T])
      BY <3>5, <3>6, <3>7
    <3>9. Within(b, e, m, w, R \ C, h)
      BY <3>1, <3>4, <3>8
    <3>10. R \subseteq DOMAIN b /\ LeftFor(b, e, m, R) > 0
      BY <2>6, <2>9
    <3>11. Within(b, e, m, w, R, f)
      BY <2>3, <2>9, <3>2, <3>9, <3>10, WithinCapped
    <3> QED
      BY <2>2, <2>5, <3>11
  <2> QED
    BY <2>6, <2>7, <2>8, <2>9
<1>6. Cardinality(DOMAIN b) \in Nat
  BY <1>1, FS_CardinalityType
<1>7. Within(b, e, m, w, DOMAIN b, g[DOMAIN b])
  BY <1>5, <1>6
<1>8. CappedAllocation(b, e, m) = g[DOMAIN b]
  BY <1>2, AllocationIs
<1> QED
  BY <1>7, <1>8

-----------------------------------------------------------------------------
(* The exposure the market allows.                                         *)
LEMMA CapNat ==
  ASSUME NEW o, o.final \in Regimes, o.raw.budget \in Percent
  PROVE  /\ ExposureCap(o) \in Nat /\ ExposureCap(o) <= WeightUnit
         /\ ExposureCap(o) <= StrategyPolicy.exposure[o.final]
<1>1. PICK x : x = StrategyPolicy.exposure[o.final]
  OBVIOUS
<1>2. x \in 0 .. WeightUnit /\ WeightUnit \in Nat
  BY <1>1, MainlineLeaderAssumption DEF ValidStrategyPolicy
<1>3. PICK b : b = o.raw.budget
  OBVIOUS
<1>4. b \in Nat
  BY <1>3 DEF Percent
<1>5. b * WeightUnit \in Nat
  BY <1>2, <1>4
<1>6. PICK n \in Nat : n = b * WeightUnit
  BY <1>5
<1>8. PICK y \in Nat : y = n \div 100
  <2>1. n \div 100 >= 0 /\ n \div 100 \in Int
    OBVIOUS
  <2> QED
    BY <2>1
<1>9. Min({x, y}) = IF x <= y THEN x ELSE y
  <2>1. x \in Int /\ y \in Int
    BY <1>2
  <2> QED
    BY <2>1, MinTwo
<1>10. ExposureCap(o) = Min({x, y})
  <2>1. (b * WeightUnit) \div 100 = y
    BY <1>6, <1>8
  <2> QED
    BY <1>1, <1>3, <2>1 DEF ExposureCap
<1> QED
  BY <1>1, <1>2, <1>9, <1>10

(* The stocks a decision is about.                                         *)
LEMMA UniverseSound ==
  ASSUME CandidatesSound, PortfolioInv
  PROVE  /\ IsFiniteSet(Universe(pool, portfolio)) /\ Universe(pool, portfolio) \subseteq Nat
         /\ Cardinality(Universe(pool, portfolio)) \in Nat
         /\ DOMAIN pool.candidates \subseteq Universe(pool, portfolio)
<1>1. /\ IsFiniteSet(DOMAIN pool.candidates) /\ DOMAIN pool.candidates \subseteq Nat
      /\ IsFiniteSet(DOMAIN portfolio.positions) /\ DOMAIN portfolio.positions \subseteq Nat
  BY DEF CandidatesSound, PortfolioInv
<1>2. PICK A : A = DOMAIN pool.candidates
  OBVIOUS
<1>3. PICK B : B = DOMAIN portfolio.positions
  OBVIOUS
<1>4. IsFiniteSet(A \cup B) /\ A \cup B \subseteq Nat
  BY <1>1, <1>2, <1>3, FS_Union
<1>5. Universe(pool, portfolio) = A \cup B
  BY <1>2, <1>3 DEF Universe
<1> QED
  BY <1>2, <1>4, <1>5, FS_CardinalityType

(* What a decision is made from.                                           *)
DecisionSound ==
  /\ CandidatesSound /\ PortfolioInv
  /\ pool.outcome.final \in Regimes /\ pool.outcome.raw.budget \in Percent

(* The bounds MainlineLeaderConfig.__post_init__ checks.                   *)
LEMMA PolicyNats ==
  /\ WeightUnit \in Nat /\ WeightUnit > 0
  /\ StrategyPolicy.maximum_weight \in 1 .. WeightUnit
  /\ StrategyPolicy.maximum_turnover \in Nat
  /\ StrategyPolicy.crowded_multiplier \in Nat /\ StrategyPolicy.crowded_multiplier <= Whole
  /\ Whole \in Nat \ {0}
<1>1. Whole \in Nat \ {0}
  BY MainlineStatesAssumption
<1>2. /\ WeightUnit \in Nat /\ WeightUnit > 0
      /\ StrategyPolicy.maximum_weight \in 1 .. WeightUnit
      /\ StrategyPolicy.maximum_turnover \in 0 .. 2 * WeightUnit
      /\ StrategyPolicy.crowded_multiplier \in 0 .. Whole
  BY MainlineLeaderAssumption DEF ValidStrategyPolicy
<1> QED
  BY <1>1, <1>2

(* What the strategy would hold: nothing but selected stocks, each no more *)
(* than the whole, together no more than the exposure; each of these up to *)
(* a unit per stock.                                                       *)
LEMMA DesiredBounds ==
  ASSUME DecisionSound, NEW U, U = Universe(pool, portfolio),
         NEW n, n = Cardinality(U), NEW cap, cap = ExposureCap(pool.outcome),
         NEW d, d = Desired(pool, portfolio)
  PROVE  /\ DOMAIN d = U
         /\ \A s \in U : /\ d[s] \in Int /\ -n <= d[s] /\ d[s] <= WeightUnit
                         /\ s \notin Selected(pool) => d[s] = 0
         /\ 2 * SumOver(d, U) <= 2 * cap + n
<1>1. CandidatesSound /\ PortfolioInv
  BY DEF DecisionSound
<1>2. IsFiniteSet(U) /\ U \subseteq Nat /\ n \in Nat /\ DOMAIN pool.candidates \subseteq U
  BY <1>1, UniverseSound
<1>3. cap \in Nat /\ cap <= WeightUnit
  <2>1. PICK o : o = pool.outcome
    OBVIOUS
  <2>2. o.final \in Regimes /\ o.raw.budget \in Percent
    BY <2>1 DEF DecisionSound
  <2>3. ExposureCap(o) \in Nat /\ ExposureCap(o) <= WeightUnit
    BY <2>2, CapNat
  <2> QED
    BY <2>1, <2>3
<1>4. PICK sel : sel = Selected(pool)
  OBVIOUS
<1>5. sel \subseteq DOMAIN pool.candidates
  BY <1>4 DEF Selected
<1>6. IsFiniteSet(sel) /\ sel \subseteq Nat /\ sel \subseteq U
  BY <1>2, <1>5, FS_Subset
<1>7. PICK m : m = StrategyPolicy.maximum_weight /\ m \in Nat /\ m <= WeightUnit
  BY PolicyNats
<1>8. PICK b : b = [s \in sel |-> Basis(pool, s)]
  OBVIOUS
<1>9. Fair(b, cap, m, WeightUnit) /\ DOMAIN b = sel
  <2>1. \A s \in sel : Basis(pool, s) \in Nat
    BY <1>1, <1>5, BasisNat
  <2>2. DOMAIN b = sel /\ \A s \in sel : b[s] \in Nat
    BY <1>8, <2>1
  <2> QED
    BY <1>3, <1>6, <1>7, <2>2, PolicyNats DEF Fair
<1>10. PICK shares : shares = CappedAllocation(b, cap, m)
  OBVIOUS
<1>11. Within(b, cap, m, WeightUnit, sel, shares)
  BY <1>9, <1>10, AllocationWithin
<1>12. PICK k \in Nat : k = Cardinality(sel) /\ k <= n
  BY <1>2, <1>6, FS_Subset, FS_CardinalityType
<1>13. /\ DOMAIN shares = sel
       /\ \A s \in sel : shares[s] \in Int /\ -k <= shares[s] /\ shares[s] <= WeightUnit
       /\ 2 * SumOver(Positive(shares), sel) <= 2 * AtLeastZero(LeftFor(b, cap, m, sel)) + k
  BY <1>9, <1>11, <1>12 DEF Within
<1>14. AtLeastZero(LeftFor(b, cap, m, sel)) \in Nat /\ AtLeastZero(LeftFor(b, cap, m, sel)) <= cap
  <2>1. LeftFor(b, cap, m, sel) \in Int /\ LeftFor(b, cap, m, sel) <= cap
    BY <1>9, LeftInt
  <2> QED
    BY <1>3, <2>1 DEF AtLeastZero
<1>15. PICK p : p = Positive(shares)
  OBVIOUS
<1>16. \A s \in sel : p[s] = (IF shares[s] > 0 THEN shares[s] ELSE 0) /\ p[s] \in Int
  BY <1>13, <1>15 DEF Positive
<1>17. SumOver(p, sel) \in Int
  BY <1>6, <1>16, SumType
<1>18. 2 * SumOver(p, sel) <= 2 * cap + n
  BY <1>3, <1>2, <1>12, <1>13, <1>14, <1>15, <1>17
<1>19. PICK crowded : crowded = {s \in sel :
          pool.mainline.industries[pool.candidates[s].industry].state = "CROWDED"}
  OBVIOUS
<1>20. d = [s \in U |->
              IF s \notin sel \/ cap <= 0 THEN 0
              ELSE IF s \in crowded
              THEN Rounded(shares[s] * StrategyPolicy.crowded_multiplier, Whole)
              ELSE shares[s]]
  BY <1>4, <1>7, <1>8, <1>10, <1>19 DEF Desired, Allotted
<1>21. ASSUME NEW s \in sel
       PROVE  d[s] \in Int /\ -n <= d[s] /\ d[s] <= WeightUnit /\ d[s] <= p[s] /\ s \in U
  <2>1. s \in U /\ shares[s] \in Int /\ -k <= shares[s] /\ shares[s] <= WeightUnit
    BY <1>6, <1>13
  <2>2. p[s] = (IF shares[s] > 0 THEN shares[s] ELSE 0)
    BY <1>16
  <2>3. CASE cap <= 0
    <3>1. d[s] = 0
      BY <1>20, <2>1, <2>3
    <3> QED
      BY <1>2, <2>1, <2>2, <3>1, PolicyNats
  <2>4. CASE cap > 0 /\ s \notin crowded
    <3>1. d[s] = shares[s]
      BY <1>3, <1>20, <2>1, <2>4
    <3> QED
      BY <1>2, <1>12, <2>1, <2>2, <3>1
  <2>5. CASE cap > 0 /\ s \in crowded
    <3>1. d[s] = Rounded(shares[s] * StrategyPolicy.crowded_multiplier, Whole)
      BY <1>3, <1>20, <2>1, <2>5
    <3>2. PICK c : c = StrategyPolicy.crowded_multiplier
      OBVIOUS
    <3>3. c \in Nat /\ c <= Whole /\ Whole \in Nat \ {0}
      BY <3>2, PolicyNats
    <3>4. PICK v \in Int : v = shares[s]
      BY <2>1
    <3>5. v * c \in Int
      BY <3>3
    <3>6. Near(Rounded(v * c, Whole), v * c, Whole)
      BY <3>3, <3>5, RoundedNear
    <3>7. PICK y : y = Rounded(v * c, Whole)
      OBVIOUS
    <3>8. y \in Int /\ Near(y, v * c, Whole)
      BY <3>6, <3>7 DEF Near
    <3>9. (v >= 0 => 0 <= y /\ y <= v) /\ (v <= 0 => v <= y /\ y <= 0)
      BY <3>3, <3>8, NearBetween
    <3>10. d[s] = y
      BY <3>1, <3>2, <3>4, <3>7
    <3> QED
      BY <1>2, <1>12, <2>1, <2>2, <3>4, <3>8, <3>9, <3>10, PolicyNats
  <2> QED
    BY <1>3, <2>3, <2>4, <2>5
<1>22. \A s \in U : s \notin sel => d[s] = 0
  BY <1>20
<1>23. \A s \in U : d[s] \in Int /\ -n <= d[s] /\ d[s] <= WeightUnit
  BY <1>2, <1>21, <1>22, PolicyNats
<1>24. SumOver(d, U) = SumOver(d, sel)
  BY <1>2, <1>6, <1>22, <1>23, SumRestrict
<1>25. SumOver(d, sel) <= SumOver(p, sel)
  <2>1. \A s \in sel : d[s] \in Int /\ p[s] \in Int /\ d[s] <= p[s]
    BY <1>16, <1>21
  <2> QED
    BY <1>6, <2>1, SumBelow
<1>26. SumOver(d, sel) \in Int
  <2>1. \A s \in sel : d[s] \in Int
    BY <1>21
  <2> QED
    BY <1>6, <2>1, SumType
<1>27. 2 * SumOver(d, U) <= 2 * cap + n
  BY <1>2, <1>3, <1>17, <1>18, <1>24, <1>25, <1>26
<1>28. DOMAIN d = U
  BY <1>20
<1> QED
  BY <1>4, <1>22, <1>23, <1>27, <1>28

(* What is kept of the portfolio: what is held and qualifies.              *)
LEMMA KeptBounds ==
  ASSUME DecisionSound, NEW U, U = Universe(pool, portfolio),
         NEW k, k = Kept(pool, portfolio)
  PROVE  /\ DOMAIN k = U
         /\ \A s \in U :
              /\ PriorWeight(portfolio, s) \in Nat /\ PriorWeight(portfolio, s) <= WeightUnit
              /\ k[s] \in Nat /\ k[s] <= PriorWeight(portfolio, s)
              /\ s \in Forced(pool, portfolio) <=> s \in DOMAIN portfolio.positions /\ ~Qualified(pool, s)
              /\ ~Qualified(pool, s) => k[s] = 0
              /\ k[s] # 0 => k[s] = PriorWeight(portfolio, s) /\ s \notin Forced(pool, portfolio)
              /\ k[s] = 0 => PriorWeight(portfolio, s) = 0 \/ s \in Forced(pool, portfolio)
<1>1. PICK forced : forced = Forced(pool, portfolio)
  OBVIOUS
<1>2. k = [s \in U |-> IF s \in forced THEN 0 ELSE PriorWeight(portfolio, s)]
  BY <1>1 DEF Kept
<1>3. ASSUME NEW s \in U
      PROVE  PriorWeight(portfolio, s) \in Nat /\ PriorWeight(portfolio, s) <= WeightUnit
  <2>1. s \in DOMAIN portfolio.positions => portfolio.positions[s].weight \in 1 .. WeightUnit
    BY DEF DecisionSound, PortfolioInv
  <2> QED
    BY <2>1, PolicyNats DEF PriorWeight
<1>4. ASSUME NEW s \in U
      PROVE  /\ s \in forced <=> s \in DOMAIN portfolio.positions /\ ~Qualified(pool, s)
             /\ s \notin DOMAIN portfolio.positions => PriorWeight(portfolio, s) = 0
  BY <1>1 DEF Forced, PriorWeight
<1>5. \A s \in U : k[s] = IF s \in forced THEN 0 ELSE PriorWeight(portfolio, s)
  BY <1>2
<1> QED
  BY <1>1, <1>2, <1>3, <1>4, <1>5

(* What is kept, scaled down to the exposure.                              *)
LEMMA BaseBounds ==
  ASSUME DecisionSound, NEW U, U = Universe(pool, portfolio),
         NEW n, n = Cardinality(U), NEW cap, cap = ExposureCap(pool.outcome),
         NEW k, k = Kept(pool, portfolio), NEW b, b = Base(pool, portfolio)
  PROVE  /\ DOMAIN b = U
         /\ \A s \in U : b[s] \in Nat /\ b[s] <= k[s]
         /\ SumOver(k, U) \in Nat /\ (SumOver(k, U) <= cap => b = k)
         /\ 2 * SumOver(b, U) <= 2 * cap + n
<1>1. IsFiniteSet(U) /\ n \in Nat
  BY UniverseSound DEF DecisionSound
<1>2. DOMAIN k = U /\ \A s \in U : k[s] \in Nat
  <2> HIDE DEF Universe
  <2> QED
    BY KeptBounds
<1>3. cap \in Nat
  <2>1. PICK o : o = pool.outcome
    OBVIOUS
  <2>2. o.final \in Regimes /\ o.raw.budget \in Percent
    BY <2>1 DEF DecisionSound
  <2>3. ExposureCap(o) \in Nat
    BY <2>2, CapNat
  <2> QED
    BY <2>1, <2>3
<1>4. PICK sum \in Nat : sum = SumOver(k, U) /\ sum = SumWeights(k)
  BY <1>1, <1>2, SumNat, SumWeightsIs
<1>5. b = IF ~(sum > cap) THEN k ELSE [s \in U |-> Fraction(k[s], cap, sum)]
  BY <1>2, <1>4 DEF Base, Scaled
<1>6. CASE sum <= cap
  <2>1. b = k
    BY <1>3, <1>5, <1>6
  <2>2. 2 * SumOver(b, U) <= 2 * cap + n
    <3>1. SumOver(b, U) = sum
      BY <1>4, <2>1
    <3> QED
      BY <1>1, <1>3, <1>6, <3>1
  <2>3. DOMAIN b = U /\ \A s \in U : b[s] \in Nat /\ b[s] <= k[s]
    BY <1>2, <2>1
  <2> QED
    BY <1>4, <2>1, <2>2, <2>3
<1>7. CASE sum > cap
  <2>1. sum \in Nat \ {0} /\ cap <= sum
    BY <1>3, <1>7
  <2>2. DOMAIN b = U /\ \A s \in U : b[s] = Fraction(k[s], cap, sum)
    BY <1>5, <1>7
  <2>3. ASSUME NEW s \in U
        PROVE  b[s] \in Int /\ Near(b[s], k[s] * cap, sum) /\ 0 <= b[s] /\ b[s] <= k[s]
    <3>1. PICK v \in Int : v = k[s] /\ v >= 0
      BY <1>2
    <3>2. PICK y : y = Fraction(v, cap, sum)
      OBVIOUS
    <3>3. y \in Int /\ Near(y, v * cap, sum)
      BY <1>3, <2>1, <3>2, FractionNear
    <3>4. (v >= 0 => 0 <= y /\ y <= v) /\ (v <= 0 => v <= y /\ y <= 0)
      BY <1>3, <2>1, <3>3, NearBetween
    <3>5. b[s] = y
      BY <2>2, <3>1, <3>2
    <3> QED
      BY <3>1, <3>3, <3>4, <3>5
  <2>4. \A s \in U : b[s] \in Int /\ k[s] \in Int /\ Near(b[s], k[s] * cap, sum)
    BY <1>2, <2>3
  <2>5. SumOver(k, U) <= sum
    BY <1>4
  <2>6. 2 * SumOver(b, U) <= 2 * cap + n
    BY <1>1, <1>3, <2>1, <2>4, <2>5, SharesAddUp
  <2>7. \A s \in U : b[s] \in Nat /\ b[s] <= k[s]
    BY <2>3
  <2>8. ~(SumOver(k, U) <= cap)
    BY <1>3, <1>4, <1>7
  <2> QED
    BY <1>4, <2>2, <2>6, <2>7, <2>8
<1> QED
  BY <1>3, <1>6, <1>7

(* A distance is the difference, without its sign.                         *)
LEMMA DistanceNat ==
  ASSUME NEW a \in Int, NEW b \in Int
  PROVE  Distance(a, b) \in Nat /\ (a >= b => Distance(a, b) = a - b)
         /\ (a <= b => Distance(a, b) = b - a)
BY DEF Distance

(* How far two portfolios are apart.                                       *)
Gap(a, c, S) == MapThenSumSet(LAMBDA s : Distance(a[s], c[s]), S)

(* The distance of two portfolios, as a sum.                               *)
LEMMA GapIs ==
  ASSUME NEW S, IsFiniteSet(S), NEW a, NEW c, NEW x, \A s \in S : x[s] = Distance(a[s], c[s])
  PROVE  Gap(a, c, S) = SumOver(x, S)
<1> DEFINE h == CHOOSE g : g = [s \in SUBSET S |-> IF s = {} THEN 0 ELSE
                                  Distance(a[Pick(s)], c[Pick(s)]) + g[s \ {Pick(s)}]]
<1>1. PICK g : Sums(x, S, g)
  BY IterExists
<1>2. \A s \in SUBSET S : s # {} => x[Pick(s)] = Distance(a[Pick(s)], c[Pick(s)])
  BY DEF Pick
<1>3. g = [s \in SUBSET S |-> IF s = {} THEN 0 ELSE
             Distance(a[Pick(s)], c[Pick(s)]) + g[s \ {Pick(s)}]]
  BY <1>1, <1>2 DEF Sums
<1>4. h = [s \in SUBSET S |-> IF s = {} THEN 0 ELSE
             Distance(a[Pick(s)], c[Pick(s)]) + h[s \ {Pick(s)}]]
  BY <1>3
<1>5. Gap(a, c, S) = h[S]
  BY DEF Gap, MapThenSumSet, MapThenFoldSet, Pick
<1> HIDE DEF h
<1>6. Sums(x, S, h)
  BY <1>4, <1>2 DEF Sums
<1> QED
  BY <1>5, <1>6, SumOverIs

(* The turnover of a decision, as a sum.                                   *)
LEMMA TurnoverIs ==
  ASSUME NEW S, IsFiniteSet(S), NEW prior, NEW target,
         NEW x, \A s \in S : x[s] = Distance(target[s], PriorWeight(prior, s))
  PROVE  Turnover(prior, target, S) = SumOver(x, S)
<1> DEFINE h == CHOOSE g : g = [s \in SUBSET S |-> IF s = {} THEN 0 ELSE
                 Distance(target[Pick(s)], PriorWeight(prior, Pick(s))) + g[s \ {Pick(s)}]]
<1>1. PICK g : Sums(x, S, g)
  BY IterExists
<1>2. \A s \in SUBSET S : s # {} =>
         x[Pick(s)] = Distance(target[Pick(s)], PriorWeight(prior, Pick(s)))
  BY DEF Pick
<1>3. g = [s \in SUBSET S |-> IF s = {} THEN 0 ELSE
             Distance(target[Pick(s)], PriorWeight(prior, Pick(s))) + g[s \ {Pick(s)}]]
  BY <1>1, <1>2 DEF Sums
<1>4. h = [s \in SUBSET S |-> IF s = {} THEN 0 ELSE
             Distance(target[Pick(s)], PriorWeight(prior, Pick(s))) + h[s \ {Pick(s)}]]
  BY <1>3
<1>5. Turnover(prior, target, S) = h[S]
  BY DEF Turnover, MapThenSumSet, MapThenFoldSet, Pick
<1> HIDE DEF h
<1>6. Sums(x, S, h)
  BY <1>4, <1>2 DEF Sums
<1> QED
  BY <1>5, <1>6, SumOverIs

(* Between two sums below a limit a part of the way is below it too.       *)
LEMMA PartOfTheWay ==
  ASSUME NEW a \in Int, NEW b \in Int, NEW c \in Int, NEW l \in Int, NEW n \in Nat,
         NEW part \in Nat, NEW raw \in Nat \ {0}, part <= raw,
         2 * a <= l, 2 * b <= l, 2 * (c * raw - part * (b - a)) <= raw * n
  PROVE  2 * (a + c) <= l + n
<1>1. part * (b - a) = b * part - a * part /\ b * part \in Int /\ a * part \in Int
      /\ c * raw \in Int /\ a * raw \in Int /\ raw * n \in Int /\ l * part \in Int /\ l * raw \in Int
  OBVIOUS
<1>2. (2 * b) * part <= l * part
  BY TimesMonotone
<1>3. (2 * a) * (raw - part) <= l * (raw - part)
  BY TimesMonotone
<1>4. (2 * b) * part = 2 * (b * part)
  OBVIOUS
<1>5. (2 * a) * (raw - part) = 2 * (a * raw) - 2 * (a * part)
      /\ l * (raw - part) = l * raw - l * part
  OBVIOUS
<1>6. (2 * (a + c)) * raw = 2 * (a * raw) + 2 * (c * raw)
  OBVIOUS
<1>7. raw * (l + n) = l * raw + raw * n
  OBVIOUS
<1>8. (2 * (a + c)) * raw <= raw * (l + n)
  BY <1>1, <1>2, <1>3, <1>4, <1>5, <1>6, <1>7
<1> QED
  BY <1>8, Cancel

(* Moving from the base towards the desired weights: every weight stays    *)
(* between the two, the sum stays below what both are below, and the       *)
(* portfolio moves no more than it may; each up to a unit per stock.       *)
LEMMA InterpolatedBounds ==
  ASSUME NEW U, IsFiniteSet(U), NEW n \in Nat, n = Cardinality(U),
         NEW b, DOMAIN b = U, NEW d, DOMAIN d = U,
         \A s \in U : b[s] \in Int /\ d[s] \in Int,
         NEW l \in Int, 2 * SumOver(b, U) <= l, 2 * SumOver(d, U) <= l,
         NEW t, t = Interpolated(b, d),
         NEW x, \A s \in U : x[s] = Distance(t[s], b[s])
  PROVE  /\ DOMAIN t = U
         /\ \A s \in U : /\ t[s] \in Int
                         /\ b[s] <= d[s] => b[s] <= t[s] /\ t[s] <= d[s]
                         /\ d[s] <= b[s] => d[s] <= t[s] /\ t[s] <= b[s]
         /\ 2 * SumOver(t, U) <= l + n
         /\ 2 * SumOver(x, U) <= 2 * StrategyPolicy.maximum_turnover + n
<1> DEFINE v == [s \in U |-> Distance(d[s], b[s])]
<1>1. \A s \in U : v[s] = Distance(d[s], b[s]) /\ v[s] \in Nat
  BY DistanceNat
<1> HIDE DEF v
<1>2. PICK raw \in Nat : raw = SumOver(v, U)
  BY <1>1, SumNat
<1>3. PICK mt \in Nat : mt = StrategyPolicy.maximum_turnover
  BY PolicyNats
<1>4. Gap(d, b, U) = raw
  BY <1>1, <1>2, GapIs
<1>5. t = IF raw <= mt THEN d ELSE [s \in U |-> b[s] + Fraction(d[s] - b[s], mt, raw)]
  BY <1>3, <1>4 DEF Interpolated, Gap
<1>6. SumOver(b, U) \in Int /\ SumOver(d, U) \in Int
  BY SumType
<1>7. CASE raw <= mt
  <2>1. t = d
    BY <1>5, <1>7
  <2>2. \A s \in U : x[s] = v[s]
    BY <1>1, <2>1
  <2>3. SumOver(x, U) = raw
    BY <1>2, <2>2, SumCongruence
  <2>4. 2 * SumOver(x, U) <= 2 * mt + n
    BY <1>7, <2>3
  <2>5. 2 * SumOver(t, U) <= l + n
    BY <1>6, <2>1
  <2> QED
    BY <1>3, <2>1, <2>4, <2>5
<1>8. CASE raw > mt
  <2>1. raw \in Nat \ {0} /\ mt <= raw
    BY <1>8
  <2>2. DOMAIN t = U /\ \A s \in U : t[s] = b[s] + Fraction(d[s] - b[s], mt, raw)
    BY <1>5, <1>8
  <2> DEFINE g == [s \in U |-> d[s] - b[s]]
             f == [s \in U |-> Fraction(g[s], mt, raw)]
  <2>3. \A s \in U : g[s] = d[s] - b[s] /\ g[s] \in Int
    OBVIOUS
  <2> HIDE DEF g
  <2>4. \A s \in U : f[s] = Fraction(g[s], mt, raw)
    OBVIOUS
  <2> HIDE DEF f
  <2>5. ASSUME NEW s \in U
        PROVE  /\ f[s] \in Int /\ Near(f[s], g[s] * mt, raw)
               /\ g[s] >= 0 => 0 <= f[s] /\ f[s] <= g[s]
               /\ g[s] <= 0 => g[s] <= f[s] /\ f[s] <= 0
    <3>1. PICK w \in Int : w = g[s]
      BY <2>3
    <3>2. PICK y : y = Fraction(w, mt, raw)
      OBVIOUS
    <3>3. y \in Int /\ Near(y, w * mt, raw)
      BY <2>1, <3>2, FractionNear
    <3>4. (w >= 0 => 0 <= y /\ y <= w) /\ (w <= 0 => w <= y /\ y <= 0)
      BY <2>1, <3>3, NearBetween
    <3>5. f[s] = y
      BY <2>4, <3>1, <3>2
    <3> QED
      BY <3>1, <3>3, <3>4, <3>5
  <2>6. \A s \in U : t[s] = b[s] + f[s]
    BY <2>2, <2>3, <2>4
  <2>7. ASSUME NEW s \in U
        PROVE  /\ t[s] \in Int
               /\ b[s] <= d[s] => b[s] <= t[s] /\ t[s] <= d[s]
               /\ d[s] <= b[s] => d[s] <= t[s] /\ t[s] <= b[s]
    <3>1. t[s] = b[s] + f[s] /\ f[s] \in Int /\ b[s] \in Int /\ d[s] \in Int /\ g[s] = d[s] - b[s]
      BY <2>3, <2>5, <2>6
    <3>2. /\ g[s] >= 0 => 0 <= f[s] /\ f[s] <= g[s]
          /\ g[s] <= 0 => g[s] <= f[s] /\ f[s] <= 0
      BY <2>5
    <3> QED
      BY <3>1, <3>2
  <2>8. SumOver(t, U) = SumOver(b, U) + SumOver(f, U)
    <3>1. \A s \in U : b[s] \in Int /\ f[s] \in Int /\ t[s] = b[s] + f[s]
      BY <2>5, <2>6
    <3> QED
      BY <3>1, SumPlus
  <2>9. SumOver(d, U) = SumOver(b, U) + SumOver(g, U)
    <3>1. \A s \in U : b[s] \in Int /\ g[s] \in Int /\ d[s] = b[s] + g[s]
      BY <2>3
    <3> QED
      BY <3>1, SumPlus
  <2> DEFINE c == [s \in U |-> mt * g[s]]
  <2>10. \A s \in U : c[s] = mt * g[s]
    OBVIOUS
  <2> HIDE DEF c
  <2>11. \A s \in U : f[s] \in Int /\ c[s] \in Int /\ Near(f[s], c[s], raw)
    <3> SUFFICES ASSUME NEW s \in U
                 PROVE  f[s] \in Int /\ c[s] \in Int /\ Near(f[s], c[s], raw)
      OBVIOUS
    <3>1. c[s] = g[s] * mt /\ c[s] \in Int
      BY <2>3, <2>10
    <3> QED
      BY <2>5, <3>1
  <2>12. /\ SumOver(f, U) \in Int
         /\ 2 * (SumOver(f, U) * raw - SumOver(c, U)) <= raw * n
    BY <2>1, <2>11, NearSums
  <2>13. SumOver(c, U) = mt * SumOver(g, U)
    <3>1. mt \in Int /\ \A s \in U : g[s] \in Int /\ c[s] = mt * g[s]
      BY <2>3, <2>10
    <3> QED
      BY <3>1, SumTimes
  <2>14. SumOver(g, U) \in Int
    BY <2>3, SumType
  <2>15. 2 * SumOver(t, U) <= l + n
    <3>1. PICK sa \in Int : sa = SumOver(b, U)
      BY <1>6
    <3>2. PICK sb \in Int : sb = SumOver(d, U)
      BY <1>6
    <3>3. PICK sc \in Int : sc = SumOver(f, U)
      BY <2>12
    <3>4. SumOver(g, U) = sb - sa
      BY <2>9, <2>14, <3>1, <3>2
    <3>5. 2 * (sc * raw - mt * (sb - sa)) <= raw * n
      BY <2>12, <2>13, <3>3, <3>4
    <3>6. 2 * sa <= l /\ 2 * sb <= l
      BY <3>1, <3>2
    <3>7. 2 * (sa + sc) <= l + n
      BY <2>1, <3>5, <3>6, PartOfTheWay
    <3> QED
      BY <2>8, <3>1, <3>3, <3>7
  <2>16. 2 * SumOver(x, U) <= 2 * mt + n
    <3>1. ASSUME NEW s \in U
          PROVE  x[s] \in Int /\ v[s] \in Int /\ Near(x[s], v[s] * mt, raw)
      <4>1. /\ f[s] \in Int /\ g[s] \in Int /\ t[s] = b[s] + f[s] /\ b[s] \in Int /\ d[s] \in Int
            /\ g[s] = d[s] - b[s]
        BY <2>3, <2>5, <2>6
      <4>2. x[s] = IF f[s] >= 0 THEN f[s] ELSE -f[s]
        BY <4>1 DEF Distance
      <4>3. v[s] = IF g[s] >= 0 THEN g[s] ELSE -g[s]
        BY <1>1, <4>1 DEF Distance
      <4>4. PICK y \in Int, w \in Int : y = f[s] /\ w = g[s]
        BY <4>1
      <4>5. Near(y, w * mt, raw) /\ (w >= 0 => 0 <= y) /\ (w <= 0 => y <= 0)
        BY <2>5, <4>4
      <4>6. CASE w >= 0
        <5>1. x[s] = y /\ v[s] = w
          BY <4>2, <4>3, <4>4, <4>5, <4>6
        <5> QED
          BY <4>5, <5>1
      <4>7. CASE w < 0
        <5>1. x[s] = -y /\ v[s] = -w
          BY <4>2, <4>3, <4>4, <4>5, <4>7
        <5>2. (-y) * raw = -(y * raw) /\ (-w) * mt = -(w * mt) /\ y * raw \in Int /\ w * mt \in Int
          OBVIOUS
        <5>3. Near(-y, (-w) * mt, raw)
          BY <4>5, <5>2 DEF Near
        <5> QED
          BY <5>1, <5>3
      <4> QED
        BY <4>6, <4>7
    <3>2. SumOver(v, U) <= raw
      BY <1>2
    <3>3. 2 * SumOver(x, U) <= 2 * mt + Cardinality(U)
      BY <2>1, <3>1, <3>2, SharesAddUp
    <3> QED
      BY <3>3
  <2> QED
    BY <1>3, <2>2, <2>7, <2>15, <2>16
<1> QED
  BY <1>7, <1>8

-----------------------------------------------------------------------------
(* The target, and what a decision holds.                                  *)

(* The target is a decision's base, or lies between it and the desired.    *)
LEMMA TargetBounds ==
  ASSUME DecisionSound, NEW U, U = Universe(pool, portfolio),
         NEW n, n = Cardinality(U), NEW cap, cap = ExposureCap(pool.outcome),
         NEW b, b = Base(pool, portfolio), NEW d, d = Desired(pool, portfolio),
         NEW t, t = Target(session, pool, portfolio),
         NEW x, \A s \in U : x[s] = Distance(t[s], b[s])
  PROVE  /\ DOMAIN t = U
         /\ \A s \in U : /\ t[s] \in Int
                         /\ b[s] <= d[s] => b[s] <= t[s] /\ t[s] <= d[s]
                         /\ d[s] <= b[s] => d[s] <= t[s] /\ t[s] <= b[s]
         /\ 2 * SumOver(t, U) <= 2 * cap + 2 * n
         /\ 2 * SumOver(x, U) <= 2 * StrategyPolicy.maximum_turnover + n
<1>1. IsFiniteSet(U) /\ n \in Nat
  BY UniverseSound DEF DecisionSound
<1>2. cap \in Nat
  <2>1. PICK o : o = pool.outcome
    OBVIOUS
  <2>2. o.final \in Regimes /\ o.raw.budget \in Percent
    BY <2>1 DEF DecisionSound
  <2>3. ExposureCap(o) \in Nat
    BY <2>2, CapNat
  <2> QED
    BY <2>1, <2>3
<1>3. PICK k : k = Kept(pool, portfolio)
  OBVIOUS
<1>4. DOMAIN b = U /\ (\A s \in U : b[s] \in Nat) /\ 2 * SumOver(b, U) <= 2 * cap + n
  BY <1>3, BaseBounds
<1>5. DOMAIN d = U /\ (\A s \in U : d[s] \in Int) /\ 2 * SumOver(d, U) <= 2 * cap + n
  BY DesiredBounds
<1>6. SumOver(b, U) \in Int
  <2>1. \A s \in U : b[s] \in Int
    BY <1>4
  <2> QED
    BY <1>1, <2>1, SumType
<1>7. PICK l \in Int : l = 2 * cap + n
  BY <1>1, <1>2
<1>8. CASE t = b
  <2>1. ASSUME NEW s \in U PROVE x[s] = 0
    <3>1. b[s] \in Int /\ x[s] = Distance(b[s], b[s])
      BY <1>4, <1>8
    <3> QED
      BY <3>1 DEF Distance
  <2>2. SumOver(x, U) = 0
    BY <1>1, <2>1, SumZero
  <2>3. 2 * SumOver(x, U) <= 2 * StrategyPolicy.maximum_turnover + n
    BY <1>1, <2>2, PolicyNats
  <2>4. 2 * SumOver(t, U) <= 2 * cap + 2 * n
    BY <1>1, <1>2, <1>4, <1>6, <1>8
  <2>5. \A s \in U : t[s] = b[s] /\ b[s] \in Nat /\ d[s] \in Int
    BY <1>4, <1>5, <1>8
  <2> QED
    BY <1>4, <1>8, <2>3, <2>4, <2>5
<1>9. CASE t = Interpolated(b, d)
  <2>1. \A s \in U : b[s] \in Int /\ d[s] \in Int
    BY <1>4, <1>5
  <2>2. 2 * SumOver(b, U) <= l /\ 2 * SumOver(d, U) <= l
    BY <1>4, <1>5, <1>7
  <2>3. /\ DOMAIN t = U
        /\ \A s \in U : /\ t[s] \in Int
                        /\ b[s] <= d[s] => b[s] <= t[s] /\ t[s] <= d[s]
                        /\ d[s] <= b[s] => d[s] <= t[s] /\ t[s] <= b[s]
        /\ 2 * SumOver(t, U) <= l + n
        /\ 2 * SumOver(x, U) <= 2 * StrategyPolicy.maximum_turnover + n
    BY <1>1, <1>4, <1>5, <1>9, <2>1, <2>2, InterpolatedBounds
  <2>4. SumOver(t, U) \in Int
    BY <1>1, <2>3, SumType
  <2>5. 2 * SumOver(t, U) <= 2 * cap + 2 * n
    BY <1>1, <1>2, <1>7, <2>3, <2>4
  <2> QED
    BY <2>3, <2>5
<1>10. t = b \/ t = Interpolated(b, d)
  BY DEF Target
<1> QED
  BY <1>8, <1>9, <1>10

(* What does not qualify is sold.                                          *)
LEMMA OnlyQualified ==
  ASSUME DecisionSound, NEW t, t = Target(session, pool, portfolio),
         NEW s \in DOMAIN t, t[s] > 0
  PROVE  Qualified(pool, s)
<1> SUFFICES ASSUME ~Qualified(pool, s) PROVE FALSE
  OBVIOUS
<1>1. PICK U : U = Universe(pool, portfolio)
  OBVIOUS
<1>2. PICK n : n = Cardinality(U)
  OBVIOUS
<1>3. PICK cap : cap = ExposureCap(pool.outcome)
  OBVIOUS
<1>4. PICK k : k = Kept(pool, portfolio)
  OBVIOUS
<1>5. PICK b : b = Base(pool, portfolio)
  OBVIOUS
<1>6. PICK d : d = Desired(pool, portfolio)
  OBVIOUS
<1> DEFINE x == [r \in U |-> Distance(t[r], b[r])]
<1>7. \A r \in U : x[r] = Distance(t[r], b[r])
  OBVIOUS
<1> HIDE DEF x
<1>8. /\ DOMAIN t = U
      /\ \A r \in U : /\ t[r] \in Int
                      /\ b[r] <= d[r] => b[r] <= t[r] /\ t[r] <= d[r]
                      /\ d[r] <= b[r] => d[r] <= t[r] /\ t[r] <= b[r]
  BY <1>1, <1>2, <1>3, <1>5, <1>6, <1>7, TargetBounds
<1>9. s \in U
  BY <1>8
<1>10. k[s] = 0
  <2>1. \A r \in U : ~Qualified(pool, r) => k[r] = 0
    BY <1>1, <1>4, KeptBounds
  <2> QED
    BY <1>9, <2>1
<1>11. b[s] = 0
  <2>1. \A r \in U : b[r] \in Nat /\ b[r] <= k[r]
    BY <1>1, <1>2, <1>3, <1>4, <1>5, BaseBounds
  <2> QED
    BY <1>9, <1>10, <2>1
<1>12. d[s] = 0
  <2>1. \A r \in U : r \notin Selected(pool) => d[r] = 0
    BY <1>1, <1>2, <1>3, <1>6, DesiredBounds
  <2>2. s \notin Selected(pool)
    BY DEF Selected
  <2> QED
    BY <1>9, <2>1, <2>2
<1> QED
  BY <1>8, <1>9, <1>11, <1>12

-----------------------------------------------------------------------------
(* The weight a portfolio holds.                                           *)
HeldWeight(positions) == MapThenSumSet(LAMBDA s : positions[s].weight, DOMAIN positions)

(* The weight held, as a sum.                                              *)
LEMMA HeldWeightIs ==
  ASSUME NEW f, IsFiniteSet(DOMAIN f), NEW x, \A s \in DOMAIN f : x[s] = f[s].weight
  PROVE  HeldWeight(f) = SumOver(x, DOMAIN f)
<1> DEFINE S == DOMAIN f
           h == CHOOSE g : g = [s \in SUBSET S |-> IF s = {} THEN 0 ELSE
                                  f[Pick(s)].weight + g[s \ {Pick(s)}]]
<1>1. PICK g : Sums(x, S, g)
  BY IterExists
<1>2. \A s \in SUBSET S : s # {} => x[Pick(s)] = f[Pick(s)].weight
  BY DEF Pick
<1>3. g = [s \in SUBSET S |-> IF s = {} THEN 0 ELSE f[Pick(s)].weight + g[s \ {Pick(s)}]]
  BY <1>1, <1>2 DEF Sums
<1>4. h = [s \in SUBSET S |-> IF s = {} THEN 0 ELSE f[Pick(s)].weight + h[s \ {Pick(s)}]]
  BY <1>3
<1>5. HeldWeight(f) = h[S]
  BY DEF HeldWeight, MapThenSumSet, MapThenFoldSet, Pick
<1> HIDE DEF h
<1>6. Sums(x, S, h)
  BY <1>4, <1>2 DEF Sums
<1> QED
  BY <1>5, <1>6, SumOverIs

(* HoldingsFollowLeadership of a portfolio held on a day.                  *)
FollowsLeadership(held, today, engine, regime) ==
  /\ \A s \in DOMAIN held.positions :
        /\ today.stocks[s].eligible /\ ~today.stocks[s].blocked
        /\ held.positions[s].industry \in DOMAIN engine.tracked
        /\ engine.tracked[held.positions[s].industry].state \in ActiveStates
  /\ HeldWeight(held.positions) <= StrategyPolicy.exposure[regime]

(* HoldingsFollowLeadership of the portfolio held now.                     *)
Following == FollowsLeadership(portfolio, features, mainlines, regimes.current)

(* The property says this of every decision.                               *)
LEMMA FollowingIs == HoldingsFollowLeadership <=> (Decided => Following)
BY DEF HoldingsFollowLeadership, Following, FollowsLeadership, HeldWeight

(* The decision that is made, or fails.                                    *)
LEMMA DecisionIs ==
  ASSUME DecidePortfolio, NEW t, t = Target(session, pool, portfolio)
  PROVE  /\ answer' = Failed => portfolio' = portfolio /\ ~AcceptedTarget(pool, portfolio, t)
         /\ answer' # Failed =>
              /\ AcceptedTarget(pool, portfolio, t)
              /\ portfolio' = Portfolio(session, Version, pool, portfolio, t)
<1>1. /\ answer' = Decide(session, session, Version, pool, portfolio) /\ answer' # Refused
      /\ portfolio' = IF answer' = Failed THEN portfolio
                      ELSE Portfolio(session, Version, pool, portfolio, answer'.target)
  BY DEF DecidePortfolio
<1>2. answer' = Judged(pool, portfolio, t)
  BY <1>1 DEF Decide
<1>3. CASE ~AcceptedTarget(pool, portfolio, t)
  BY <1>1, <1>2, <1>3 DEF Judged
<1>4. CASE AcceptedTarget(pool, portfolio, t)
  <2>1. PICK status \in {"CASH", "HOLD", "REBALANCE"} :
          Judged(pool, portfolio, t) = [status |-> status, target |-> t]
    BY <1>4 DEF Judged
  <2>2. answer'.status = status /\ answer'.target = t
    BY <1>2, <2>1
  <2>3. answer' # Failed
    BY <2>2 DEF Failed
  <2> QED
    BY <1>1, <1>4, <2>2, <2>3
<1> QED
  BY <1>3, <1>4

(* The candidates of a session belong to the market state and industries   *)
(* the engines still hold.                                                 *)
LEMMA SessionSound ==
  ASSUME PipelineInv, PortfolioInv, pool # Missing
  PROVE  /\ DecisionSound
         /\ pool.outcome = outcome /\ pool.mainline = mainline /\ outcome.final = regimes.current
         /\ \A id \in DOMAIN mainline.industries :
               /\ id \in DOMAIN mainlines.tracked
               /\ mainline.industries[id].state = mainlines.tracked[id].state
<1>1. CandidatesSound
  BY PoolIs DEF PipelineInv
<1>2. mainline # Missing /\ outcome # Missing
  BY DEF PipelineInv, PoolInv, MainlineInv
<1>3. /\ outcome.final = regimes.current /\ outcome.final \in Regimes
      /\ outcome.raw.budget \in Percent
  BY <1>2 DEF PipelineInv, RegimeInv
<1>4. \A id \in DOMAIN mainline.industries :
         /\ id \in DOMAIN mainlines.tracked
         /\ mainline.industries[id].state = mainlines.tracked[id].state
  BY <1>2 DEF PipelineInv, MainlineInv
<1>5. pool.outcome = outcome /\ pool.mainline = mainline
  BY <1>1 DEF CandidatesSound
<1>6. DecisionSound
  BY <1>1, <1>3, <1>5 DEF DecisionSound
<1> QED
  BY <1>3, <1>4, <1>5, <1>6

(* A decision leaves a portfolio that follows the leadership of its        *)
(* session.                                                                *)
LEMMA DecideHolds ==
  ASSUME PipelineInv, PortfolioInv, DecidePortfolio
  PROVE  PortfolioInv' /\ HoldingsFollowLeadership'
<1>1. /\ PipelineInv' /\ pool # Missing
      /\ UNCHANGED << session, regimes, mainlines, outcome, mainline, features, pool,
                      streak, leading >>
  BY DecideKeeps
<1>2. /\ DecisionSound
      /\ pool.outcome = outcome /\ pool.mainline = mainline /\ outcome.final = regimes.current
      /\ \A id \in DOMAIN mainline.industries :
            /\ id \in DOMAIN mainlines.tracked
            /\ mainline.industries[id].state = mainlines.tracked[id].state
  BY <1>1, SessionSound
<1>3. PICK t : t = Target(session, pool, portfolio)
  OBVIOUS
<1>4. /\ answer' = Failed => portfolio' = portfolio /\ ~AcceptedTarget(pool, portfolio, t)
      /\ answer' # Failed =>
           /\ AcceptedTarget(pool, portfolio, t)
           /\ portfolio' = Portfolio(session, Version, pool, portfolio, t)
  BY <1>3, DecisionIs
<1>5. CASE answer' = Failed
  <2>1. PortfolioInv'
    BY <1>4, <1>5 DEF PortfolioInv
  <2>2. HoldingsFollowLeadership'
    BY <1>5 DEF HoldingsFollowLeadership, Decided
  <2> QED
    BY <2>1, <2>2
<1>6. CASE answer' # Failed
  <2>1. PICK held : held = {s \in DOMAIN t : t[s] > 0}
    OBVIOUS
  <2>2. portfolio'.positions = [s \in held |->
           [weight |-> t[s], industry |-> IndustryOf(pool, portfolio, s)]]
    BY <1>4, <1>6, <2>1 DEF Portfolio
  <2>3. LongOnly(t) /\ SumWeights(t) <= ExposureCap(pool.outcome)
    BY <1>4, <1>6 DEF AcceptedTarget
  <2>4. DOMAIN t = Universe(pool, portfolio)
    <3>1. PICK U : U = Universe(pool, portfolio)
      OBVIOUS
    <3>2. PICK n : n = Cardinality(U)
      OBVIOUS
    <3>3. PICK cap : cap = ExposureCap(pool.outcome)
      OBVIOUS
    <3>4. PICK b : b = Base(pool, portfolio)
      OBVIOUS
    <3>5. PICK d : d = Desired(pool, portfolio)
      OBVIOUS
    <3> DEFINE x == [r \in U |-> Distance(t[r], b[r])]
    <3>6. \A r \in U : x[r] = Distance(t[r], b[r])
      OBVIOUS
    <3> HIDE DEF x
    <3>7. DOMAIN t = U
      BY <1>2, <1>3, <3>1, <3>2, <3>3, <3>4, <3>5, <3>6, TargetBounds
    <3> QED
      BY <3>1, <3>7
  <2>5. IsFiniteSet(DOMAIN t) /\ DOMAIN t \subseteq Nat
    BY <1>2, <2>4, UniverseSound DEF DecisionSound
  <2>6. IsFiniteSet(held) /\ held \subseteq DOMAIN t
    BY <2>1, <2>5, FS_Subset
  <2>7. \A s \in DOMAIN t : t[s] \in 0 .. WeightUnit
    BY <2>3 DEF LongOnly
  <2>8. PICK p : p = portfolio'.positions
    OBVIOUS
  <2>9. DOMAIN p = held /\ \A s \in held : p[s].weight = t[s]
                                           /\ p[s].industry = IndustryOf(pool, portfolio, s)
    BY <2>2, <2>8
  <2>10. \A s \in held : t[s] \in 1 .. WeightUnit
    <3>1. ASSUME NEW s \in held PROVE t[s] \in 1 .. WeightUnit
      BY <2>1, <2>7
    <3> QED
      BY <3>1
  <2>11. PortfolioInv'
    <3>1. IsFiniteSet(DOMAIN p) /\ DOMAIN p \subseteq Nat
      BY <2>5, <2>6, <2>9
    <3>2. \A s \in DOMAIN p : p[s].weight \in 1 .. WeightUnit
      BY <2>9, <2>10
    <3> QED
      BY <2>8, <3>1, <3>2 DEF PortfolioInv
  <2>12. ASSUME NEW s \in held
         PROVE  /\ features.stocks[s].eligible /\ ~features.stocks[s].blocked
                /\ p[s].industry \in DOMAIN mainlines.tracked
                /\ mainlines.tracked[p[s].industry].state \in ActiveStates
    <3>1. Qualified(pool, s)
      BY <1>2, <1>3, <2>1, OnlyQualified
    <3>2. /\ s \in DOMAIN pool.candidates
          /\ pool.ranking.leaders[s].eligible
          /\ pool.candidates[s].industry \in DOMAIN pool.mainline.industries
          /\ pool.mainline.industries[pool.candidates[s].industry].state \in StrategyPolicy.states
      BY <3>1 DEF Qualified
    <3>3. features.stocks[s].eligible /\ ~features.stocks[s].blocked
      BY <1>2, <3>2 DEF DecisionSound, CandidatesSound
    <3>4. p[s].industry = pool.candidates[s].industry
      BY <2>9, <3>2 DEF IndustryOf
    <3>5. StrategyPolicy.states \subseteq ActiveStates
      BY MainlineLeaderAssumption DEF ValidStrategyPolicy
    <3> QED
      BY <1>2, <3>2, <3>3, <3>4, <3>5
  <2>13. HeldWeight(p) <= StrategyPolicy.exposure[regimes.current]
    <3>1. \A s \in DOMAIN p : t[s] = p[s].weight
      BY <2>9
    <3>2. HeldWeight(p) = SumOver(t, DOMAIN p)
      BY <2>6, <2>9, <3>1, HeldWeightIs
    <3>3. \A s \in DOMAIN t : t[s] \in Nat
      BY <2>7, PolicyNats
    <3>4. /\ SumOver(t, held) <= SumOver(t, DOMAIN t)
          /\ SumOver(t, held) \in Nat /\ SumOver(t, DOMAIN t) \in Nat
      BY <2>5, <2>6, <3>3, SumPart
    <3>5. SumOver(t, DOMAIN t) <= ExposureCap(pool.outcome)
      BY <2>3, SumWeightsIs
    <3>6. /\ ExposureCap(pool.outcome) \in Nat
          /\ ExposureCap(pool.outcome) <= StrategyPolicy.exposure[regimes.current]
      <4>1. PICK o : o = pool.outcome
        OBVIOUS
      <4>2. o.final \in Regimes /\ o.raw.budget \in Percent /\ o.final = regimes.current
        BY <1>2, <4>1 DEF DecisionSound
      <4>3. ExposureCap(o) \in Nat /\ ExposureCap(o) <= StrategyPolicy.exposure[o.final]
        BY <4>2, CapNat
      <4> QED
        BY <4>1, <4>2, <4>3
    <3>7. StrategyPolicy.exposure[regimes.current] \in Int
      <4>1. regimes.current \in Regimes /\ WeightUnit \in Nat
        BY <1>2, PolicyNats DEF DecisionSound
      <4>2. StrategyPolicy.exposure[regimes.current] \in 0 .. WeightUnit
        BY <4>1, MainlineLeaderAssumption DEF ValidStrategyPolicy
      <4> QED
        BY <4>1, <4>2
    <3>8. HeldWeight(p) = SumOver(t, held)
      BY <2>9, <3>2
    <3> QED
      BY <3>4, <3>5, <3>6, <3>7, <3>8
  <2>14. FollowsLeadership(portfolio', features, mainlines, regimes.current)
    BY <2>8, <2>9, <2>12, <2>13 DEF FollowsLeadership
  <2>15. FollowsLeadership(portfolio', features', mainlines', regimes'.current)
    BY <1>1, <2>14
  <2>16. Following'
    BY <2>15 DEF Following
  <2>17. HoldingsFollowLeadership'
    BY <2>16, FollowingIs, PTL
  <2> QED
    BY <2>11, <2>17
<1> QED
  BY <1>5, <1>6

-----------------------------------------------------------------------------
(* A decision that fails fails by rounding.                                *)

(* FailuresAreRounding of a decision on a day.                             *)
Reduced(pl, pf, target) ==
  {s \in DOMAIN target : /\ target[s] < PriorWeight(pf, s)
                         /\ \/ Kept(pl, pf)[s] = 0
                            \/ SumWeights(Kept(pl, pf)) > ExposureCap(pl.outcome)}
Moved(pl, pf, target) == Turnover(pf, target, DOMAIN target \ Reduced(pl, pf, target))
RoundsUp(pl, pf, target, desired) ==
  /\ SumWeights(target) <= ExposureCap(pl.outcome) + Cardinality(DOMAIN target)
  /\ Moved(pl, pf, target) <= StrategyPolicy.maximum_turnover + Cardinality(DOMAIN target)
  /\ \A s \in DOMAIN desired : desired[s] >= -Cardinality(DOMAIN target)
  /\ \/ SumWeights(target) > ExposureCap(pl.outcome)
     \/ Moved(pl, pf, target) > StrategyPolicy.maximum_turnover
     \/ \E s \in DOMAIN desired : desired[s] < 0
Rounds(day, pl, pf) == RoundsUp(pl, pf, Target(day, pl, pf), Desired(pl, pf))
Rounding == Rounds(session, pool, portfolio)

(* The property says this of every failure.                                *)
LEMMA RoundingIs == FailuresAreRounding <=> (answer = Failed => Rounding)
<1>1. FailuresAreRounding
        <=> (answer = Failed =>
               \A target \in {Target(session, pool, portfolio)},
                  desired \in {Desired(pool, portfolio)} :
                 RoundsUp(pool, portfolio, target, desired))
  BY DEF FailuresAreRounding, RoundsUp, Moved, Reduced, Turnover
<1>2. Rounding
        <=> \A target \in {Target(session, pool, portfolio)},
               desired \in {Desired(pool, portfolio)} :
              RoundsUp(pool, portfolio, target, desired)
  BY DEF Rounding, Rounds
<1> QED
  BY <1>1, <1>2

(* What is not exempt from the turnover moves away from the base at least  *)
(* as far as from the portfolio held.                                      *)
LEMMA MovedBounds ==
  ASSUME DecisionSound, NEW t, t = Target(session, pool, portfolio),
         NEW n, n = Cardinality(DOMAIN t), NEW S, S \subseteq DOMAIN t \ Reduced(pool, portfolio, t)
  PROVE  /\ Turnover(portfolio, t, S) \in Nat
         /\ 2 * Turnover(portfolio, t, S) <= 2 * StrategyPolicy.maximum_turnover + n
         /\ Turnover(portfolio, t, S) <= Moved(pool, portfolio, t)
         /\ Moved(pool, portfolio, t) \in Nat
<1>1. PICK U : U = Universe(pool, portfolio)
  OBVIOUS
<1>2. PICK m : m = Cardinality(U)
  OBVIOUS
<1>3. PICK cap : cap = ExposureCap(pool.outcome)
  OBVIOUS
<1>4. PICK b : b = Base(pool, portfolio)
  OBVIOUS
<1>5. PICK d : d = Desired(pool, portfolio)
  OBVIOUS
<1>6. PICK k : k = Kept(pool, portfolio)
  OBVIOUS
<1> DEFINE x == [s \in U |-> Distance(t[s], b[s])]
           y == [s \in U |-> Distance(t[s], PriorWeight(portfolio, s))]
<1>7. \A s \in U : x[s] = Distance(t[s], b[s])
  OBVIOUS
<1>8. \A s \in U : y[s] = Distance(t[s], PriorWeight(portfolio, s))
  OBVIOUS
<1> HIDE DEF x, y
<1>9. IsFiniteSet(U) /\ m \in Nat
  BY <1>1, <1>2, UniverseSound DEF DecisionSound
<1>10. /\ DOMAIN t = U
       /\ \A s \in U : t[s] \in Int
       /\ 2 * SumOver(x, U) <= 2 * StrategyPolicy.maximum_turnover + m
  BY <1>1, <1>2, <1>3, <1>4, <1>5, <1>7, TargetBounds
<1>11. n = m
  BY <1>2, <1>10
<1>12. \A s \in U : b[s] \in Nat /\ b[s] <= k[s]
  BY <1>1, <1>2, <1>3, <1>4, <1>6, BaseBounds
<1>13. (SumOver(k, U) <= cap => b = k) /\ SumOver(k, U) \in Nat
  BY <1>1, <1>2, <1>3, <1>4, <1>6, BaseBounds
<1>14. /\ DOMAIN k = U
       /\ \A s \in U :
            /\ PriorWeight(portfolio, s) \in Nat
            /\ k[s] \in Nat /\ k[s] <= PriorWeight(portfolio, s)
            /\ k[s] # 0 => k[s] = PriorWeight(portfolio, s)
  BY <1>1, <1>6, KeptBounds
<1>15. SumWeights(k) = SumOver(k, U)
  BY <1>14, SumWeightsIs
<1>16. cap \in Nat
  <2>1. PICK o : o = pool.outcome
    OBVIOUS
  <2>2. o.final \in Regimes /\ o.raw.budget \in Percent
    BY <2>1 DEF DecisionSound
  <2>3. ExposureCap(o) \in Nat
    BY <2>2, CapNat
  <2> QED
    BY <1>3, <2>1, <2>3
<1>17. PICK red : red = Reduced(pool, portfolio, t)
  OBVIOUS
<1>18. \A s \in U : s \in red <=> /\ t[s] < PriorWeight(portfolio, s)
                                  /\ k[s] = 0 \/ SumOver(k, U) > cap
  BY <1>3, <1>6, <1>10, <1>15, <1>17 DEF Reduced
<1>19. \A s \in U : x[s] \in Nat /\ y[s] \in Nat
  <2> SUFFICES ASSUME NEW s \in U PROVE x[s] \in Nat /\ y[s] \in Nat
    OBVIOUS
  <2>1. t[s] \in Int /\ b[s] \in Int /\ PriorWeight(portfolio, s) \in Int
    BY <1>10, <1>12, <1>14
  <2> QED
    BY <1>7, <1>8, <2>1, DistanceNat
<1>20. ASSUME NEW s \in U \ red PROVE y[s] <= x[s]
  <2>1. PICK ts \in Int, bs \in Nat, ks \in Nat, ps \in Nat :
          ts = t[s] /\ bs = b[s] /\ ks = k[s] /\ ps = PriorWeight(portfolio, s)
    BY <1>10, <1>12, <1>14
  <2>2. bs <= ks /\ ks <= ps /\ (ks # 0 => ks = ps)
    BY <1>12, <1>14, <2>1
  <2>3. x[s] = Distance(ts, bs) /\ y[s] = Distance(ts, ps)
    BY <1>7, <1>8, <2>1
  <2>4. ~(ts < ps /\ (ks = 0 \/ SumOver(k, U) > cap))
    BY <1>18, <2>1
  <2>5. CASE ts >= ps
    BY <2>2, <2>3, <2>5 DEF Distance
  <2>6. CASE ts < ps
    <3>1. ks = ps /\ SumOver(k, U) <= cap
      BY <1>13, <1>16, <2>2, <2>4, <2>6
    <3>2. bs = ks
      BY <1>13, <2>1, <3>1
    <3> QED
      BY <2>3, <3>1, <3>2, <1>19
  <2> QED
    BY <2>5, <2>6
<1>21. PICK Q : Q = U \ red
  OBVIOUS
<1>22. S \subseteq Q /\ Q \subseteq U /\ IsFiniteSet(Q) /\ IsFiniteSet(S)
  BY <1>9, <1>10, <1>17, <1>21, FS_Subset
<1>23. Turnover(portfolio, t, S) = SumOver(y, S) /\ Turnover(portfolio, t, Q) = SumOver(y, Q)
  <2>1. \A s \in S : y[s] = Distance(t[s], PriorWeight(portfolio, s))
    BY <1>8, <1>22
  <2>2. \A s \in Q : y[s] = Distance(t[s], PriorWeight(portfolio, s))
    BY <1>8, <1>22
  <2> QED
    BY <1>22, <2>1, <2>2, TurnoverIs
<1>24. Moved(pool, portfolio, t) = Turnover(portfolio, t, Q)
  BY <1>10, <1>17, <1>21 DEF Moved
<1>25. SumOver(y, S) <= SumOver(y, Q) /\ SumOver(y, S) \in Nat /\ SumOver(y, Q) \in Nat
  <2>1. \A s \in Q : y[s] \in Nat
    BY <1>19, <1>22
  <2> QED
    BY <1>22, <2>1, SumPart
<1>26. SumOver(y, Q) <= SumOver(x, Q)
  <2>1. \A s \in Q : y[s] \in Int /\ x[s] \in Int /\ y[s] <= x[s]
    BY <1>19, <1>20, <1>21
  <2> QED
    BY <1>22, <2>1, SumBelow
<1>27. SumOver(x, Q) <= SumOver(x, U) /\ SumOver(x, Q) \in Nat /\ SumOver(x, U) \in Nat
  BY <1>9, <1>19, <1>22, SumPart
<1>28. PICK mt \in Nat : mt = StrategyPolicy.maximum_turnover
  BY PolicyNats
<1>29. 2 * SumOver(y, S) <= 2 * mt + m
  BY <1>9, <1>10, <1>25, <1>26, <1>27, <1>28
<1> QED
  BY <1>11, <1>23, <1>24, <1>25, <1>28, <1>29

(* A target that is not accepted misses its limits by rounding only.       *)
LEMMA FailureRounds ==
  ASSUME DecisionSound, NEW t, t = Target(session, pool, portfolio),
         ~AcceptedTarget(pool, portfolio, t)
  PROVE  Rounding
<1>1. PICK U : U = Universe(pool, portfolio)
  OBVIOUS
<1>2. PICK n : n = Cardinality(U)
  OBVIOUS
<1>3. PICK cap : cap = ExposureCap(pool.outcome)
  OBVIOUS
<1>4. PICK b : b = Base(pool, portfolio)
  OBVIOUS
<1>5. PICK d : d = Desired(pool, portfolio)
  OBVIOUS
<1>6. PICK k : k = Kept(pool, portfolio)
  OBVIOUS
<1> DEFINE x == [s \in U |-> Distance(t[s], b[s])]
<1>7. \A s \in U : x[s] = Distance(t[s], b[s])
  OBVIOUS
<1> HIDE DEF x
<1>8. IsFiniteSet(U) /\ n \in Nat
  BY <1>1, <1>2, UniverseSound DEF DecisionSound
<1>9. /\ DOMAIN t = U
      /\ \A s \in U : /\ t[s] \in Int
                      /\ b[s] <= d[s] => b[s] <= t[s] /\ t[s] <= d[s]
                      /\ d[s] <= b[s] => d[s] <= t[s] /\ t[s] <= b[s]
      /\ 2 * SumOver(t, U) <= 2 * cap + 2 * n
  BY <1>1, <1>2, <1>3, <1>4, <1>5, <1>7, TargetBounds
<1>10. /\ DOMAIN d = U
       /\ \A s \in U : d[s] \in Int /\ -n <= d[s] /\ d[s] <= WeightUnit
  BY <1>1, <1>2, <1>3, <1>5, DesiredBounds
<1>11. \A s \in U : b[s] \in Nat /\ b[s] <= k[s]
  BY <1>1, <1>2, <1>3, <1>4, <1>6, BaseBounds
<1>12. /\ DOMAIN k = U
       /\ \A s \in U :
            /\ PriorWeight(portfolio, s) \in Nat /\ PriorWeight(portfolio, s) <= WeightUnit
            /\ k[s] \in Nat /\ k[s] <= PriorWeight(portfolio, s)
            /\ k[s] = 0 => PriorWeight(portfolio, s) = 0 \/ s \in Forced(pool, portfolio)
  BY <1>1, <1>6, KeptBounds
<1>13. cap \in Nat
  <2>1. PICK o : o = pool.outcome
    OBVIOUS
  <2>2. o.final \in Regimes /\ o.raw.budget \in Percent
    BY <2>1 DEF DecisionSound
  <2>3. ExposureCap(o) \in Nat
    BY <2>2, CapNat
  <2> QED
    BY <1>3, <2>1, <2>3
<1>14. PICK sum \in Int : sum = SumOver(t, U) /\ sum = SumWeights(t)
  BY <1>8, <1>9, SumType, SumWeightsIs
<1>15. sum <= cap + n
  BY <1>8, <1>9, <1>13, <1>14
<1>16. PICK moved \in Nat : moved = Moved(pool, portfolio, t)
                            /\ moved <= StrategyPolicy.maximum_turnover + n
  <2>1. PICK S : S = DOMAIN t \ Reduced(pool, portfolio, t)
    OBVIOUS
  <2>2. S \subseteq DOMAIN t \ Reduced(pool, portfolio, t) /\ n = Cardinality(DOMAIN t)
    BY <1>2, <1>9, <2>1
  <2>3. /\ Turnover(portfolio, t, S) \in Nat
        /\ 2 * Turnover(portfolio, t, S) <= 2 * StrategyPolicy.maximum_turnover + n
    BY <2>2, MovedBounds
  <2>4. Moved(pool, portfolio, t) = Turnover(portfolio, t, S)
    BY <2>1 DEF Moved
  <2> QED
    BY <1>8, <2>3, <2>4, PolicyNats
<1>17. \/ sum > cap
       \/ moved > StrategyPolicy.maximum_turnover
       \/ \E s \in DOMAIN d : d[s] < 0
  <2> SUFFICES ASSUME sum <= cap, moved <= StrategyPolicy.maximum_turnover,
                      \A s \in U : ~(d[s] < 0)
               PROVE  FALSE
    BY <1>10, <1>13, <1>14, PolicyNats
  <2>1. ASSUME NEW s \in U
        PROVE  d[s] \in 0 .. WeightUnit /\ t[s] \in 0 .. WeightUnit
    <3>1. PICK ds \in Int, bs \in Nat, ts \in Int : ds = d[s] /\ bs = b[s] /\ ts = t[s]
      BY <1>9, <1>10, <1>11
    <3>2. ds >= 0 /\ ds <= WeightUnit
      BY <1>10, <3>1
    <3>3. bs <= WeightUnit
      BY <1>11, <1>12, <3>1, PolicyNats
    <3>4. (bs <= ds => bs <= ts /\ ts <= ds) /\ (ds <= bs => ds <= ts /\ ts <= bs)
      BY <1>9, <3>1
    <3> QED
      BY <3>1, <3>2, <3>3, <3>4, PolicyNats
  <2>2. LongOnly(d) /\ LongOnly(t)
    BY <1>9, <1>10, <2>1 DEF LongOnly
  <2>3. PICK ex : ex = Exempt(pool, portfolio, t)
    OBVIOUS
  <2>4. PICK forced : forced = Forced(pool, portfolio)
    OBVIOUS
  <2>5. ex = forced \cup {s \in U : /\ SumWeights(k) > cap /\ k[s] > 0
                                    /\ t[s] < PriorWeight(portfolio, s)}
    BY <1>3, <1>6, <1>9, <2>3, <2>4 DEF Exempt, Scaled
  <2>6. PICK red : red = Reduced(pool, portfolio, t)
    OBVIOUS
  <2>7. red = {s \in U : /\ t[s] < PriorWeight(portfolio, s)
                         /\ k[s] = 0 \/ SumWeights(k) > cap}
    BY <1>3, <1>6, <1>9, <2>6 DEF Reduced
  <2>8. ASSUME NEW s \in red PROVE s \in ex
    <3>1. /\ s \in U /\ t[s] < PriorWeight(portfolio, s)
          /\ k[s] = 0 \/ SumWeights(k) > cap
      BY <2>7
    <3>2. t[s] \in Nat
      BY <2>1, <3>1, PolicyNats
    <3>3. PriorWeight(portfolio, s) # 0
      BY <3>1, <3>2
    <3>4. CASE k[s] = 0
      BY <1>12, <2>4, <2>5, <3>1, <3>3, <3>4
    <3>5. CASE k[s] # 0
      <4>1. k[s] > 0
        BY <1>12, <3>1, <3>5
      <4> QED
        BY <2>5, <3>1, <3>5, <4>1
    <3> QED
      BY <3>4, <3>5
  <2>9. PICK S : S = DOMAIN t \ ex
    OBVIOUS
  <2>10. S \subseteq DOMAIN t \ Reduced(pool, portfolio, t)
    BY <2>6, <2>8, <2>9
  <2>11. /\ Turnover(portfolio, t, S) \in Nat
         /\ Turnover(portfolio, t, S) <= Moved(pool, portfolio, t)
    BY <2>10, MovedBounds
  <2>12. Discretionary(pool, portfolio, t) = Turnover(portfolio, t, S)
    BY <2>3, <2>9 DEF Discretionary
  <2>13. Discretionary(pool, portfolio, t) <= StrategyPolicy.maximum_turnover
    BY <1>16, <2>11, <2>12, PolicyNats
  <2>14. SumWeights(t) <= ExposureCap(pool.outcome)
    BY <1>3, <1>14
  <2> QED
    BY <1>5, <2>2, <2>13, <2>14 DEF AcceptedTarget
<1>18. RoundsUp(pool, portfolio, t, d)
  <2>1. Cardinality(DOMAIN t) = n
    BY <1>2, <1>9
  <2>2. \A s \in DOMAIN d : d[s] >= -n
    BY <1>8, <1>10
  <2> QED
    BY <1>3, <1>14, <1>15, <1>16, <1>17, <2>1, <2>2 DEF RoundsUp
<1> QED
  BY <1>5, <1>18 DEF Rounding, Rounds

(* A decision that fails fails by rounding.                                *)
LEMMA DecideRounds ==
  ASSUME PipelineInv, PortfolioInv, DecidePortfolio
  PROVE  FailuresAreRounding'
<1>1. /\ PipelineInv' /\ pool # Missing
      /\ UNCHANGED << session, regimes, mainlines, outcome, mainline, features, pool,
                      streak, leading >>
  BY DecideKeeps
<1>2. PICK t : t = Target(session, pool, portfolio)
  OBVIOUS
<1>3. answer' = Failed => portfolio' = portfolio /\ ~AcceptedTarget(pool, portfolio, t)
  BY <1>2, DecisionIs
<1>4. DecisionSound
  BY <1>1, SessionSound
<1>5. answer' = Failed => Rounding
  BY <1>2, <1>3, <1>4, FailureRounds
<1>6. answer' = Failed => Rounding'
  <2>1. answer' = Failed => Rounds(session', pool', portfolio')
    BY <1>1, <1>3, <1>5 DEF Rounding
  <2> QED
    BY <2>1 DEF Rounding
<1>7. (answer = Failed => Rounding)'
  BY <1>6 DEF Failed
<1> QED
  BY <1>7, RoundingIs, PTL

-----------------------------------------------------------------------------
(* The theorems.                                                           *)

(* The inductive invariant.                                                *)
ResearchInv ==
  /\ PipelineInv /\ StreakInv /\ PortfolioInv /\ HistoryHolds(mainlines, leading)
  /\ HoldingsFollowLeadership /\ FailuresAreRounding

(* A session without an answer has no decision and no failure.             *)
LEMMA NothingDecided ==
  answer = Missing => HoldingsFollowLeadership /\ FailuresAreRounding
<1>1. answer = Missing => ~Decided /\ answer # Failed
  BY MainlineLeaderAssumption DEF Decided
<1> QED
  BY <1>1 DEF HoldingsFollowLeadership, FailuresAreRounding

(* Nor has one that loses its answer.                                      *)
LEMMA NothingDecidedNext ==
  ASSUME answer' = Missing
  PROVE  HoldingsFollowLeadership' /\ FailuresAreRounding'
<1>1. (answer = Missing)'
  OBVIOUS
<1> QED
  BY <1>1, NothingDecided, PTL

(* The invariant holds before the first session.                           *)
LEMMA InitResearch == ResearchInit => ResearchInv
<1>1. ResearchInit => answer = Missing
  BY DEF ResearchInit
<1> QED
  BY <1>1, InitPipeline, NothingDecided DEF ResearchInv

(* A step that only drops the answer keeps the invariant.                  *)
LEMMA QuietKeeps ==
  ASSUME ResearchInv, PipelineInv', answer' = Missing,
         UNCHANGED << regimes, portfolio, mainlines, streak, leading >>
  PROVE  ResearchInv'
<1>1. HoldingsFollowLeadership' /\ FailuresAreRounding'
  BY NothingDecidedNext
<1>2. StreakInv' /\ PortfolioInv'
  BY DEF ResearchInv, StreakInv, PortfolioInv
<1>3. HistoryHolds(mainlines, leading)'
  BY DEF ResearchInv
<1> QED
  BY <1>1, <1>2, <1>3 DEF ResearchInv

(* Every step keeps the invariant.                                         *)
LEMMA ResearchKept == ResearchInv /\ [ResearchNext]_researchVars => ResearchInv'
<1> SUFFICES ASSUME ResearchInv, [ResearchNext]_researchVars PROVE ResearchInv'
  OBVIOUS
<1>1. PipelineInv /\ StreakInv /\ PortfolioInv /\ HistoryHolds(mainlines, leading)
  BY DEF ResearchInv
<1>2. ASSUME NEW market \in Markets, ClassifyMarket(market) PROVE ResearchInv'
  <2>1. PipelineInv' /\ StreakInv' /\ answer' = Missing /\ UNCHANGED << portfolio, mainlines, leading >>
    BY <1>1, <1>2, ClassifyKeeps
  <2>2. HoldingsFollowLeadership' /\ FailuresAreRounding'
    BY <2>1, NothingDecidedNext
  <2>3. PortfolioInv'
    BY <1>1, <2>1 DEF PortfolioInv
  <2>4. HistoryHolds(mainlines, leading)'
    BY <1>1, <2>1
  <2> QED
    BY <2>1, <2>2, <2>3, <2>4 DEF ResearchInv
<1>3. ASSUME NEW rows \in IndustryTables, UpdateMainlines(rows) PROVE ResearchInv'
  <2>1. /\ PipelineInv' /\ HistoryHolds(mainlines', leading')
        /\ answer' = Missing /\ UNCHANGED << regimes, outcome, portfolio, streak >>
    BY <1>1, <1>3, UpdateKeeps
  <2>2. HoldingsFollowLeadership' /\ FailuresAreRounding'
    BY <2>1, NothingDecidedNext
  <2>3. StreakInv' /\ PortfolioInv'
    BY <1>1, <2>1 DEF StreakInv, PortfolioInv
  <2> QED
    BY <2>1, <2>2, <2>3 DEF ResearchInv
<1>4. ASSUME NEW stocks \in CrossSections, RankStocks(stocks) PROVE ResearchInv'
  BY <1>1, <1>4, RankKeeps, QuietKeeps
<1>5. CASE DecidePortfolio
  <2>1. /\ PipelineInv'
        /\ UNCHANGED << session, regimes, mainlines, outcome, mainline, features, pool,
                        streak, leading >>
    BY <1>1, <1>5, DecideKeeps
  <2>2. PortfolioInv' /\ HoldingsFollowLeadership'
    BY <1>1, <1>5, DecideHolds
  <2>3. FailuresAreRounding'
    BY <1>1, <1>5, DecideRounds
  <2>4. StreakInv'
    BY <1>1, <2>1 DEF StreakInv
  <2>5. HistoryHolds(mainlines, leading)'
    BY <1>1, <2>1
  <2> QED
    BY <2>1, <2>2, <2>3, <2>4, <2>5 DEF ResearchInv
<1>6. CASE NextSession
  BY <1>1, <1>6, SessionKeeps, QuietKeeps
<1>7. CASE UNCHANGED researchVars
  <2>1. PipelineInv' /\ StreakInv' /\ PortfolioInv'
    BY <1>1, <1>7, StutterKeeps
  <2>2. HistoryHolds(mainlines, leading)'
    BY <1>1, <1>7 DEF researchVars, engines
  <2>3. (Decided => Following)' /\ (answer = Failed => Rounding)'
    <3>1. (Decided => Following) /\ (answer = Failed => Rounding)
      BY FollowingIs, RoundingIs DEF ResearchInv
    <3>2. /\ answer' = answer /\ portfolio' = portfolio /\ features' = features
          /\ mainlines' = mainlines /\ regimes' = regimes /\ session' = session /\ pool' = pool
      BY <1>7 DEF researchVars, engines
    <3>3. (Decided' <=> Decided) /\ (Following' <=> Following) /\ (Rounding' <=> Rounding)
      BY <3>2 DEF Decided, Following, Rounding
    <3> QED
      BY <3>1, <3>2, <3>3
  <2>4. HoldingsFollowLeadership' /\ FailuresAreRounding'
    BY <2>3, FollowingIs, RoundingIs, PTL
  <2> QED
    BY <2>1, <2>2, <2>4 DEF ResearchInv
<1> QED
  BY <1>2, <1>3, <1>4, <1>5, <1>6, <1>7 DEF ResearchNext

(* The inductive invariant of the research pipeline: what belongs to one   *)
(* session belongs together, and the engines' memories are the history of  *)
(* what the sessions showed.                                               *)
THEOREM ResearchStaysSound == ResearchSpec => []ResearchInv
<1>1. ResearchInit => ResearchInv
  BY InitResearch
<1>2. ResearchInv /\ [ResearchNext]_researchVars => ResearchInv'
  BY ResearchKept
<1> QED
  BY <1>1, <1>2, PTL DEF ResearchSpec

(* MainlineEngine.process: a confirmed industry has the hits that confirm  *)
(* it, and one absent too long is no longer tracked.                       *)
THEOREM LeadersAlwaysFollow == ResearchSpec => []LeadersFollowTheirHistory
<1>1. ResearchInv => LeadersFollowTheirHistory
  BY HistoryTells DEF ResearchInv
<1> QED
  BY <1>1, ResearchStaysSound, PTL

(* MainlineLeaderStrategy.decide: after a decision everything held may be  *)
(* traded, leads an active industry, and stays within the exposure.        *)
THEOREM HoldingsAlwaysFollow == ResearchSpec => []HoldingsFollowLeadership
<1>1. ResearchInv => HoldingsFollowLeadership
  BY DEF ResearchInv
<1> QED
  BY <1>1, ResearchStaysSound, PTL

(* MainlineLeaderStrategy.decide fails its own result only by rounding.    *)
THEOREM FailuresAreAlwaysRounding == ResearchSpec => []FailuresAreRounding
<1>1. ResearchInv => FailuresAreRounding
  BY DEF ResearchInv
<1> QED
  BY <1>1, ResearchStaysSound, PTL

(* RegimeTransitionEngine.process: the effective state changes exactly     *)
(* when enough confident sessions in a row named the new one.              *)
THEOREM ChangesAreAlwaysConfirmed == ResearchSpec => ChangesAreConfirmed
<1>1. ResearchInv /\ [ResearchNext]_researchVars =>
        [regimes' # regimes /\ regimes.current # Missing
           => regimes'.current =
                IF streak'.length >= RequiredSessions(outcome'.raw)
                THEN streak'.regime ELSE regimes.current]_researchVars
  <2> SUFFICES ASSUME ResearchInv, [ResearchNext]_researchVars, regimes' # regimes, regimes.current # Missing
               PROVE  regimes'.current =
                        IF streak'.length >= RequiredSessions(outcome'.raw)
                        THEN streak'.regime ELSE regimes.current
    OBVIOUS
  <2>1. PipelineInv /\ StreakInv
    BY DEF ResearchInv
  <2>2. PICK market \in Markets : ClassifyMarket(market)
    BY DEF ResearchNext, UpdateMainlines, RankStocks, DecidePortfolio, NextSession, researchVars, engines
  <2> QED
    BY <2>1, <2>2, ClassifyKeeps
<1> QED
  BY <1>1, ResearchStaysSound, PTL DEF ResearchSpec, ChangesAreConfirmed
=============================================================================
