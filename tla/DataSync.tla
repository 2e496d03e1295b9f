------------------------------- MODULE DataSync -------------------------------
(***************************************************************************)
(* Incremental synchronisation of one dataset scope (data/sync): runner    *)
(* instances share a leased checkpoint, the runs and their pages in the    *)
(* database, and call the provider between transactions.  Each action is   *)
(* one transaction, or one provider or decoder call, of                    *)
(* IncrementalSyncRunner.run.  A revision is read and compared inside the  *)
(* same transaction, so a lost compare-and-swap is a TransactionFails.     *)
(*                                                                         *)
(* A watermark is the number of the last finished partition; a cursor is   *)
(* the number of a page within its partition, 0 for the first.             *)
(***************************************************************************)
EXTENDS Integers, FiniteSets

CONSTANTS
  Worker,         \* runner instances; a restarted process is another one
  Run,            \* runs, named by the idempotency key each belongs to
  Request,        \* the calls callers make: a run and its target watermark
  LastPartition,  \* the partitions of the dataset are 1 .. LastPartition
  PageCount,      \* partition -> number of its pages
  Payload,        \* what the provider may answer for one page
  MaxFailures,    \* bound on failed provider, decoder, ingest and database work
  MaxCrashes,     \* bound on runner instances that die
  MaxLateLeases,  \* bound on leases that expire under a working holder
  None

Partition == 1..LastPartition
Position == UNION {{p} \X (0..(PageCount[p] - 1)) : p \in Partition}

ASSUME DataSyncAssumption ==
  /\ LastPartition \in Nat
  /\ PageCount \in [Partition -> Nat \ {0}]
  /\ Request \subseteq [run : Run, target : Partition]
  /\ MaxFailures \in Nat /\ MaxCrashes \in Nat /\ MaxLateLeases \in Nat
  /\ None \notin Worker \cup Run \cup Payload

VARIABLES
  checkpoint,  \* DataSyncCheckpointRow of the scope
  runs,        \* run -> DataSyncRunRow
  pages,       \* run -> position -> DataSyncPageRow
  archive,     \* raw payloads stored, by position
  curated,     \* position -> how often, and from what, it was ingested
  worker,      \* runner instance -> what it holds in memory
  spent        \* how much of each bound has been used

vars == <<checkpoint, runs, pages, archive, curated, worker, spent>>

Checkpoint ==
  [watermark : 0..LastPartition, active : 0..LastPartition, cursor : Nat,
   owner : Worker \cup {None}, expired : BOOLEAN,
   progressRun : Run \cup {None}, lastSuccess : Run \cup {None}]

RunRow ==
  [state : {"NONE", "RUNNING", "SUCCEEDED", "FAILED"},
   target : 0..LastPartition, before : 0..LastPartition]

(* PLANNED, DECODED and RETRY_WAIT are never committed: the transactions   *)
(* that pass through them go on to FETCHING, to COMMITTED, or not there.   *)
PageRow ==
  [state : {"NONE", "FETCHING", "FETCHED", "FAILED", "COMMITTED"},
   payload : Payload \cup {None}]

InLoop == {"load", "prepare", "fetch", "fetchFailed", "archive", "decode", "commit"}

WorkerState ==
  [pc : {"idle", "setup", "start", "finish", "failed", "dead"} \cup InLoop,
   run : Run \cup {None}, target : 0..LastPartition,
   partition : 0..(LastPartition + 1), cursor : Nat,
   payload : Payload \cup {None}, sawLive : BOOLEAN]

Blank(pc) ==
  [pc |-> pc, run |-> None, target |-> 0, partition |-> 0, cursor |-> 0,
   payload |-> None, sawLive |-> FALSE]
Idle == Blank("idle")

Init ==
  /\ checkpoint = [watermark |-> 0, active |-> 0, cursor |-> 0, owner |-> None,
                   expired |-> FALSE, progressRun |-> None, lastSuccess |-> None]
  /\ runs = [r \in Run |-> [state |-> "NONE", target |-> 0, before |-> 0]]
  /\ pages = [r \in Run |-> [pos \in Position |-> [state |-> "NONE", payload |-> None]]]
  /\ archive = {}
  /\ curated = [pos \in Position |-> [times |-> 0, payload |-> None]]
  /\ worker = [w \in Worker |-> Idle]
  /\ spent = [failures |-> 0, crashes |-> 0, late |-> 0]

At(w, pc) == worker[w].pc = pc
Here(w) == <<worker[w].partition, worker[w].cursor>>
PageOf(w) == pages[worker[w].run][Here(w)]
IsFinal(pos) == pos[2] = PageCount[pos[1]] - 1

Goto(w, pc) == worker' = [worker EXCEPT ![w].pc = pc]
SetPage(w, page) == pages' = [pages EXCEPT ![worker[w].run][Here(w)] = page]

-----------------------------------------------------------------------------
(* Mutant: an expired lease is never taken over.                           *)
MutantNeverTakesOver(w) == checkpoint.owner \in {None, w}

(* A lease can be acquired when nobody holds it, when this instance holds  *)
(* it, or when the clock read before the transaction is past its expiry.   *)
LeaseFree(w) ==
  \/ checkpoint.owner \in {None, w}
  \/ checkpoint.expired /\ ~worker[w].sawLive

(* Mutant: a failed run resumes whatever other runs have done since.       *)
MutantResumesAnyway(r) == TRUE

(* A failed run resumes only if no other run has moved the checkpoint      *)
(* since; a run left RUNNING is not asked.                                 *)
MayResume(r) ==
  \/ runs[r].state # "FAILED"
  \/ checkpoint.progressRun \in {None, r}
  \/ checkpoint.active = 0 /\ checkpoint.watermark = runs[r].before

Released == [checkpoint EXCEPT !.owner = None, !.expired = FALSE]

(* run() first looks for a completed run of its key, and answers from it;  *)
(* otherwise it reads the clock and opens the set-up transaction.          *)
Begin(w, request) ==
  /\ At(w, "idle")
  /\ runs[request.run].state # "SUCCEEDED"
  /\ worker' = [worker EXCEPT ![w] =
       [pc |-> "setup", run |-> request.run, target |-> request.target,
        partition |-> 0, cursor |-> 0, payload |-> None,
        sawLive |-> checkpoint.owner # None /\ ~checkpoint.expired]]
  /\ UNCHANGED <<checkpoint, runs, pages, archive, curated, spent>>

SpecificationFits(w) ==
  LET row == runs[worker[w].run] IN
  row.state = "NONE" \/ row.target = worker[w].target

(* The set-up transaction raises and rolls back: the lease is held, the    *)
(* key belongs to another request, or the failed run may not resume.       *)
SetupRefused(w) ==
  /\ At(w, "setup")
  /\ ~(LeaseFree(w) /\ SpecificationFits(w) /\ MayResume(worker[w].run))
  /\ worker' = [worker EXCEPT ![w] = Idle]
  /\ UNCHANGED <<checkpoint, runs, pages, archive, curated, spent>>

(* Another instance completed the run since Begin: answer from it.         *)
SetupFindsSuccess(w) ==
  /\ At(w, "setup")
  /\ LeaseFree(w) /\ SpecificationFits(w)
  /\ runs[worker[w].run].state = "SUCCEEDED"
  /\ checkpoint' = [Released EXCEPT !.lastSuccess = worker[w].run]
  /\ worker' = [worker EXCEPT ![w] = Idle]
  /\ UNCHANGED <<runs, pages, archive, curated, spent>>

Planned(w) ==
  IF checkpoint.watermark > worker[w].target THEN "failed"
  ELSE IF checkpoint.watermark = worker[w].target THEN "finish"
  ELSE "start"

(* The lease is taken, the run created or resumed, and the partitions      *)
(* planned from the committed watermark; a target behind it is refused.    *)
Setup(w) ==
  /\ At(w, "setup")
  /\ LeaseFree(w) /\ SpecificationFits(w) /\ MayResume(worker[w].run)
  /\ runs[worker[w].run].state # "SUCCEEDED"
  /\ checkpoint' = [checkpoint EXCEPT !.owner = w, !.expired = FALSE]
  /\ runs' = [runs EXCEPT ![worker[w].run] =
       [state |-> "RUNNING", target |-> worker[w].target,
        before |-> IF @.state = "NONE" THEN checkpoint.watermark ELSE @.before]]
  /\ worker' = [worker EXCEPT ![w].partition = checkpoint.watermark + 1,
                               ![w].pc = Planned(w)]
  /\ UNCHANGED <<pages, archive, curated, spent>>

(* A partition starts at the checkpoint's resume cursor when it is the     *)
(* active one, and at its first page when none is active.                  *)
StartPartition(w) ==
  /\ At(w, "start")
  /\ worker' =
       IF checkpoint.active \in {0, worker[w].partition}
         THEN [worker EXCEPT ![w].cursor = checkpoint.cursor, ![w].pc = "load"]
         ELSE [worker EXCEPT ![w].pc = "failed"]
  /\ UNCHANGED <<checkpoint, runs, pages, archive, curated, spent>>

(* A page this run already archived is decoded again without the provider. *)
LoadArchived(w) ==
  /\ At(w, "load")
  /\ worker' =
       IF PageOf(w).state = "FETCHED"
         THEN [worker EXCEPT ![w].payload = PageOf(w).payload, ![w].pc = "decode"]
         ELSE [worker EXCEPT ![w].pc = "prepare"]
  /\ UNCHANGED <<checkpoint, runs, pages, archive, curated, spent>>

(* The page goes to FETCHING, through FAILED when an earlier attempt was   *)
(* left in FETCHING: nothing here asks who holds the lease.                *)
PrepareFetch(w) ==
  /\ At(w, "prepare")
  /\ IF /\ runs[worker[w].run].state = "RUNNING"
        /\ PageOf(w).state \in {"NONE", "FETCHING", "FAILED"}
       THEN /\ SetPage(w, [PageOf(w) EXCEPT !.state = "FETCHING"])
            /\ Goto(w, "fetch")
       ELSE /\ Goto(w, "failed")
            /\ UNCHANGED pages
  /\ UNCHANGED <<checkpoint, runs, archive, curated, spent>>

Fail(w, pc) ==
  /\ spent.failures < MaxFailures
  /\ spent' = [spent EXCEPT !.failures = @ + 1]
  /\ Goto(w, pc)

(* The provider answers, or its call fails: no transaction is open.        *)
Fetch(w) ==
  /\ At(w, "fetch")
  /\ \E answer \in Payload :
       worker' = [worker EXCEPT ![w].payload = answer, ![w].pc = "archive"]
  /\ UNCHANGED <<checkpoint, runs, pages, archive, curated, spent>>

FetchFails(w) ==
  /\ At(w, "fetch")
  /\ Fail(w, "fetchFailed")
  /\ UNCHANGED <<checkpoint, runs, pages, archive, curated>>

(* Mutant: the failed fetch is recorded whatever became of the page.       *)
MutantFailsAnyPage(w) ==
  /\ At(w, "fetchFailed")
  /\ SetPage(w, [PageOf(w) EXCEPT !.state = "FAILED"])
  /\ Goto(w, "failed")
  /\ UNCHANGED <<checkpoint, runs, archive, curated, spent>>

(* The failure is recorded where the transition table allows it: FETCHING  *)
(* may fail, and so may a page another instance has archived since.        *)
RecordFetchFailure(w) ==
  /\ At(w, "fetchFailed")
  /\ IF PageOf(w).state \in {"FETCHING", "FETCHED"}
       THEN SetPage(w, [PageOf(w) EXCEPT !.state = "FAILED"])
       ELSE UNCHANGED pages
  /\ Goto(w, "failed")
  /\ UNCHANGED <<checkpoint, runs, archive, curated, spent>>

(* The raw payload is stored and the page is FETCHED, in one transaction.  *)
Archive(w) ==
  /\ At(w, "archive")
  /\ IF PageOf(w).state = "FETCHING"
       THEN /\ SetPage(w, [state |-> "FETCHED", payload |-> worker[w].payload])
            /\ archive' = archive \cup {<<Here(w), worker[w].payload>>}
            /\ Goto(w, "decode")
       ELSE Goto(w, "failed") /\ UNCHANGED <<pages, archive>>
  /\ UNCHANGED <<checkpoint, runs, curated, spent>>

(* The page is decoded, and the clock read for the ingest transaction: it  *)
(* may show a lease as live that expires before the transaction runs.      *)
Decode(w) ==
  /\ At(w, "decode")
  /\ worker' = [worker EXCEPT ![w].pc = "commit",
       ![w].sawLive = checkpoint.owner = w /\ ~checkpoint.expired]
  /\ UNCHANGED <<checkpoint, runs, pages, archive, curated, spent>>

(* A decode error is noted on the page, which stays FETCHED.               *)
DecodeFails(w) ==
  /\ At(w, "decode")
  /\ Fail(w, "failed")
  /\ UNCHANGED <<checkpoint, runs, pages, archive, curated>>

(* Mutant: the commit does not ask who holds the lease.                    *)
MutantAnyHolder(w) == PageOf(w).state = "FETCHED"

(* The ingest transaction holds if the page is still FETCHED and the lease *)
(* is this instance's and live by the clock it read.                       *)
CommitHolds(w) ==
  /\ PageOf(w).state = "FETCHED"
  /\ checkpoint.owner = w
  /\ ~checkpoint.expired \/ worker[w].sawLive

(* The checkpoint after the page in hand: past its partition after the     *)
(* last page, else active in it with the next page's cursor.               *)
Advanced(w) ==
  LET moved == [checkpoint EXCEPT !.progressRun = worker[w].run] IN
  IF IsFinal(Here(w))
    THEN [moved EXCEPT !.watermark = worker[w].partition, !.active = 0, !.cursor = 0]
    ELSE [moved EXCEPT !.active = worker[w].partition, !.cursor = worker[w].cursor + 1]

(* Where the page loop goes after a committed page.                        *)
NextPage(w) ==
  IF ~IsFinal(Here(w)) THEN [worker[w] EXCEPT !.cursor = @ + 1, !.pc = "load"]
  ELSE IF worker[w].partition < worker[w].target
    THEN [worker[w] EXCEPT !.partition = @ + 1, !.cursor = 0, !.pc = "start"]
  ELSE [worker[w] EXCEPT !.pc = "finish"]

(* Mutant: the curated records are stored before the lease is asked for.   *)
MutantIngestsFirst(w) ==
  /\ At(w, "commit")
  /\ curated' = [curated EXCEPT ![Here(w)] =
       [times |-> @.times + 1, payload |-> worker[w].payload]]
  /\ IF CommitHolds(w)
       THEN /\ SetPage(w, [PageOf(w) EXCEPT !.state = "COMMITTED"])
            /\ checkpoint' = Advanced(w)
            /\ worker' = [worker EXCEPT ![w] = NextPage(w)]
       ELSE Goto(w, "failed") /\ UNCHANGED <<pages, checkpoint>>
  /\ UNCHANGED <<runs, archive, spent>>

(* Curated records, page state and checkpoint commit together, or the      *)
(* whole transaction is rolled back and the page stays FETCHED.            *)
IngestAndCommit(w) ==
  /\ At(w, "commit")
  /\ IF CommitHolds(w)
       THEN /\ curated' = [curated EXCEPT ![Here(w)] =
                 [times |-> @.times + 1, payload |-> worker[w].payload]]
            /\ SetPage(w, [PageOf(w) EXCEPT !.state = "COMMITTED"])
            /\ checkpoint' = Advanced(w)
            /\ worker' = [worker EXCEPT ![w] = NextPage(w)]
       ELSE Goto(w, "failed") /\ UNCHANGED <<curated, pages, checkpoint>>
  /\ UNCHANGED <<runs, archive, spent>>

(* A run succeeds at its target, while it is RUNNING, under this lease.    *)
FinishHolds(w) ==
  /\ checkpoint.watermark = worker[w].target
  /\ runs[worker[w].run].state = "RUNNING"
  /\ checkpoint.owner = w

Finish(w) ==
  /\ At(w, "finish")
  /\ IF FinishHolds(w)
       THEN /\ runs' = [runs EXCEPT ![worker[w].run].state = "SUCCEEDED"]
            /\ checkpoint' = [Released EXCEPT !.lastSuccess = worker[w].run]
            /\ worker' = [worker EXCEPT ![w] = Idle]
       ELSE Goto(w, "failed") /\ UNCHANGED <<runs, checkpoint>>
  /\ UNCHANGED <<pages, archive, curated, spent>>

(* After an error the run is FAILED and the lease released, unless the     *)
(* lease has passed to another instance: then nothing is recorded.         *)
RecordFailure(w) ==
  /\ At(w, "failed")
  /\ worker' = [worker EXCEPT ![w] = Idle]
  /\ IF checkpoint.owner = w
       THEN /\ runs' = [runs EXCEPT ![worker[w].run].state =
                 IF @ = "RUNNING" THEN "FAILED" ELSE @]
            /\ checkpoint' = Released
       ELSE UNCHANGED <<runs, checkpoint>>
  /\ UNCHANGED <<pages, archive, curated, spent>>

(* Any transaction may fail and roll back, the one of RecordFailure too.   *)
TransactionFails(w) ==
  /\ worker[w].pc \in {"setup", "start", "load", "prepare", "fetchFailed", "archive",
                        "commit", "finish", "failed"}
  /\ spent.failures < MaxFailures
  /\ spent' = [spent EXCEPT !.failures = @ + 1]
  /\ worker' = IF worker[w].pc \in {"setup", "failed"} THEN [worker EXCEPT ![w] = Idle]
               ELSE [worker EXCEPT ![w].pc = "failed"]
  /\ UNCHANGED <<checkpoint, runs, pages, archive, curated>>

Crash(w) ==
  /\ worker[w].pc \notin {"idle", "dead"}
  /\ spent.crashes < MaxCrashes
  /\ spent' = [spent EXCEPT !.crashes = @ + 1]
  /\ worker' = [worker EXCEPT ![w] = Blank("dead")]
  /\ UNCHANGED <<checkpoint, runs, pages, archive, curated>>

(* The lease's time passes: lease_ttl is never renewed while a run works.  *)
Expire ==
  /\ checkpoint.owner # None /\ ~checkpoint.expired
  /\ IF worker[checkpoint.owner].pc \in {"idle", "dead"} THEN UNCHANGED spent
     ELSE /\ spent.late < MaxLateLeases
          /\ spent' = [spent EXCEPT !.late = @ + 1]
  /\ checkpoint' = [checkpoint EXCEPT !.expired = TRUE]
  /\ UNCHANGED <<runs, pages, archive, curated, worker>>

Work(w) ==
  \/ SetupRefused(w) \/ SetupFindsSuccess(w) \/ Setup(w)
  \/ StartPartition(w) \/ LoadArchived(w) \/ PrepareFetch(w)
  \/ Fetch(w) \/ FetchFails(w) \/ RecordFetchFailure(w)
  \/ Archive(w) \/ Decode(w) \/ DecodeFails(w)
  \/ IngestAndCommit(w) \/ Finish(w) \/ RecordFailure(w)

Next ==
  \/ \E w \in Worker : Work(w) \/ TransactionFails(w) \/ Crash(w)
  \/ \E w \in Worker, request \in Request : Begin(w, request)
  \/ Expire

Spec == Init /\ [][Next]_vars

(* A live process goes on with what it is doing; a lease nobody is working *)
(* under expires; callers repeat every call that did not complete, each of *)
(* them again and again whatever other calls an instance is given.         *)
Fairness ==
  /\ \A w \in Worker : WF_vars(Work(w))
  /\ \A request \in Request : SF_vars(\E w \in Worker : Begin(w, request))
  /\ WF_vars(Expire)

FairSpec == Spec /\ Fairness
-----------------------------------------------------------------------------
TypeOK ==
  /\ checkpoint \in Checkpoint
  /\ runs \in [Run -> RunRow]
  /\ pages \in [Run -> [Position -> PageRow]]
  /\ archive \subseteq (Position \X Payload)
  /\ curated \in [Position -> [times : Nat, payload : Payload \cup {None}]]
  /\ worker \in [Worker -> WorkerState]
  /\ spent \in [failures : 0..MaxFailures, crashes : 0..MaxCrashes, late : 0..MaxLateLeases]

(* The positions behind the checkpoint: those of finished partitions, and  *)
(* of the active one the pages before the resume cursor.                   *)
Behind(pos) ==
  \/ pos[1] <= checkpoint.watermark
  \/ pos[1] = checkpoint.active /\ pos[2] < checkpoint.cursor

(* No gap and no duplicate: the records of every page behind the           *)
(* checkpoint were ingested exactly once and those of no other page were,  *)
(* however many instances, takeovers, failures and late answers there were *)
(* (_ingest_and_commit, commit_page_and_checkpoint).                       *)
ProgressIsExact ==
  \A pos \in Position : curated[pos].times = IF Behind(pos) THEN 1 ELSE 0

(* Raw first: whatever was ingested, and whatever a page row says was      *)
(* fetched, is in the raw archive (_archive_page before _ingest_and_commit).*)
RawBeforeCurated ==
  /\ \A pos \in Position : curated[pos].times > 0 => <<pos, curated[pos].payload>> \in archive
  /\ \A r \in Run, pos \in Position :
       pages[r][pos].state \in {"FETCHED", "COMMITTED"} => <<pos, pages[r][pos].payload>> \in archive

(* A run reported SUCCEEDED has every record up to its target curated,     *)
(* whatever other runs did before or after it (_finish).                   *)
SucceededIsComplete ==
  \A r \in Run : runs[r].state = "SUCCEEDED" =>
    \A pos \in Position : pos[1] <= runs[r].target => curated[pos].times = 1

(* The lease fences: a live lease is given up only by its holder, and the  *)
(* progress, the running state of a run or the lease itself never change   *)
(* by the hand of an instance the lease has passed from                    *)
(* (acquire_checkpoint, commit_page_and_checkpoint, _record_failure).      *)
LeaseIsFenced ==
  [][\A w \in Worker :
       /\ checkpoint.owner = w /\ ~checkpoint.expired /\ checkpoint'.owner # w =>
            worker[w].pc # "idle" /\ worker'[w].pc = "idle"
       /\ worker'[w] # worker[w] /\ checkpoint.owner \notin {None, w} /\ ~checkpoint.expired =>
            UNCHANGED <<checkpoint, runs, curated>>]_vars

(* A watermark never goes back and a page once committed is never fetched  *)
(* or ingested again, across runs that resume, fail and overtake each      *)
(* other (_planned_partitions, _starting_cursor).                          *)
ProgressNeverReverses ==
  [][/\ checkpoint'.watermark >= checkpoint.watermark
     /\ \A pos \in Position : curated[pos].times > 0 => curated'[pos] = curated[pos]
     /\ \A r \in Run, pos \in Position :
          pages[r][pos].state = "COMMITTED" => pages'[r][pos] = pages[r][pos]]_vars

(* A failed run that another run has overtaken stays failed                *)
(* (test_failed_run_cannot_resume_after_a_new_run_advances_checkpoint).    *)
OvertakenStaysFailed ==
  [][\A r \in Run :
       (/\ runs[r].state = "FAILED"
        /\ checkpoint.progressRun \notin {None, r}
        /\ checkpoint.watermark > runs[r].before)
       => runs'[r].state = "FAILED"]_vars

(* However instances crash, lose their lease or meet errors, calls that    *)
(* are repeated bring every run to its target, unless another run has      *)
(* overtaken it and it may not resume.                                     *)
TargetIsReached ==
  <>(\A request \in Request :
       runs[request.run].state = "SUCCEEDED" \/ ~MayResume(request.run))
=============================================================================
