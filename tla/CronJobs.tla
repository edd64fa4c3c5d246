------------------------------ MODULE CronJobs -------------------------------
(***************************************************************************)
(* The cron jobs of hermes-cron: one JSON file that every process reads    *)
(* whole and replaces whole, the cron tool that edits it, and the          *)
(* scheduler ticks (of the gateway and of `hermes cron tick`) that run the *)
(* due jobs and write back when each is due next.                          *)
(*                                                                         *)
(* The file system is modelled as far as the store uses it: the live file, *)
(* the one temporary file all writers share, and the file each writer has  *)
(* open, which follows the file when it is renamed.  Every system call is  *)
(* a step.                                                                 *)
(***************************************************************************)
EXTENDS Naturals, FiniteSets

CONSTANTS Clients,     \* callers of the cron tool
          Tickers,     \* processes that tick the scheduler
          Jobs,
          Once,        \* the jobs with a Once schedule
          Interval,    \* those with an Interval schedule; the others are Cron
          Preloaded,   \* the jobs in the file when the history begins
          RunAt,       \* the time of the Once jobs
          Period,      \* of the other jobs
          MaxTime, MaxOps, MaxRuns,     \* bounds
          MaxFaults,   \* bound: processes that die, output files not written
          NoJob, Empty, Torn, Absent,   \* file contents that are not job lists
          Never, Nobody,
          Atomic       \* no tool call overlaps another access to the file

ASSUME CronAssumption ==
  /\ Once \subseteq Jobs /\ Interval \subseteq Jobs \ Once /\ Preloaded \subseteq Jobs
  /\ Clients \cap Tickers = {} /\ Nobody \notin Tickers
  /\ RunAt \in Nat /\ Period \in Nat \ {0} /\ Never \notin Nat
  /\ MaxTime \in Nat /\ MaxOps \in Nat /\ MaxRuns \in Nat
  /\ MaxFaults \in Nat /\ Atomic \in BOOLEAN

VARIABLES live,    \* jobs.json
          tmp,     \* jobs.json.tmp
          fd,      \* where the file lies that a process has open for writing
          proc,    \* what a process does
          lock,    \* the holder of .tick.lock
          clock,
          ops,     \* tool calls so far
          told,    \* the last edit of a job that the tool acknowledged
          asked,   \* how often a job was triggered
          ran,     \* how often a job was started, up to MaxRuns
          faults   \* how many faults there were
files == <<live, tmp, fd>>
ghosts == <<ops, told, asked, ran, faults>>
vars == <<files, proc, lock, clock, ghosts>>

Procs == Clients \cup Tickers
Times == 0..(MaxTime + Period) \cup {RunAt}
Job == [enabled : BOOLEAN, next : Times \cup {Never}, created : Times]
Lists == [Jobs -> Job \cup {NoJob}]
Readable(f) == f \notin {Empty, Torn, Absent}

\* What is not a list of jobs is told from one that is.
ASSUME ContentAssumption ==
  NoJob \notin Job /\ Empty \notin Lists /\ Torn \notin Lists /\ Absent \notin Lists

Edits == {"create", "remove", "pause", "resume", "trigger"}
Idle == [pc |-> "idle", op |-> "none", job |-> NoJob, rec |-> NoJob, buf |-> Absent, todo |-> {}]
At(p, pc) == proc[p].pc = pc
Goto(p, pc) == proc' = [proc EXCEPT ![p].pc = pc]
Fault == faults < MaxFaults /\ faults' = faults + 1
Stop(p) == proc' = [proc EXCEPT ![p] = Idle]

\* A process is between two accesses to the file that belong together.
InStore(q) == \/ proc[q].pc \in {"init", "trunc", "fill", "rename"}
              \/ q \in Clients /\ proc[q].pc \in {"get", "list"}
Turn(p) == Atomic => \A q \in Procs \ {p} : ~InStore(q)

----------------------------------------------------------------------------
(* job.rs: when a job runs next.                                           *)

\* compute_next_run(schedule, after).
BadNextRun(j, after) == IF j \in Once THEN (IF RunAt > after THEN RunAt ELSE Never)
                        ELSE after + Period + Period
NextRun(j, after) == IF j \in Once THEN (IF RunAt > after THEN RunAt ELSE Never)
                     ELSE after + Period

\* CronJob::new.
NewJob(j) == [enabled |-> TRUE, next |-> NextRun(j, clock), created |-> clock]

\* The record the tool writes for pause, resume and trigger.
Edited(op, j, rec) ==
  CASE op = "pause" -> [rec EXCEPT !.enabled = FALSE]
    [] op = "resume" -> [rec EXCEPT !.enabled = TRUE, !.next = NextRun(j, clock)]
    [] op = "trigger" -> [rec EXCEPT !.enabled = TRUE, !.next = clock]

\* mark_completed: computed from the record the tick read when it began.  An
\* interval starts at the scheduled time, so that it does not drift.
BaseTime(j, rec) == IF j \in Interval THEN rec.next ELSE clock
BadCompleted(j, rec) == [rec EXCEPT !.next = IF j \in Once THEN rec.next
                                             ELSE NextRun(j, BaseTime(j, rec))]
Completed(j, rec) == [rec EXCEPT !.next = NextRun(j, BaseTime(j, rec)),
                                 !.enabled = @ /\ j \notin Once]

\* dt > now is not due yet.
BadDue(rec) == rec # NoJob /\ rec.enabled /\ rec.next # Never /\ rec.next < clock
Due(rec) == rec # NoJob /\ rec.enabled /\ rec.next # Never /\ rec.next <= clock

----------------------------------------------------------------------------
Init ==
  /\ live = IF Preloaded = {} THEN Absent
            ELSE [j \in Jobs |-> IF j \in Preloaded
                                 THEN [enabled |-> TRUE, next |-> NextRun(j, 0), created |-> 0]
                                 ELSE NoJob]
  /\ tmp = Absent
  /\ fd = [p \in Procs |-> "none"]
  /\ proc = [p \in Procs |-> Idle]
  /\ lock = Nobody /\ clock = 0 /\ ops = 0
  /\ told = [j \in Jobs |-> IF j \in Preloaded THEN "create" ELSE "none"]
  /\ asked = [j \in Jobs |-> 0] /\ ran = [j \in Jobs |-> 0] /\ faults = 0

Advance ==
  /\ clock < MaxTime
  /\ clock' = clock + 1
  /\ UNCHANGED <<files, proc, lock, ghosts>>

----------------------------------------------------------------------------
(* JobStore::open, list and write, for any process.                        *)

\* The first access after the store was opened; a new job is built here.
AfterOpen(p) == IF p \in Tickers THEN "lock"
                ELSE IF proc[p].op \in {"create", "remove"} THEN "list" ELSE "get"
Opened(p) == proc' = [proc EXCEPT ![p].pc = AfterOpen(p),
                         ![p].rec = IF proc[p].op = "create" THEN NewJob(proc[p].job) ELSE NoJob]

\* create_new: whoever creates the file writes an empty list into it next.
Open(p) ==
  /\ At(p, "open") /\ Turn(p)
  /\ \/ /\ live = Absent
        /\ live' = Empty /\ fd' = [fd EXCEPT ![p] = "live"]
        /\ Goto(p, "init")
     \/ live # Absent /\ Opened(p) /\ UNCHANGED <<live, fd>>
  /\ UNCHANGED <<tmp, lock, clock, ghosts>>

\* What a file holds after content was written from its start: an open that
\* truncated it, or a longer write over it, leaves just the content.
Overlay(file, content) == IF file = Empty THEN {content} ELSE {content, Torn}

\* p writes its buffer into the file it has open, wherever that is by now.
WriteFd(p, content) ==
  /\ \/ fd[p] = "live" /\ live' \in Overlay(live, content) /\ UNCHANGED tmp
     \/ fd[p] = "tmp" /\ tmp' \in Overlay(tmp, content) /\ UNCHANGED live
     \/ fd[p] = "gone" /\ UNCHANGED <<live, tmp>>
  /\ fd' = [fd EXCEPT ![p] = "none"]

InitFile(p) ==
  /\ At(p, "init")
  /\ WriteFd(p, [j \in Jobs |-> NoJob])
  /\ Opened(p)
  /\ UNCHANGED <<lock, clock, ghosts>>

\* A failed store operation: the tool reports it, a tick is over.
Fail(p) == Stop(p) /\ lock' = IF lock = p THEN Nobody ELSE lock

\* get: the record a pause, resume or trigger starts from.
Get(p) ==
  /\ At(p, "get") /\ Turn(p)
  /\ LET j == proc[p].job IN
     \/ /\ Readable(live) /\ live[j] # NoJob
        /\ proc' = [proc EXCEPT ![p].pc = "list", ![p].rec = Edited(proc[p].op, j, live[j])]
        /\ UNCHANGED lock
     \/ /\ ~(Readable(live) /\ live[j] # NoJob)
        /\ Fail(p)
  /\ UNCHANGED <<files, clock, ghosts>>

\* What a process does after an update, found or not: the next due job.
AfterWrite(p) == IF p \in Tickers
                 THEN proc' = [proc EXCEPT ![p].pc = "pick", ![p].job = NoJob, ![p].rec = NoJob,
                                           ![p].buf = Absent]
                 ELSE Stop(p)

\* The list is read again, and the change is made to what was read.
BadChanged(op, j, rec, jobs) == IF op = "remove" THEN jobs ELSE [jobs EXCEPT ![j] = rec]
Changed(op, j, rec, jobs) == [jobs EXCEPT ![j] = IF op = "remove" THEN NoJob ELSE rec]

List(p) ==
  /\ At(p, "list") /\ Turn(p)
  /\ LET j == proc[p].job
         op == proc[p].op IN
     \/ ~Readable(live) /\ Fail(p)
     \/ /\ Readable(live) /\ (op \in {"create", "remove"} \/ live[j] # NoJob)
        /\ proc' = [proc EXCEPT ![p].pc = "trunc",
                                ![p].buf = Changed(op, j, proc[p].rec, live)]
        /\ UNCHANGED lock
     \/ /\ Readable(live) /\ op \notin {"create", "remove"} /\ live[j] = NoJob
        /\ AfterWrite(p) /\ UNCHANGED lock
  /\ UNCHANGED <<files, clock, ghosts>>

\* write: fs::write truncates the temporary file, then fills it.
BadTruncate(p) ==
  /\ At(p, "trunc")
  /\ live' = Empty /\ fd' = [fd EXCEPT ![p] = "live"]
  /\ Goto(p, "fill")
  /\ UNCHANGED <<tmp, lock, clock, ghosts>>
Truncate(p) ==
  /\ At(p, "trunc")
  /\ tmp' = Empty /\ fd' = [fd EXCEPT ![p] = "tmp"]
  /\ Goto(p, "fill")
  /\ UNCHANGED <<live, lock, clock, ghosts>>

Fill(p) ==
  /\ At(p, "fill")
  /\ WriteFd(p, proc[p].buf)
  /\ Goto(p, "rename")
  /\ UNCHANGED <<lock, clock, ghosts>>

\* Whoever still has the temporary file open now has the live one open.
Rename(p) ==
  /\ At(p, "rename")
  /\ \/ /\ tmp = Absent
        /\ Fail(p) /\ UNCHANGED <<files, told, asked>>
     \/ /\ tmp # Absent
        /\ live' = tmp /\ tmp' = Absent
        /\ fd' = [q \in Procs |-> CASE fd[q] = "tmp" -> "live"
                                    [] fd[q] = "live" -> "gone"
                                    [] OTHER -> fd[q]]
        /\ told' = IF p \in Clients THEN [told EXCEPT ![proc[p].job] = proc[p].op] ELSE told
        /\ asked' = IF proc[p].op = "trigger" THEN [asked EXCEPT ![proc[p].job] = @ + 1]
                    ELSE asked
        /\ AfterWrite(p)
        /\ UNCHANGED lock
  /\ UNCHANGED <<clock, ops, ran, faults>>

----------------------------------------------------------------------------
(* The cron tool.                                                          *)

\* A new job has an id of its own; the other edits name any job.
Call(c) ==
  /\ At(c, "idle") /\ ops < MaxOps
  /\ \E op \in Edits, j \in Jobs :
       /\ op = "create" => told[j] = "none" /\ \A q \in Clients : proc[q].job # j
       /\ op # "create" => told[j] # "none"
       /\ proc' = [proc EXCEPT ![c] = [Idle EXCEPT !.pc = "open", !.op = op, !.job = j]]
  /\ ops' = ops + 1
  /\ UNCHANGED <<files, lock, clock, told, asked, ran, faults>>

----------------------------------------------------------------------------
(* CronScheduler::tick.                                                    *)

Tick(t) ==
  /\ At(t, "idle")
  /\ Goto(t, "open")
  /\ UNCHANGED <<files, lock, clock, ghosts>>

\* flock LOCK_EX | LOCK_NB: a second tick is skipped.
BadLockFree == TRUE
LockFree == lock = Nobody

TryLock(t) ==
  /\ At(t, "lock")
  /\ \/ LockFree /\ lock' = t /\ Goto(t, "snapshot")
     \/ ~LockFree /\ Stop(t) /\ UNCHANGED lock
  /\ UNCHANGED <<files, clock, ghosts>>

\* The jobs and the time are read once per tick.
Snapshot(t) ==
  /\ At(t, "snapshot") /\ Turn(t)
  /\ \/ /\ Readable(live)
        /\ proc' = [proc EXCEPT ![t].pc = "pick",
                       ![t].todo = {[job |-> j, rec |-> live[j]] : j \in {i \in Jobs : Due(live[i])}}]
        /\ UNCHANGED lock
     \/ ~Readable(live) /\ Fail(t)
  /\ UNCHANGED <<files, clock, ghosts>>

RunJob(t) ==
  /\ At(t, "pick")
  /\ \E d \in proc[t].todo :
       /\ proc' = [proc EXCEPT ![t].pc = "running", ![t].job = d.job, ![t].rec = d.rec,
                               ![t].todo = @ \ {d}]
       /\ ran' = [ran EXCEPT ![d.job] = IF @ < MaxRuns THEN @ + 1 ELSE @]
  /\ UNCHANGED <<files, lock, clock, ops, told, asked, faults>>

\* The agent is done; its output is saved and the job marked.
JobDone(t) ==
  /\ At(t, "running")
  /\ proc' = [proc EXCEPT ![t].pc = "list", ![t].rec = Completed(proc[t].job, @)]
  /\ UNCHANGED <<files, lock, clock, ghosts>>

\* save_output fails: the error ends the tick before the job is marked.
SaveFails(t) ==
  /\ Fault /\ At(t, "running")
  /\ Fail(t)
  /\ UNCHANGED <<files, clock, ops, told, asked, ran>>

TickEnds(t) ==
  /\ At(t, "pick") /\ proc[t].todo = {}
  /\ Stop(t) /\ lock' = IF lock = t THEN Nobody ELSE lock
  /\ UNCHANGED <<files, clock, ghosts>>

\* The process dies; the kernel closes its files and drops its lock.
Die(p) ==
  /\ Fault /\ ~At(p, "idle")
  /\ Fail(p)
  /\ fd' = [fd EXCEPT ![p] = "none"]
  /\ UNCHANGED <<live, tmp, clock, ops, told, asked, ran>>

----------------------------------------------------------------------------
StoreStep(p) == \/ Open(p) \/ InitFile(p) \/ Get(p) \/ List(p)
                \/ Truncate(p) \/ Fill(p) \/ Rename(p)
TickStep(t) == \/ Tick(t) \/ TryLock(t) \/ Snapshot(t) \/ RunJob(t) \/ JobDone(t) \/ TickEnds(t)

Next == \/ Advance
        \/ \E p \in Procs : StoreStep(p) \/ Die(p)
        \/ \E c \in Clients : Call(c)
        \/ \E t \in Tickers : TickStep(t) \/ SaveFails(t)

\* The scheduler keeps ticking, agents return, and store operations end.
Fairness == /\ \A p \in Procs : WF_vars(StoreStep(p))
            /\ \A t \in Tickers : WF_vars(TickStep(t))

Spec == Init /\ [][Next]_vars
FairSpec == Spec /\ Fairness

----------------------------------------------------------------------------
(* Properties.                                                             *)

TypeOK ==
  /\ live \in Lists \cup {Empty, Torn, Absent} /\ tmp \in Lists \cup {Empty, Torn, Absent}
  /\ fd \in [Procs -> {"none", "tmp", "live", "gone"}]
  /\ \A p \in Procs : proc[p].todo \subseteq [job : Jobs, rec : Job]
  /\ lock \in Tickers \cup {Nobody} /\ clock \in 0..MaxTime /\ ops \in 0..MaxOps
  /\ told \in [Jobs -> Edits \cup {"none"}]
  /\ asked \in [Jobs -> Nat] /\ ran \in [Jobs -> 0..MaxRuns] /\ faults \in 0..MaxFaults

\* jobs.json is replaced by a rename, so that a reader finds a whole list in
\* it whenever the one before was one, whoever dies while writing.
LiveReadable == [][Readable(live) => Readable(live')]_vars

\* What the tool acknowledged stays: a created job is there until it is
\* removed, and a removed one does not come back.
EditsHold ==
  Readable(live) => \A j \in Jobs :
     /\ told[j] = "remove" => live[j] = NoJob
     /\ told[j] \in Edits \ {"remove"} => live[j] # NoJob

\* A paused job is not enabled again by anything but a resume or a trigger.
PauseHolds ==
  Readable(live) => \A j \in Jobs :
     (told[j] = "pause" /\ live[j] # NoJob) => ~live[j].enabled

\* A Once job runs once, once more each time it is triggered, and at most once
\* more for each tick that dies or cannot save its output.
OnceRunsOnce == \A j \in Once : ran[j] <= 1 + asked[j] + faults

\* However long ticks take and whoever ticks, a job does not run beside itself.
RunsAlone ==
  \A t, u \in Tickers : (t # u /\ At(t, "running") /\ At(u, "running")) =>
                           proc[t].job # proc[u].job

\* An interval job that was not edited since it was created is scheduled on the grid
\* of its creation time, however late its runs were.
NoDrift ==
  Readable(live) => \A j \in Interval :
     (live[j] # NoJob /\ told[j] = "create") =>
        \E k \in 1..(MaxTime + Period) : live[j].next = live[j].created + k * Period

\* Jobs keep to their schedule: a Once job is not run again and an interval
\* does not drift, although jobs are edited, late or interrupted.
OnSchedule == OnceRunsOnce /\ NoDrift

\* A due job is served: a tick runs it and moves its time, or an edit does.
DueIsServed ==
  \A j \in Jobs : (Readable(live) /\ live[j] # NoJob /\ live[j].enabled /\ live[j].next = clock)
                    ~> (~Readable(live) \/ live[j] = NoJob \/ ~live[j].enabled
                        \/ live[j].next = Never \/ live[j].next > clock)
=============================================================================
