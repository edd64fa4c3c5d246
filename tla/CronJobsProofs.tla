--------------------------- MODULE CronJobsProofs ----------------------------
(***************************************************************************)
(* What holds of CronJobs for all clients, schedulers and jobs, with any   *)
(* number of faults.  In every interleaving of their system calls: the     *)
(* types, and that the tick lock keeps a job from running beside itself.   *)
(* While no two processes are in the store at a time (Atomic): the file is *)
(* always a whole list, edits stay, and jobs keep to their schedule.       *)
(***************************************************************************)
EXTENDS CronJobs, TLAPS

Contents == Lists \cup {Empty, Torn, Absent}
Todo == SUBSET [job : Jobs, rec : Job]

\* Where a tick is while it holds the lock.
Locked == {"snapshot", "pick", "running", "list", "trunc", "fill", "rename"}
Common == {"idle", "open", "init", "list", "trunc", "fill", "rename"}

ClientRecs ==
  [pc : Common \cup {"get"}, op : Edits, job : Jobs, rec : Job \cup {NoJob}, buf : Contents, todo : {{}}]
TickerRecs ==
  [pc : Locked \cup {"idle", "open", "init", "lock"}, op : {"none"}, job : Jobs \cup {NoJob},
   rec : Job \cup {NoJob}, buf : Contents, todo : Todo]

FilesOK == live \in Contents /\ tmp \in Contents /\ fd \in [Procs -> {"none", "tmp", "live", "gone"}]
GhostsOK == /\ lock \in Tickers \cup {Nobody} /\ clock \in 0..MaxTime /\ ops \in 0..MaxOps
            /\ told \in [Jobs -> Edits \cup {"none"}] /\ asked \in [Jobs -> Nat]
            /\ ran \in [Jobs -> 0..MaxRuns] /\ faults \in 0..MaxFaults

\* What one process does fits who it is, the holder l of the lock and the time.
ClientOK(x) == \/ x = Idle
               \/ x \in ClientRecs /\ (x.pc = "get" => x.op \notin {"create", "remove"})
TickerOK(t, x, l) == /\ x \in TickerRecs
                     /\ x.pc \in Locked => l = t
                     /\ x.pc = "running" => x.job \in Jobs /\ Due(x.rec)
                     /\ \A d \in x.todo : Due(d.rec)
ProcsOK == /\ proc = [p \in Procs |-> proc[p]]
           /\ \A c \in Clients : ClientOK(proc[c])
           /\ \A t \in Tickers : TickerOK(t, proc[t], lock)

Inv == FilesOK /\ GhostsOK /\ ProcsOK

LEMMA InvTypes == Inv => TypeOK
  BY DEF Inv, FilesOK, GhostsOK, ProcsOK, TypeOK, Contents, TickerOK, ClientOK, ClientRecs,
         TickerRecs, Todo, Idle, Procs

LEMMA InvAlone == Inv => RunsAlone
  BY DEF Inv, ProcsOK, TickerOK, RunsAlone, At, Locked

-----------------------------------------------------------------------------
(* A step of one process. *)

LEMMA IdleOK == ASSUME NEW t, NEW l PROVE ClientOK(Idle) /\ TickerOK(t, Idle, l)
  BY DEF ClientOK, TickerOK, Idle, TickerRecs, Todo, Locked, Contents

\* p goes on with x, and takes the lock from nobody else.
LEMMA Moves ==
  ASSUME ProcsOK, NEW p \in Procs, NEW CONSTANT x, proc' = [proc EXCEPT ![p] = x],
         clock' = clock,
         p \in Clients => ClientOK(x), p \in Tickers => TickerOK(p, x, lock'),
         \A t \in Tickers \ {p} : lock = t => lock' = t
  PROVE  ProcsOK'
<1>1. /\ proc' = [q \in Procs |-> proc'[q]]
      /\ proc'[p] = x /\ \A q \in Procs \ {p} : proc'[q] = proc[q]
  BY DEF ProcsOK
<1>2. ASSUME NEW c \in Clients PROVE ClientOK(proc[c])'
  <2>1. CASE c = p
    BY <1>1, <2>1 DEF ClientOK
  <2>2. CASE c # p
    BY <1>1, <2>2 DEF ClientOK, ProcsOK, Procs
  <2> QED
    BY <2>1, <2>2
<1>3. ASSUME NEW t \in Tickers PROVE TickerOK(t, proc[t], lock)'
  <2>1. CASE t = p
    BY <1>1, <2>1 DEF TickerOK, Due
  <2>2. CASE t # p
    BY <1>1, <2>2 DEF TickerOK, Due, ProcsOK, Procs
  <2> QED
    BY <2>1, <2>2
<1> QED
  BY <1>1, <1>2, <1>3 DEF ProcsOK

\* Files and ghosts that a step leaves alone.
LEMMA FilesStay == FilesOK /\ UNCHANGED files => FilesOK'
  BY DEF FilesOK, files, Contents, Lists, Job, Times
LEMMA GhostsStay == GhostsOK /\ UNCHANGED <<lock, clock, ghosts>> => GhostsOK'
  BY DEF GhostsOK, ghosts

\* p is over with what it did.
LEMMA Ends ==
  ASSUME ProcsOK, NEW p \in Procs, Stop(p), clock' = clock,
         \A t \in Tickers \ {p} : lock = t => lock' = t
  PROVE  ProcsOK'
<1>1. proc' = [proc EXCEPT ![p] = Idle]
  BY DEF Stop
<1>2. ClientOK(Idle) /\ TickerOK(p, Idle, lock')
  BY IdleOK
<1> QED
  BY <1>1, <1>2, Moves

LEMMA Fails ==
  ASSUME Inv, NEW p \in Procs, Fail(p), clock' = clock
  PROVE  ProcsOK' /\ lock' \in Tickers \cup {Nobody}
<1>1. Stop(p) /\ lock' = IF lock = p THEN Nobody ELSE lock
  BY DEF Fail
<1> QED
  BY <1>1, Ends DEF Inv, GhostsOK

\* The lock stays, and p goes on to a place where it needs none, or held it.
LEMMA Continues ==
  ASSUME ProcsOK, NEW p \in Procs, NEW x, proc' = [proc EXCEPT ![p] = x],
         UNCHANGED <<lock, clock>>,
         p \in Clients => ClientOK(x), p \in Tickers => TickerOK(p, x, lock)
  PROVE  ProcsOK'
  BY Moves

-----------------------------------------------------------------------------
(* The store. *)

LEMMA WriteFiles ==
  ASSUME FilesOK, NEW p \in Procs, NEW content \in Contents, WriteFd(p, content)
  PROVE  FilesOK'
<1>1. live' \in Contents /\ tmp' \in Contents
  BY DEF FilesOK, WriteFd, Overlay, Contents
<1>2. fd' \in [Procs -> {"none", "tmp", "live", "gone"}]
  BY DEF FilesOK, WriteFd
<1> QED
  BY <1>1, <1>2 DEF FilesOK

LEMMA NextRunType ==
  ASSUME NEW j, NEW after \in 0..MaxTime
  PROVE  NextRun(j, after) \in Times \cup {Never}
  BY CronAssumption DEF NextRun, Times

LEMMA OpenedOK ==
  ASSUME Inv, NEW p \in Procs, At(p, "open") \/ At(p, "init"), Opened(p),
         UNCHANGED <<lock, clock>>
  PROVE  ProcsOK'
<1> DEFINE x == [proc[p] EXCEPT !.pc = AfterOpen(p),
                   !.rec = IF proc[p].op = "create" THEN NewJob(proc[p].job) ELSE NoJob]
<1>1. proc' = [proc EXCEPT ![p] = x]
  BY DEF Opened
<1>2. ASSUME NEW j PROVE NewJob(j) \in Job
  BY NextRunType, CronAssumption DEF NewJob, Job, Times, Inv, GhostsOK
<1>3. ASSUME p \in Clients PROVE ClientOK(x)
  <2>1. proc[p] \in ClientRecs
    BY <1>3 DEF Inv, ProcsOK, ClientOK, At, Idle
  <2>2. p \notin Tickers
    BY <1>3, CronAssumption
  <2> QED
    BY <2>1, <2>2, <1>2 DEF ClientOK, ClientRecs, AfterOpen, Common
<1>4. ASSUME p \in Tickers PROVE TickerOK(p, x, lock)
  <2>1. TickerOK(p, proc[p], lock)
    BY <1>4 DEF Inv, ProcsOK
  <2> QED
    BY <1>4, <2>1, <1>2 DEF TickerOK, TickerRecs, AfterOpen, Locked
<1> HIDE DEF x
<1> QED
  BY <1>1, <1>3, <1>4, Continues DEF Inv

LEMMA GotoOK ==
  ASSUME Inv, NEW p \in Procs, NEW pc, Goto(p, pc), UNCHANGED <<lock, clock>>,
         ~At(p, "idle"),
         p \in Clients => pc \in Common,
         p \in Tickers => pc \in Common \cup {"lock"} /\ (pc \in Locked => proc[p].pc \in Locked)
  PROVE  ProcsOK'
<1> DEFINE x == [proc[p] EXCEPT !.pc = pc]
<1>1. proc' = [proc EXCEPT ![p] = x]
  BY DEF Goto
<1>3. ASSUME p \in Clients PROVE ClientOK(x)
  <2>1. proc[p] \in ClientRecs
    BY <1>3 DEF Inv, ProcsOK, ClientOK, At, Idle
  <2> QED
    BY <2>1, <1>3 DEF ClientOK, ClientRecs, Common
<1>4. ASSUME p \in Tickers PROVE TickerOK(p, x, lock)
  <2>1. TickerOK(p, proc[p], lock)
    BY <1>4 DEF Inv, ProcsOK
  <2> QED
    BY <1>4, <2>1 DEF TickerOK, TickerRecs, Common, Locked
<1> HIDE DEF x
<1> QED
  BY <1>1, <1>3, <1>4, Continues DEF Inv

LEMMA OpenInv == ASSUME Inv, NEW p \in Procs, Open(p) PROVE Inv'
<1>1. GhostsOK'
  BY GhostsStay DEF Inv, Open
<1>2. FilesOK'
  BY DEF Inv, Open, FilesOK, Contents
<1>3. ProcsOK'
  <2>1. CASE Goto(p, "init")
    BY <2>1, GotoOK DEF Open, At, Common, Locked
  <2>2. CASE Opened(p)
    BY <2>2, OpenedOK DEF Open
  <2> QED
    BY <2>1, <2>2 DEF Open
<1> QED
  BY <1>1, <1>2, <1>3 DEF Inv

LEMMA InitFileInv == ASSUME Inv, NEW p \in Procs, InitFile(p) PROVE Inv'
<1>1. GhostsOK'
  BY GhostsStay DEF Inv, InitFile
<1>2. FilesOK'
  <2>1. [j \in Jobs |-> NoJob] \in Contents
    BY DEF Contents, Lists
  <2> QED
    BY <2>1, WriteFiles DEF Inv, InitFile
<1>3. ProcsOK'
  BY OpenedOK DEF InitFile
<1> QED
  BY <1>1, <1>2, <1>3 DEF Inv

\* An edit is only read for, and written as, a record of its own kind.
LEMMA EditedType ==
  ASSUME Inv, NEW op \in {"pause", "resume", "trigger"}, NEW j, NEW rec \in Job
  PROVE  Edited(op, j, rec) \in Job
<1>1. NextRun(j, clock) \in Times \cup {Never} /\ clock \in Times
  BY NextRunType, CronAssumption DEF Inv, GhostsOK, Times
<1>2. CASE op = "pause"
  BY <1>2 DEF Edited, Job
<1>3. CASE op = "resume"
  BY <1>1, <1>3 DEF Edited, Job
<1>4. CASE op = "trigger"
  BY <1>1, <1>4 DEF Edited, Job
<1> QED
  BY <1>2, <1>3, <1>4

LEMMA GetInv == ASSUME Inv, NEW p \in Clients, Get(p) PROVE Inv'
<1> DEFINE x == [proc[p] EXCEPT !.pc = "list", !.rec = Edited(proc[p].op, proc[p].job, live[proc[p].job])]
<1>p. p \in Procs /\ p \notin Tickers
  BY CronAssumption DEF Procs
<1>r. proc[p] \in ClientRecs /\ proc[p].op \in {"pause", "resume", "trigger"}
  BY DEF Inv, ProcsOK, ClientOK, Get, At, Idle, ClientRecs, Edits
<1>1. FilesOK'
  BY FilesStay DEF Inv, Get
<1>2. CASE Fail(p)
  <2>1. GhostsOK'
    BY <1>2, <1>p, Fails DEF Inv, GhostsOK, ghosts, Get
  <2> QED
    BY <1>1, <1>2, <1>p, <2>1, Fails DEF Inv, Get
<1>3. CASE /\ Readable(live) /\ live[proc[p].job] # NoJob
           /\ proc' = [proc EXCEPT ![p] = x] /\ UNCHANGED lock
  <2>1. live[proc[p].job] \in Job
    BY <1>3, <1>r DEF Inv, FilesOK, Contents, Readable, Lists, ClientRecs
  <2>2. ClientOK(x)
    BY <2>1, <1>r, EditedType DEF ClientOK, ClientRecs, Common
  <2> HIDE DEF x
  <2>3. ProcsOK'
    BY <1>3, <1>p, <2>2, Continues DEF Inv, Get
  <2>4. GhostsOK'
    BY <1>3, GhostsStay DEF Inv, Get
  <2> QED
    BY <1>1, <2>3, <2>4 DEF Inv
<1> QED
  BY <1>2, <1>3 DEF Get

\* A ticker is never at "get".
LEMMA TickerNotGet == ASSUME Inv, NEW t \in Tickers PROVE ~Get(t)
  BY DEF Inv, ProcsOK, TickerOK, TickerRecs, Locked, Get, At

LEMMA AfterWriteOK ==
  ASSUME Inv, NEW p \in Procs, At(p, "list") \/ At(p, "rename"), AfterWrite(p), UNCHANGED <<lock, clock>>
  PROVE  ProcsOK'
<1>1. CASE p \in Tickers
  <2> DEFINE x == [proc[p] EXCEPT !.pc = "pick", !.job = NoJob, !.rec = NoJob, !.buf = Absent]
  <2>1. proc' = [proc EXCEPT ![p] = x]
    BY <1>1 DEF AfterWrite
  <2>2. TickerOK(p, proc[p], lock)
    BY <1>1 DEF Inv, ProcsOK
  <2>3. TickerOK(p, x, lock)
    BY <2>2 DEF TickerOK, TickerRecs, Locked, Contents, At
  <2>4. p \notin Clients
    BY <1>1, CronAssumption
  <2> HIDE DEF x
  <2> QED
    BY <2>1, <2>3, <2>4, Continues DEF Inv
<1>2. CASE p \notin Tickers
  BY <1>2, Ends DEF AfterWrite, Inv
<1> QED
  BY <1>1, <1>2

LEMMA ListInv == ASSUME Inv, NEW p \in Procs, List(p) PROVE Inv'
<1> DEFINE buf == Changed(proc[p].op, proc[p].job, proc[p].rec, live)
           x == [proc[p] EXCEPT !.pc = "trunc", !.buf = buf]
<1>1. FilesOK'
  BY FilesStay DEF Inv, List
<1>2. CASE Fail(p)
  <2>1. GhostsOK'
    BY <1>2, Fails DEF Inv, GhostsOK, ghosts, List
  <2> QED
    BY <1>1, <1>2, <2>1, Fails DEF Inv, List
<1>3. CASE Readable(live) /\ proc' = [proc EXCEPT ![p] = x] /\ UNCHANGED lock
  <2>1. ASSUME proc[p].rec \in Job \cup {NoJob} PROVE buf \in Contents
    BY <1>3, <2>1 DEF Inv, FilesOK, Contents, Readable, Lists, Changed
  <2> HIDE DEF buf
  <2>2. ASSUME p \in Clients PROVE ClientOK(x)
    <3>1. proc[p] \in ClientRecs
      BY <2>2 DEF Inv, ProcsOK, ClientOK, List, At, Idle
    <3> QED
      BY <3>1, <2>1 DEF ClientOK, ClientRecs, Common
  <2>3. ASSUME p \in Tickers PROVE TickerOK(p, x, lock)
    <3>1. TickerOK(p, proc[p], lock)
      BY <2>3 DEF Inv, ProcsOK
    <3> QED
      BY <3>1, <2>1 DEF TickerOK, TickerRecs, Locked, List, At
  <2> HIDE DEF x
  <2>4. ProcsOK'
    BY <1>3, <2>2, <2>3, Continues DEF Inv, List
  <2>5. GhostsOK'
    BY <1>3, GhostsStay DEF Inv, List
  <2> QED
    BY <1>1, <2>4, <2>5 DEF Inv
<1>4. CASE AfterWrite(p) /\ UNCHANGED lock
  <2>1. ProcsOK'
    BY <1>4, AfterWriteOK DEF List
  <2>2. GhostsOK'
    BY <1>4, GhostsStay DEF Inv, List
  <2> QED
    BY <1>1, <2>1, <2>2 DEF Inv
<1> QED
  BY <1>2, <1>3, <1>4 DEF List

LEMMA TruncateInv == ASSUME Inv, NEW p \in Procs, Truncate(p) PROVE Inv'
<1>1. GhostsOK'
  BY GhostsStay DEF Inv, Truncate
<1>2. FilesOK'
  BY DEF Inv, Truncate, FilesOK, Contents
<1>3. ProcsOK'
  BY GotoOK DEF Truncate, At, Common, Locked
<1> QED
  BY <1>1, <1>2, <1>3 DEF Inv

LEMMA FillInv == ASSUME Inv, NEW p \in Procs, Fill(p) PROVE Inv'
<1>1. GhostsOK'
  BY GhostsStay DEF Inv, Fill
<1>2. FilesOK'
  <2>1. proc[p].buf \in Contents
    BY DEF Inv, ProcsOK, Procs, ClientOK, ClientRecs, TickerOK, TickerRecs, Idle, Contents
  <2> QED
    BY <2>1, WriteFiles DEF Inv, Fill
<1>3. ProcsOK'
  BY GotoOK DEF Fill, At, Common, Locked
<1> QED
  BY <1>1, <1>2, <1>3 DEF Inv

LEMMA RenameInv == ASSUME Inv, NEW p \in Procs, Rename(p) PROVE Inv'
<1>1. CASE Fail(p) /\ UNCHANGED <<files, told, asked>>
  <2>1. FilesOK'
    BY <1>1, FilesStay DEF Inv
  <2>2. GhostsOK'
    BY <1>1, Fails DEF Inv, GhostsOK, Rename
  <2> QED
    BY <1>1, <2>1, <2>2, Fails DEF Inv, Rename
<1>2. CASE tmp # Absent /\ AfterWrite(p) /\ UNCHANGED lock
  <2>1. FilesOK'
    BY <1>2 DEF Inv, FilesOK, Rename, Contents, Fail, AfterWrite
  <2>2. GhostsOK'
    <3>1. p \in Clients => proc[p] \in ClientRecs
      BY DEF Inv, ProcsOK, ClientOK, Rename, At, Idle
    <3>2. told' \in [Jobs -> Edits \cup {"none"}]
      BY <1>2, <3>1 DEF Inv, GhostsOK, Rename, ClientRecs
    <3>3. asked' \in [Jobs -> Nat]
      BY <1>2 DEF Inv, GhostsOK, Rename
    <3> QED
      BY <1>2, <3>2, <3>3 DEF Inv, GhostsOK, Rename
  <2>3. ProcsOK'
    BY <1>2, AfterWriteOK DEF Rename
  <2> QED
    BY <2>1, <2>2, <2>3 DEF Inv
<1> QED
  BY <1>1, <1>2 DEF Rename

-----------------------------------------------------------------------------
(* The cron tool and the tick. *)

LEMMA CallInv == ASSUME Inv, NEW c \in Clients, Call(c) PROVE Inv'
<1>p. c \in Procs /\ c \notin Tickers
  BY CronAssumption DEF Procs
<1>1. FilesOK'
  BY FilesStay DEF Inv, Call
<1>2. GhostsOK'
  BY CronAssumption DEF Inv, GhostsOK, Call
<1>3. PICK op \in Edits, j \in Jobs :
        proc' = [proc EXCEPT ![c] = [Idle EXCEPT !.pc = "open", !.op = op, !.job = j]]
  BY DEF Call
<1>4. ClientOK([Idle EXCEPT !.pc = "open", !.op = op, !.job = j])
  BY DEF ClientOK, ClientRecs, Idle, Common, Contents
<1>5. ProcsOK'
  BY <1>p, <1>3, <1>4, Continues DEF Inv, Call
<1> QED
  BY <1>1, <1>2, <1>5 DEF Inv

LEMMA TickInv == ASSUME Inv, NEW t \in Tickers, Tick(t) PROVE Inv'
<1>p. t \in Procs /\ t \notin Clients
  BY CronAssumption DEF Procs
<1>1. FilesOK' /\ GhostsOK'
  BY FilesStay, GhostsStay DEF Inv, Tick
<1>2. TickerOK(t, [proc[t] EXCEPT !.pc = "open"], lock)
  BY DEF Inv, ProcsOK, TickerOK, TickerRecs, Locked
<1>3. ProcsOK'
  BY <1>p, <1>2, Continues DEF Inv, Tick, Goto
<1> QED
  BY <1>1, <1>3 DEF Inv

LEMMA TryLockInv == ASSUME Inv, NEW t \in Tickers, TryLock(t) PROVE Inv'
<1>p. t \in Procs /\ t \notin Clients
  BY CronAssumption DEF Procs
<1>1. FilesOK'
  BY FilesStay DEF Inv, TryLock
<1>2. GhostsOK'
  BY DEF Inv, GhostsOK, ghosts, TryLock
<1>3. CASE LockFree /\ lock' = t /\ Goto(t, "snapshot")
  <2>1. TickerOK(t, [proc[t] EXCEPT !.pc = "snapshot"], t)
    BY DEF Inv, ProcsOK, TickerOK, TickerRecs, Locked
  <2>2. \A u \in Tickers : lock # u
    BY <1>3, CronAssumption DEF LockFree
  <2> QED
    BY <1>p, <1>1, <1>2, <1>3, <2>1, <2>2, Moves DEF Inv, TryLock, Goto
<1>4. CASE Stop(t) /\ UNCHANGED lock
  BY <1>p, <1>1, <1>2, <1>4, Ends DEF Inv, TryLock
<1> QED
  BY <1>3, <1>4 DEF TryLock

\* A tick works on jobs that were due when it read them, and time only advances.
LEMMA SnapshotInv == ASSUME Inv, NEW t \in Tickers, Snapshot(t) PROVE Inv'
<1>p. t \in Procs /\ t \notin Clients
  BY CronAssumption DEF Procs
<1>1. FilesOK'
  BY FilesStay DEF Inv, Snapshot
<1> DEFINE todo == {[job |-> j, rec |-> live[j]] : j \in {i \in Jobs : Due(live[i])}}
           x == [proc[t] EXCEPT !.pc = "pick", !.todo = todo]
<1>2. CASE Readable(live) /\ proc' = [proc EXCEPT ![t] = x] /\ UNCHANGED lock
  <2>1. live \in Lists
    BY <1>2 DEF Inv, FilesOK, Contents, Readable
  <2>2. todo \in Todo /\ \A d \in todo : Due(d.rec)
    BY <2>1 DEF Todo, Lists, Due
  <2> HIDE DEF todo
  <2>3. TickerOK(t, proc[t], lock) /\ proc[t].pc = "snapshot"
    BY DEF Inv, ProcsOK, Snapshot, At
  <2>4. TickerOK(t, x, lock)
    BY <2>2, <2>3 DEF TickerOK, TickerRecs, Locked
  <2> HIDE DEF x
  <2>5. ProcsOK'
    BY <1>p, <1>2, <2>4, Continues DEF Inv, Snapshot
  <2>6. GhostsOK'
    BY <1>2, GhostsStay DEF Inv, Snapshot
  <2> QED
    BY <1>1, <2>5, <2>6 DEF Inv
<1>3. CASE Fail(t)
  <2>1. GhostsOK'
    BY <1>3, <1>p, Fails DEF Inv, GhostsOK, ghosts, Snapshot
  <2> QED
    BY <1>1, <1>3, <1>p, <2>1, Fails DEF Inv, Snapshot
<1> QED
  BY <1>2, <1>3 DEF Snapshot

LEMMA RunJobInv == ASSUME Inv, NEW t \in Tickers, RunJob(t) PROVE Inv'
<1>p. t \in Procs /\ t \notin Clients
  BY CronAssumption DEF Procs
<1>1. FilesOK'
  BY FilesStay DEF Inv, RunJob
<1>2. PICK d \in proc[t].todo :
        /\ proc' = [proc EXCEPT ![t].pc = "running", ![t].job = d.job, ![t].rec = d.rec,
                                ![t].todo = @ \ {d}]
        /\ ran' = [ran EXCEPT ![d.job] = IF @ < MaxRuns THEN @ + 1 ELSE @]
  BY DEF RunJob
<1> DEFINE x == [proc[t] EXCEPT !.pc = "running", !.job = d.job, !.rec = d.rec, !.todo = @ \ {d}]
<1>3. TickerOK(t, proc[t], lock) /\ proc[t].pc = "pick"
  BY DEF Inv, ProcsOK, RunJob, At
<1>4. TickerOK(t, x, lock)
  BY <1>2, <1>3 DEF TickerOK, TickerRecs, Todo, Locked
<1>5. proc' = [proc EXCEPT ![t] = x]
  BY <1>2
<1>6. GhostsOK'
  <2>1. d.job \in Jobs
    BY <1>2, <1>3 DEF TickerOK, TickerRecs, Todo
  <2>2. ran' \in [Jobs -> 0..MaxRuns]
    BY <1>2, <2>1, CronAssumption DEF Inv, GhostsOK
  <2> QED
    BY <2>2 DEF Inv, GhostsOK, RunJob
<1> HIDE DEF x
<1>7. ProcsOK'
  BY <1>p, <1>4, <1>5, Continues DEF Inv, RunJob
<1> QED
  BY <1>1, <1>6, <1>7 DEF Inv

LEMMA CompletedType ==
  ASSUME Inv, NEW j, NEW rec \in Job, Due(rec)
  PROVE  Completed(j, rec) \in Job
<1>1. BaseTime(j, rec) \in 0..MaxTime
  BY CronAssumption DEF BaseTime, Due, Job, Times, Inv, GhostsOK
<1>2. NextRun(j, BaseTime(j, rec)) \in Times \cup {Never}
  BY <1>1, NextRunType
<1> QED
  BY <1>2 DEF Completed, Job

LEMMA JobDoneInv == ASSUME Inv, NEW t \in Tickers, JobDone(t) PROVE Inv'
<1>p. t \in Procs /\ t \notin Clients
  BY CronAssumption DEF Procs
<1>1. FilesOK' /\ GhostsOK'
  BY FilesStay, GhostsStay DEF Inv, JobDone
<1> DEFINE done == Completed(proc[t].job, proc[t].rec)
           x == [proc[t] EXCEPT !.pc = "list", !.rec = done]
<1>2. TickerOK(t, proc[t], lock) /\ proc[t].pc = "running"
  BY DEF Inv, ProcsOK, JobDone, At
<1>3. proc[t].rec \in Job /\ Due(proc[t].rec)
  BY <1>2 DEF TickerOK, TickerRecs, Due
<1>4. done \in Job
  BY <1>3, CompletedType
<1>5. proc' = [proc EXCEPT ![t] = x]
  BY DEF JobDone
<1> HIDE DEF done
<1>6. TickerOK(t, x, lock)
  BY <1>2, <1>4 DEF TickerOK, TickerRecs, Locked
<1> HIDE DEF x
<1>7. ProcsOK'
  BY <1>p, <1>5, <1>6, Continues DEF Inv, JobDone
<1> QED
  BY <1>1, <1>7 DEF Inv

LEMMA SaveFailsInv == ASSUME Inv, NEW t \in Tickers, SaveFails(t) PROVE Inv'
<1>1. FilesOK'
  BY FilesStay DEF Inv, SaveFails
<1>2. ProcsOK' /\ lock' \in Tickers \cup {Nobody}
  BY Fails DEF SaveFails, Procs
<1>3. GhostsOK'
  BY <1>2, CronAssumption DEF Inv, GhostsOK, SaveFails, Fault
<1> QED
  BY <1>1, <1>2, <1>3 DEF Inv

LEMMA TickEndsInv == ASSUME Inv, NEW t \in Tickers, TickEnds(t) PROVE Inv'
<1>1. FilesOK'
  BY FilesStay DEF Inv, TickEnds
<1>2. ProcsOK' /\ lock' \in Tickers \cup {Nobody}
  BY Fails DEF TickEnds, Procs, Fail
<1>3. GhostsOK'
  BY <1>2 DEF Inv, GhostsOK, ghosts, TickEnds
<1> QED
  BY <1>1, <1>2, <1>3 DEF Inv

LEMMA DieInv == ASSUME Inv, NEW p \in Procs, Die(p) PROVE Inv'
<1>1. FilesOK'
  BY DEF Inv, FilesOK, Die, Contents
<1>2. ProcsOK' /\ lock' \in Tickers \cup {Nobody}
  BY Fails DEF Die
<1>3. GhostsOK'
  BY <1>2, CronAssumption DEF Inv, GhostsOK, Die, Fault
<1> QED
  BY <1>1, <1>2, <1>3 DEF Inv

LEMMA AdvanceInv == ASSUME Inv, Advance PROVE Inv'
<1>1. FilesOK' /\ GhostsOK'
  BY FilesStay, CronAssumption DEF Inv, Advance, GhostsOK, ghosts
<1>2. ASSUME NEW rec, rec # NoJob => rec \in Job, Due(rec) PROVE Due(rec)'
  BY <1>2, CronAssumption DEF Due, Advance, Inv, GhostsOK, Job, Times
<1>3. ASSUME NEW t \in Tickers PROVE TickerOK(t, proc[t], lock)'
  <2>1. TickerOK(t, proc[t], lock) /\ UNCHANGED <<proc, lock>>
    BY DEF Inv, ProcsOK, Advance
  <2>2. /\ proc[t].rec # NoJob => proc[t].rec \in Job
        /\ \A d \in proc[t].todo : d.rec \in Job
    BY <2>1 DEF TickerOK, TickerRecs, Todo
  <2>3. proc[t].pc = "running" => Due(proc[t].rec)'
    BY <2>1, <2>2, <1>2 DEF TickerOK
  <2>4. \A d \in proc[t].todo : Due(d.rec)'
    BY <2>1, <2>2, <1>2 DEF TickerOK
  <2> QED
    BY <2>1, <2>3, <2>4 DEF TickerOK
<1>4. ProcsOK'
  BY <1>3 DEF Inv, ProcsOK, Advance, ClientOK
<1> QED
  BY <1>1, <1>4 DEF Inv

-----------------------------------------------------------------------------
LEMMA InitInv == Init => Inv
<1> SUFFICES ASSUME Init PROVE Inv
  OBVIOUS
<1>1. ASSUME NEW j \in Jobs
      PROVE  [enabled |-> TRUE, next |-> NextRun(j, 0), created |-> 0] \in Job
  BY NextRunType, CronAssumption DEF Job, Times
<1>2. FilesOK
  BY <1>1 DEF Init, FilesOK, Contents, Lists
<1>3. GhostsOK
  BY CronAssumption DEF Init, GhostsOK, Edits
<1>4. ProcsOK
  BY IdleOK, CronAssumption DEF Init, ProcsOK, Procs
<1> QED
  BY <1>2, <1>3, <1>4 DEF Inv

LEMMA StutterInv == Inv /\ UNCHANGED vars => Inv'
<1> SUFFICES ASSUME Inv, UNCHANGED vars PROVE Inv'
  OBVIOUS
<1>1. FilesOK' /\ GhostsOK'
  BY FilesStay, GhostsStay DEF Inv, vars
<1>2. ProcsOK'
  BY DEF Inv, ProcsOK, vars, ClientOK, TickerOK, Due
<1> QED
  BY <1>1, <1>2 DEF Inv

LEMMA NextInv == Inv /\ [Next]_vars => Inv'
<1> SUFFICES ASSUME Inv, [Next]_vars PROVE Inv'
  OBVIOUS
<1>1. CASE Advance
  BY <1>1, AdvanceInv
<1>2. ASSUME NEW p \in Procs, StoreStep(p) PROVE Inv'
  <2>1. CASE Get(p)
    BY <2>1, GetInv, TickerNotGet DEF Procs
  <2> QED
    BY <1>2, <2>1, OpenInv, InitFileInv, ListInv, TruncateInv, FillInv, RenameInv DEF StoreStep
<1>3. ASSUME NEW p \in Procs, Die(p) PROVE Inv'
  BY <1>3, DieInv
<1>4. ASSUME NEW c \in Clients, Call(c) PROVE Inv'
  BY <1>4, CallInv
<1>5. ASSUME NEW t \in Tickers, TickStep(t) \/ SaveFails(t) PROVE Inv'
  BY <1>5, TickInv, TryLockInv, SnapshotInv, RunJobInv, JobDoneInv, TickEndsInv, SaveFailsInv DEF TickStep
<1>6. CASE UNCHANGED vars
  BY <1>6, StutterInv
<1> QED
  BY <1>1, <1>2, <1>3, <1>4, <1>5, <1>6 DEF Next

LEMMA InvHolds == Spec => []Inv
<1> QED
  BY InitInv, NextInv, PTL DEF Spec

\* Every variable has a value the code can give it: the job list that is written
\* back is one, whatever was read, and a time that is computed from a due job's
\* own time is in reach.
THEOREM TypesHold == Spec => []TypeOK
  BY InvHolds, InvTypes, PTL

\* The lock alone keeps a job from running beside itself: it is held from the
\* snapshot of a tick to its end, by every tick that runs a job, although tool
\* calls overlap with all of it and processes die at any step.
THEOREM AloneHolds == Spec => []RunsAlone
  BY InvHolds, InvAlone, PTL

-----------------------------------------------------------------------------
(* No tool call overlaps another access to the file: one process at a time *)
(* is in the store, and what it finds there is what it left.               *)

Writing == {"init", "trunc", "fill", "rename"}
Copied == {"trunc", "fill", "rename"}
Sole == \A p, q \in Procs : (p # q /\ InStore(p)) => ~InStore(q)

Copy(p) == proc[p].buf = Changed(proc[p].op, proc[p].job, proc[p].rec, live)

\* How far a process is with its copy of the list.
Holds(p) ==
  /\ proc[p].pc = "init" => live = Empty /\ fd[p] = "live"
  /\ proc[p].pc = "fill" => tmp = Empty /\ fd[p] = "tmp"
  /\ proc[p].pc = "rename" => tmp = proc[p].buf
  /\ proc[p].pc \notin {"init", "fill"} => fd[p] = "none"
  /\ proc[p].pc \in Copied => Readable(live) /\ Copy(p)

StoreInv == Inv /\ Sole /\ \A p \in Procs : Holds(p)

\* The records of a process are of the types that Inv gives them.
LEMMA ProcTypes ==
  ASSUME Inv, NEW p \in Procs
  PROVE  /\ proc[p].rec \in Job \cup {NoJob} /\ proc[p].job \in Jobs \cup {NoJob}
         /\ proc[p].buf \in Contents /\ proc[p].todo \in Todo
         /\ p \in Clients => p \notin Tickers
  BY CronAssumption DEF Inv, ProcsOK, Procs, ClientOK, ClientRecs, TickerOK, TickerRecs, Idle,
     Contents, Todo

LEMMA ReadableIs == ASSUME Inv PROVE Readable(live) <=> live \in Lists
  BY ContentAssumption DEF Inv, FilesOK, Contents, Readable

\* A list with one record changed.
LEMMA ChangedIs ==
  ASSUME NEW jobs \in Lists, NEW rec \in Job \cup {NoJob}, NEW op, NEW j
  PROVE  /\ Changed(op, j, rec, jobs) \in Lists
         /\ Readable(Changed(op, j, rec, jobs))
         /\ \A i \in Jobs : Changed(op, j, rec, jobs)[i] =
              IF i # j THEN jobs[i] ELSE IF op = "remove" THEN NoJob ELSE rec
<1>1. Changed(op, j, rec, jobs) \in Lists
  BY DEF Changed, Lists
<1>2. \A i \in Jobs : Changed(op, j, rec, jobs)[i] =
              IF i # j THEN jobs[i] ELSE IF op = "remove" THEN NoJob ELSE rec
  BY DEF Changed, Lists
<1> QED
  BY <1>1, <1>2, ContentAssumption DEF Readable

\* A step of p, from x0 to x, leaves the others where they were: they are not in
\* the store when p enters it or writes.
LEMMA OthersHold ==
  ASSUME Atomic, StoreInv, NEW p \in Procs, NEW CONSTANT x, proc' = [proc EXCEPT ![p] = x],
         (x.pc \in Writing \/ (p \in Clients /\ x.pc \in {"get", "list"})) => InStore(p) \/ Turn(p),
         \/ UNCHANGED <<live, tmp>> /\ \A q \in Procs \ {p} : fd'[q] = fd[q]
         \/ /\ InStore(p) \/ Turn(p)
            /\ \A q \in Procs \ {p} : fd'[q] = fd[q] \/ fd'[q] = "none"
  PROVE  Sole' /\ (\A q \in Procs \ {p} : Holds(q)') /\ proc'[p] = x
<1>1. /\ proc'[p] = x /\ \A q \in Procs \ {p} : proc'[q] = proc[q]
  BY DEF StoreInv, Inv, ProcsOK
<1>2. ASSUME InStore(p) \/ Turn(p), NEW q \in Procs \ {p} PROVE ~InStore(q)
  BY <1>2 DEF StoreInv, Sole, Turn
<1>3. \A q \in Procs \ {p} : InStore(q)' <=> InStore(q)
  BY <1>1 DEF InStore
<1>4. InStore(p)' => InStore(p) \/ Turn(p)
  BY <1>1 DEF InStore, Writing
<1>5. Sole'
  <2> SUFFICES ASSUME NEW u \in Procs, NEW v \in Procs, u # v, InStore(u)', InStore(v)'
               PROVE  FALSE
    BY DEF Sole
  <2>1. CASE u = p
    BY <2>1, <1>2, <1>3, <1>4
  <2>2. CASE v = p
    BY <2>2, <1>2, <1>3, <1>4
  <2>3. CASE u # p /\ v # p
    BY <2>3, <1>3 DEF StoreInv, Sole
  <2> QED
    BY <2>1, <2>2, <2>3
<1>6. ASSUME NEW q \in Procs \ {p} PROVE Holds(q)'
  <2>0. Holds(q) /\ proc'[q] = proc[q]
    BY <1>1 DEF StoreInv
  <2>1. CASE UNCHANGED <<live, tmp>> /\ fd'[q] = fd[q]
    BY <2>0, <2>1 DEF Holds, Copy, Changed, Readable
  <2>2. CASE ~InStore(q) /\ (fd'[q] = fd[q] \/ fd'[q] = "none")
    BY <2>0, <2>2 DEF Holds, InStore, Copied
  <2> QED
    BY <2>1, <2>2, <1>2
<1> QED
  BY <1>1, <1>5, <1>6

\* A step that writes no file.
LEMMA QuietHolds ==
  ASSUME Atomic, StoreInv, Inv', NEW p \in Procs, NEW CONSTANT x, proc' = [proc EXCEPT ![p] = x],
         UNCHANGED <<live, tmp>>, fd' = fd \/ fd' = [fd EXCEPT ![p] = "none"],
         fd'[p] = "none", x.pc \notin Writing,
         p \in Clients => (x.pc \in {"get", "list"} => InStore(p) \/ Turn(p))
  PROVE  StoreInv'
<1>1. fd \in [Procs -> {"none", "tmp", "live", "gone"}]
  BY DEF StoreInv, Inv, FilesOK
<1>2. \A q \in Procs \ {p} : fd'[q] = fd[q]
  BY <1>1
<1>3. Sole' /\ (\A q \in Procs \ {p} : Holds(q)') /\ proc'[p] = x
  BY <1>2, OthersHold
<1>4. Holds(p)'
  BY <1>3 DEF Holds, Writing, Copied
<1> QED
  BY <1>3, <1>4 DEF StoreInv

LEMMA StopHolds ==
  ASSUME Atomic, StoreInv, Inv', NEW p \in Procs, Stop(p),
         UNCHANGED <<live, tmp>>, fd' = fd \/ fd' = [fd EXCEPT ![p] = "none"],
         fd'[p] = "none"
  PROVE  StoreInv'
<1>1. proc' = [proc EXCEPT ![p] = Idle] /\ Idle.pc = "idle"
  BY DEF Stop, Idle
<1> QED
  BY <1>1, QuietHolds DEF Writing

LEMMA NoFile ==
  ASSUME StoreInv, NEW p \in Procs, proc[p].pc \notin {"init", "fill"}
  PROVE  fd[p] = "none"
  BY DEF StoreInv, Holds

LEMMA OpenHolds == ASSUME Atomic, StoreInv, NEW p \in Procs, Open(p) PROVE StoreInv'
<1>0. Inv'
  BY OpenInv DEF StoreInv
<1>1. fd \in [Procs -> {"none", "tmp", "live", "gone"}]
  BY DEF StoreInv, Inv, FilesOK
<1>2. fd[p] = "none"
  BY NoFile DEF Open, At
<1>3. CASE live' = Empty /\ fd' = [fd EXCEPT ![p] = "live"] /\ Goto(p, "init")
  <2> DEFINE x == [proc[p] EXCEPT !.pc = "init"]
  <2>1. proc' = [proc EXCEPT ![p] = x]
    BY <1>3 DEF Goto
  <2>2. x.pc = "init"
    BY <1>0, <2>1, ProcTypes DEF StoreInv, Inv, ProcsOK, Procs, ClientOK, ClientRecs, Idle, TickerOK, TickerRecs
  <2> HIDE DEF x
  <2>3. \A q \in Procs \ {p} : fd'[q] = fd[q]
    BY <1>1, <1>3
  <2>4. Sole' /\ (\A q \in Procs \ {p} : Holds(q)') /\ proc'[p] = x
    BY <2>1, <2>2, <2>3, OthersHold DEF Open
  <2>5. Holds(p)'
    BY <1>1, <1>3, <2>2, <2>4 DEF Holds, Copied
  <2> QED
    BY <1>0, <2>4, <2>5 DEF StoreInv
<1>4. CASE Opened(p) /\ UNCHANGED <<live, fd>>
  <2> DEFINE x == [proc[p] EXCEPT !.pc = AfterOpen(p),
                   !.rec = IF proc[p].op = "create" THEN NewJob(proc[p].job) ELSE NoJob]
  <2>1. proc' = [proc EXCEPT ![p] = x]
    BY <1>4 DEF Opened
  <2>2. x.pc = AfterOpen(p)
    BY ProcTypes DEF StoreInv, Inv, ProcsOK, Procs, ClientOK, ClientRecs, Idle, TickerOK, TickerRecs
  <2> HIDE DEF x
  <2>3. x.pc \in {"lock", "list", "get"}
    BY <2>2 DEF AfterOpen
  <2> QED
    BY <1>0, <1>2, <1>4, <2>1, <2>3, QuietHolds DEF Open, Writing
<1> QED
  BY <1>3, <1>4 DEF Open

LEMMA RecForm ==
  ASSUME Inv, NEW p \in Procs
  PROVE  /\ proc[p] = [pc |-> proc[p].pc, op |-> proc[p].op, job |-> proc[p].job, rec |-> proc[p].rec,
                       buf |-> proc[p].buf, todo |-> proc[p].todo]
  BY DEF Inv, ProcsOK, Procs, ClientOK, ClientRecs, Idle, TickerOK, TickerRecs

LEMMA InitFileHolds == ASSUME Atomic, StoreInv, NEW p \in Procs, InitFile(p) PROVE StoreInv'
<1>0. Inv'
  BY InitFileInv DEF StoreInv
<1>1. fd \in [Procs -> {"none", "tmp", "live", "gone"}] /\ fd' = [fd EXCEPT ![p] = "none"]
  BY DEF StoreInv, Inv, FilesOK, InitFile, WriteFd
<1>2. InStore(p)
  BY DEF InitFile, At, InStore
<1> DEFINE x == [proc[p] EXCEPT !.pc = AfterOpen(p),
                 !.rec = IF proc[p].op = "create" THEN NewJob(proc[p].job) ELSE NoJob]
<1>3. proc' = [proc EXCEPT ![p] = x]
  BY DEF Opened, InitFile
<1>4. x.pc \in {"lock", "list", "get"}
  BY RecForm DEF AfterOpen, StoreInv
<1> HIDE DEF x
<1>5. Sole' /\ (\A q \in Procs \ {p} : Holds(q)') /\ proc'[p] = x
  BY <1>1, <1>2, <1>3, OthersHold
<1>6. Holds(p)'
  BY <1>1, <1>4, <1>5 DEF Holds, Copied
<1> QED
  BY <1>0, <1>5, <1>6 DEF StoreInv

LEMMA FailHolds ==
  ASSUME Atomic, StoreInv, Inv', NEW p \in Procs, Fail(p), UNCHANGED files,
         proc[p].pc \notin {"init", "fill"}
  PROVE  StoreInv'
  BY NoFile, StopHolds DEF Fail, files

LEMMA AfterWriteHolds ==
  ASSUME Atomic, StoreInv, Inv', NEW p \in Procs, AfterWrite(p), UNCHANGED files,
         proc[p].pc \notin {"init", "fill"}
  PROVE  StoreInv'
<1>1. CASE p \in Tickers
  <2> DEFINE x == [proc[p] EXCEPT !.pc = "pick", !.job = NoJob, !.rec = NoJob, !.buf = Absent]
  <2>0. x.pc = "pick"
    BY RecForm DEF StoreInv
  <2>1. proc' = [proc EXCEPT ![p] = x] /\ x.pc = "pick"
    BY <1>1, <2>0 DEF AfterWrite
  <2> HIDE DEF x
  <2> QED
    BY <2>1, NoFile, QuietHolds DEF files, Writing
<1>2. CASE p \notin Tickers
  BY <1>2, NoFile, StopHolds DEF AfterWrite, files
<1> QED
  BY <1>1, <1>2

LEMMA GetHolds == ASSUME Atomic, StoreInv, NEW p \in Clients, Get(p) PROVE StoreInv'
<1>0. Inv' /\ p \in Procs
  BY GetInv DEF StoreInv, Procs
<1>1. CASE Fail(p)
  BY <1>0, <1>1, FailHolds DEF Get, At
<1>2. CASE ~Fail(p)
  <2> DEFINE x == [proc[p] EXCEPT !.pc = "list", !.rec = Edited(proc[p].op, proc[p].job, live[proc[p].job])]
  <2>0. x.pc = "list"
    BY <1>0, RecForm DEF StoreInv
  <2>1. proc' = [proc EXCEPT ![p] = x] /\ x.pc = "list"
    BY <1>2, <2>0 DEF Get
  <2> HIDE DEF x
  <2> QED
    BY <1>0, <2>1, NoFile, QuietHolds DEF files, Writing, Get, At
<1> QED
  BY <1>1, <1>2

LEMMA ListHolds == ASSUME Atomic, StoreInv, NEW p \in Procs, List(p) PROVE StoreInv'
<1>0. Inv'
  BY ListInv DEF StoreInv
<1>1. CASE Fail(p)
  BY <1>0, <1>1, FailHolds DEF List, At
<1>2. CASE AfterWrite(p)
  BY <1>0, <1>2, AfterWriteHolds DEF List, At
<1>3. CASE ~Fail(p) /\ ~AfterWrite(p)
  <2> DEFINE buf == Changed(proc[p].op, proc[p].job, proc[p].rec, live)
             x == [proc[p] EXCEPT !.pc = "trunc", !.buf = buf]
  <2>1. proc' = [proc EXCEPT ![p] = x] /\ Readable(live) /\ UNCHANGED files
    BY <1>3 DEF List
  <2>2. x.pc = "trunc" /\ x.op = proc[p].op /\ x.job = proc[p].job /\ x.rec = proc[p].rec /\ x.buf = buf
    BY RecForm DEF StoreInv
  <2> HIDE DEF buf, x
  <2>3. Sole' /\ (\A q \in Procs \ {p} : Holds(q)') /\ proc'[p] = x
    BY <2>1, OthersHold DEF files, List
  <2>4. fd'[p] = "none"
    BY <2>1, NoFile DEF files, List, At
  <2>5. buf = Changed(proc[p].op, proc[p].job, proc[p].rec, live)
    BY DEF buf
  <2>6. Copy(p)'
    BY <2>1, <2>2, <2>3, <2>5 DEF Copy, files, Changed
  <2>7. Holds(p)'
    BY <2>1, <2>2, <2>3, <2>4, <2>6 DEF Holds, Copied, files, Readable
  <2> QED
    BY <1>0, <2>3, <2>7 DEF StoreInv
<1> QED
  BY <1>1, <1>2, <1>3

LEMMA TruncateHolds == ASSUME Atomic, StoreInv, NEW p \in Procs, Truncate(p) PROVE StoreInv'
<1>0. Inv'
  BY TruncateInv DEF StoreInv
<1>1. fd \in [Procs -> {"none", "tmp", "live", "gone"}]
  BY DEF StoreInv, Inv, FilesOK
<1> DEFINE x == [proc[p] EXCEPT !.pc = "fill"]
<1>2. proc' = [proc EXCEPT ![p] = x]
  BY DEF Truncate, Goto
<1>3. x.pc = "fill" /\ x.op = proc[p].op /\ x.job = proc[p].job /\ x.rec = proc[p].rec /\ x.buf = proc[p].buf
  BY RecForm DEF StoreInv
<1> HIDE DEF x
<1>4. Sole' /\ (\A q \in Procs \ {p} : Holds(q)') /\ proc'[p] = x
  BY <1>1, <1>2, OthersHold DEF Truncate, InStore, At
<1>5. Holds(p) /\ proc[p].pc = "trunc"
  BY DEF StoreInv, Truncate, At
<1>c. Copy(p) /\ live' = live
  BY <1>5 DEF Holds, Copied, Truncate
<1>6. Copy(p)'
  BY <1>3, <1>4, <1>c DEF Copy, Changed
<1>7. Holds(p)'
  BY <1>1, <1>3, <1>4, <1>5, <1>6 DEF Holds, Copied, Readable, Truncate
<1> QED
  BY <1>0, <1>4, <1>7 DEF StoreInv

LEMMA FillHolds == ASSUME Atomic, StoreInv, NEW p \in Procs, Fill(p) PROVE StoreInv'
<1>0. Inv'
  BY FillInv DEF StoreInv
<1>1. fd \in [Procs -> {"none", "tmp", "live", "gone"}]
  BY DEF StoreInv, Inv, FilesOK
<1>2. Holds(p) /\ proc[p].pc = "fill"
  BY DEF StoreInv, Fill, At
<1>3. tmp' = proc[p].buf /\ live' = live /\ fd' = [fd EXCEPT ![p] = "none"]
  BY <1>2 DEF Fill, WriteFd, Overlay, Holds
<1> DEFINE x == [proc[p] EXCEPT !.pc = "rename"]
<1>4. proc' = [proc EXCEPT ![p] = x]
  BY DEF Fill, Goto
<1>5. x.pc = "rename" /\ x.op = proc[p].op /\ x.job = proc[p].job /\ x.rec = proc[p].rec /\ x.buf = proc[p].buf
  BY RecForm DEF StoreInv
<1> HIDE DEF x
<1>6. Sole' /\ (\A q \in Procs \ {p} : Holds(q)') /\ proc'[p] = x
  BY <1>1, <1>2, <1>3, <1>4, OthersHold DEF InStore
<1>c. Copy(p)
  BY <1>2 DEF Holds, Copied
<1>7. Copy(p)'
  BY <1>3, <1>5, <1>6, <1>c DEF Copy, Changed
<1>8. Holds(p)'
  BY <1>1, <1>2, <1>3, <1>5, <1>6, <1>7 DEF Holds, Copied, Readable
<1> QED
  BY <1>0, <1>6, <1>8 DEF StoreInv

\* What a rename makes of the live file.
LEMMA RenameIs ==
  ASSUME StoreInv, NEW p \in Procs, Rename(p)
  PROVE  /\ live \in Lists /\ live' = Changed(proc[p].op, proc[p].job, proc[p].rec, live)
         /\ live' \in Lists /\ tmp # Absent /\ AfterWrite(p) /\ UNCHANGED lock
<1>1. Holds(p) /\ proc[p].pc = "rename"
  BY DEF StoreInv, Rename, At
<1>2. Readable(live) /\ tmp = Changed(proc[p].op, proc[p].job, proc[p].rec, live)
  BY <1>1 DEF Holds, Copied, Copy
<1>3. live \in Lists /\ proc[p].rec \in Job \cup {NoJob}
  BY <1>2, ReadableIs, ProcTypes DEF StoreInv
<1>4. tmp \in Lists /\ tmp # Absent
  BY <1>2, <1>3, ChangedIs DEF Readable
<1> QED
  BY <1>2, <1>3, <1>4 DEF Rename

LEMMA RenameHolds == ASSUME Atomic, StoreInv, NEW p \in Procs, Rename(p) PROVE StoreInv'
<1>0. Inv'
  BY RenameInv DEF StoreInv
<1>1. fd \in [Procs -> {"none", "tmp", "live", "gone"}] /\ InStore(p)
  BY DEF StoreInv, Inv, FilesOK, Rename, InStore, At
<1>2. \A q \in Procs \ {p} : fd[q] = "none"
  BY <1>1, NoFile DEF StoreInv, Sole, InStore
<1>3. fd[p] = "none"
  BY NoFile DEF Rename, At
<1>4. \A q \in Procs : fd'[q] = "none"
  BY <1>2, <1>3, RenameIs DEF Rename
<1>5. PICK x : proc' = [proc EXCEPT ![p] = x] /\ x.pc \in {"pick", "idle"}
  <2>1. AfterWrite(p)
    BY RenameIs
  <2>2. CASE p \in Tickers
    <3> DEFINE y == [proc[p] EXCEPT !.pc = "pick", !.job = NoJob, !.rec = NoJob, !.buf = Absent]
    <3>0. y.pc = "pick"
      BY RecForm DEF StoreInv
    <3>1. proc' = [proc EXCEPT ![p] = y] /\ y.pc = "pick"
      BY <2>1, <2>2, <3>0 DEF AfterWrite
    <3> QED
      BY <3>1
  <2>3. CASE p \notin Tickers
    <3>1. proc' = [proc EXCEPT ![p] = Idle] /\ Idle.pc = "idle"
      BY <2>1, <2>3 DEF AfterWrite, Stop, Idle
    <3> QED
      BY <3>1
  <2> QED
    BY <2>2, <2>3
<1>6. Sole' /\ (\A q \in Procs \ {p} : Holds(q)') /\ proc'[p] = x
  BY <1>1, <1>4, <1>5, OthersHold DEF Writing
<1>7. Holds(p)'
  BY <1>4, <1>5, <1>6 DEF Holds, Copied
<1> QED
  BY <1>0, <1>6, <1>7 DEF StoreInv

\* The steps between two accesses to the store.
LEMMA OtherHolds ==
  ASSUME Atomic, StoreInv, Inv', NEW p \in Procs,
         \/ p \in Clients /\ Call(p)
         \/ p \in Tickers /\ (TickStep(p) \/ SaveFails(p))
         \/ Die(p)
  PROVE  StoreInv'
<1>t. fd \in [Procs -> {"none", "tmp", "live", "gone"}]
  BY DEF StoreInv, Inv, FilesOK
<1>1. CASE p \in Clients /\ Call(p)
  <2>1. PICK op \in Edits, j \in Jobs :
        proc' = [proc EXCEPT ![p] = [Idle EXCEPT !.pc = "open", !.op = op, !.job = j]]
    BY <1>1 DEF Call
  <2>2. [Idle EXCEPT !.pc = "open", !.op = op, !.job = j].pc = "open"
    BY DEF Idle
  <2> QED
    BY <1>1, <2>1, <2>2, NoFile, QuietHolds DEF Call, files, Writing, At
<1>2. CASE Die(p)
  BY <1>2, <1>t, StopHolds DEF Die, Fail
<1>3. ASSUME p \in Tickers, Snapshot(p), ~Fail(p) PROVE StoreInv'
  <2> DEFINE x == [proc[p] EXCEPT !.pc = "pick",
                     !.todo = {[job |-> j, rec |-> live[j]] : j \in {i \in Jobs : Due(live[i])}}]
  <2>0. x.pc = "pick"
    BY RecForm DEF StoreInv
  <2>1. proc' = [proc EXCEPT ![p] = x] /\ x.pc = "pick"
    BY <1>3, <2>0 DEF Snapshot
  <2> HIDE DEF x
  <2> QED
    BY <1>3, <2>1, NoFile, QuietHolds DEF Snapshot, files, Writing, At
<1>4. ASSUME p \in Tickers, RunJob(p) PROVE StoreInv'
  <2>1. PICK d \in proc[p].todo :
          proc' = [proc EXCEPT ![p].pc = "running", ![p].job = d.job, ![p].rec = d.rec, ![p].todo = @ \ {d}]
    BY <1>4 DEF RunJob
  <2> DEFINE x == [proc[p] EXCEPT !.pc = "running", !.job = d.job, !.rec = d.rec, !.todo = @ \ {d}]
  <2>0. x.pc = "running"
    BY RecForm DEF StoreInv
  <2>2. proc' = [proc EXCEPT ![p] = x] /\ x.pc = "running"
    BY <2>1, <2>0
  <2> HIDE DEF x
  <2> QED
    BY <1>4, <2>2, NoFile, QuietHolds DEF RunJob, files, Writing, At, ProcTypes
<1>5. ASSUME p \in Tickers, JobDone(p) PROVE StoreInv'
  <2> DEFINE x == [proc[p] EXCEPT !.pc = "list", !.rec = Completed(proc[p].job, @)]
  <2>0. x.pc = "list"
    BY RecForm DEF StoreInv
  <2>1. proc' = [proc EXCEPT ![p] = x] /\ x.pc = "list"
    BY <1>5, <2>0 DEF JobDone
  <2>2. p \notin Clients
    BY <1>5, CronAssumption
  <2> HIDE DEF x
  <2> QED
    BY <1>5, <2>1, <2>2, NoFile, QuietHolds DEF JobDone, files, Writing, At
<1>6. ASSUME NEW pc \in {"open", "snapshot"}, Goto(p, pc), proc[p].pc \in {"idle", "lock"}, UNCHANGED files
      PROVE  StoreInv'
  <2> DEFINE x == [proc[p] EXCEPT !.pc = pc]
  <2>1. proc' = [proc EXCEPT ![p] = x] /\ x.pc = pc
    BY <1>6, RecForm DEF Goto, StoreInv
  <2> HIDE DEF x
  <2> QED
    BY <1>6, <2>1, NoFile, QuietHolds DEF files, Writing
<1>7. ASSUME Stop(p), UNCHANGED files, proc[p].pc \notin {"init", "fill"} PROVE StoreInv'
  BY <1>7, NoFile, StopHolds DEF files
<1>8. CASE p \in Tickers /\ (TickStep(p) \/ SaveFails(p))
  <2>1. CASE Tick(p)
    BY <2>1, <1>6 DEF Tick, At
  <2>2. CASE TryLock(p)
    BY <2>2, <1>6, <1>7 DEF TryLock, At
  <2>3. CASE Snapshot(p)
    BY <2>3, <1>8, <1>3, <1>7 DEF Snapshot, Fail, At
  <2>4. CASE TickEnds(p) \/ SaveFails(p)
    BY <2>4, <1>7 DEF TickEnds, SaveFails, Fail, At
  <2> QED
    BY <1>8, <1>4, <1>5, <2>1, <2>2, <2>3, <2>4 DEF TickStep
<1> QED
  BY <1>1, <1>2, <1>8

LEMMA StillHolds == StoreInv /\ Inv' /\ UNCHANGED <<files, proc>> => StoreInv'
  BY DEF StoreInv, Sole, Holds, InStore, files, Copy, Changed, Readable

LEMMA StoreInit == Init => StoreInv
<1> SUFFICES ASSUME Init PROVE StoreInv
  OBVIOUS
<1>1. \A p \in Procs : proc[p].pc = "idle" /\ fd[p] = "none"
  BY DEF Init, Idle
<1> QED
  BY <1>1, InitInv DEF StoreInv, Sole, Holds, InStore, Copied

LEMMA StoreNext == Atomic /\ StoreInv /\ [Next]_vars => StoreInv'
<1> SUFFICES ASSUME Atomic, StoreInv, [Next]_vars PROVE StoreInv'
  OBVIOUS
<1>0. Inv'
  BY NextInv DEF StoreInv
<1>1. CASE Advance \/ UNCHANGED vars
  BY <1>0, <1>1, StillHolds DEF Advance, vars
<1>2. ASSUME NEW p \in Procs, StoreStep(p) PROVE StoreInv'
  <2>1. CASE Get(p)
    BY <2>1, GetHolds, TickerNotGet DEF Procs, StoreInv
  <2> QED
    BY <1>2, <2>1, OpenHolds, InitFileHolds, ListHolds, TruncateHolds, FillHolds, RenameHolds DEF StoreStep
<1>3. CASE ~(Advance \/ UNCHANGED vars) /\ ~(\E p \in Procs : StoreStep(p))
  BY <1>0, <1>3, OtherHolds DEF Next, Procs
<1> QED
  BY <1>1, <1>2, <1>3

-----------------------------------------------------------------------------
(* What a step makes of the live file. *)

LEMMA LiveIs ==
  ASSUME Atomic, StoreInv, [Next]_vars
  PROVE  \/ live' = live
         \/ ~Readable(live)
         \/ \E p \in Procs : Rename(p) /\ live' \in Lists
<1>1. ASSUME NEW p \in Procs, Fill(p) PROVE live' = live
  BY <1>1 DEF Fill, WriteFd, StoreInv, Holds, At
<1>2. ASSUME NEW p \in Procs, InitFile(p) PROVE ~Readable(live)
  BY <1>2 DEF InitFile, StoreInv, Holds, At, Readable
<1>3. ASSUME NEW p \in Procs, Open(p) PROVE live' = live \/ ~Readable(live)
  BY <1>3 DEF Open, Readable
<1>4. ASSUME NEW p \in Procs, Rename(p) PROVE live' \in Lists
  BY <1>4, RenameIs
<1>5. ASSUME NEW p \in Procs, StoreStep(p) \/ Die(p) PROVE
         \/ live' = live
         \/ ~Readable(live)
         \/ Rename(p)
  BY <1>1, <1>2, <1>3, <1>5 DEF StoreStep, Get, List, Truncate, files, Die
<1>6. ASSUME NEW t \in Tickers, TickStep(t) \/ SaveFails(t) PROVE live' = live
  BY <1>6 DEF TickStep, SaveFails, Tick, TryLock, Snapshot, RunJob, JobDone, TickEnds, files
<1> QED
  BY <1>4, <1>5, <1>6 DEF Next, Advance, Call, vars, files

LEMMA StoreHolds == ASSUME Atomic PROVE Spec => []StoreInv
<1>1. Init => StoreInv
  BY StoreInit
<1>2. StoreInv /\ [Next]_vars => StoreInv'
  BY StoreNext
<1> QED
  BY <1>1, <1>2, PTL DEF Spec

\* Whoever dies while it writes, the live file goes from one whole list to the next:
\* what is renamed over it was filled from its start by the process that renames it.
THEOREM ReadableHolds == Atomic => (Spec => LiveReadable)
<1> SUFFICES ASSUME Atomic PROVE Spec => LiveReadable
  OBVIOUS
<1>1. StoreInv /\ [Next]_vars => (Readable(live) => Readable(live'))
  BY LiveIs, ContentAssumption DEF Readable
<1>2. StoreInv /\ [Next]_vars => [Readable(live) => Readable(live')]_vars
  BY <1>1
<1>3. Spec => []StoreInv
  BY StoreHolds
<1> QED
  BY <1>2, <1>3, PTL DEF Spec, LiveReadable

-----------------------------------------------------------------------------
(* What the records say, wherever they are: in the file, in the hands of a *)
(* client that edits a job, or of the tick that runs it.                   *)

Recorded == {"list"} \cup Copied
Works(t) == proc[t].pc \in {"running"} \cup Recorded

\* A time that is still to come is that of the schedule.
Ahead(rec) == rec = NoJob \/ rec.next = Never \/ rec.next <= clock \/ rec.next = RunAt

\* The records on the grid of their creation.
OnGrid == {rec \in Job : /\ rec.next \in 0..(MaxTime + Period)
                         /\ \E k \in 1..(MaxTime + Period) : rec.next = rec.created + k * Period}

LiveOK ==
  /\ ~Readable(live) => \A j \in Jobs : told[j] = "none"
  /\ Readable(live) =>
       /\ \A j \in Jobs : told[j] \in {"none", "remove"} <=> live[j] = NoJob
       /\ \A j \in Interval : told[j] = "create" => live[j] \in OnGrid
       /\ \A j \in Once : Ahead(live[j])

\* The job a client creates is nobody's, and another client names another one.
CreatesOK ==
  \A c \in Clients : (proc[c].pc # "idle" /\ proc[c].op = "create") =>
     /\ told[proc[c].job] = "none"
     /\ \A q \in Clients \ {c} : proc[q].pc # "idle" => proc[q].job # proc[c].job

EditOK(c) ==
  proc[c].pc \in Recorded =>
     /\ proc[c].op # "remove" => proc[c].rec \in Job
     /\ proc[c].job \in Once => Ahead(proc[c].rec)
     /\ (proc[c].op = "create" /\ proc[c].job \in Interval) => proc[c].rec \in OnGrid

TodoOK(t) ==
  /\ (proc[t].pc # "pick" /\ ~Works(t)) => proc[t].todo = {}
  /\ (proc[t].pc = "pick" \/ Works(t)) => Readable(live)
  /\ \A d, e \in proc[t].todo : d.job = e.job => d = e
  /\ \A d \in proc[t].todo : /\ told[d.job] # "none"
                             /\ (d.job \in Interval /\ told[d.job] = "create") => d.rec \in OnGrid

WorkOK(t) ==
  /\ Works(t) =>
       /\ proc[t].job \in Jobs /\ proc[t].rec \in Job /\ told[proc[t].job] # "none"
       /\ \A d \in proc[t].todo : d.job # proc[t].job
       /\ (proc[t].job \in Interval /\ told[proc[t].job] = "create") => proc[t].rec \in OnGrid
  /\ (proc[t].pc \in Recorded /\ proc[t].job \in Once) => ~proc[t].rec.enabled /\ Ahead(proc[t].rec)
  /\ proc[t].pc \in Copied => live[proc[t].job] # NoJob

RecordsOK == /\ LiveOK /\ CreatesOK
             /\ \A c \in Clients : EditOK(c)
             /\ \A t \in Tickers : TodoOK(t) /\ WorkOK(t)

\* Without another trigger or fault, j is run once more: a tick has it to do, or
\* nobody works on it and it is due, or about to be.
Planned(j) == \E t \in Tickers : \E d \in proc[t].todo : d.job = j
WorkedOn(j) == \E t \in Tickers : Works(t) /\ proc[t].job = j
Expected(j) ==
  \/ Planned(j)
  \/ /\ ~WorkedOn(j)
     /\ \/ Readable(live) /\ Due(live[j])
        \/ \E c \in Clients : /\ proc[c].pc \in Recorded /\ proc[c].job = j
                              /\ proc[c].op # "trigger" /\ Due(proc[c].rec)
\* As long as its time is to come, a Once job has that run to go as well.
Spare == IF clock < RunAt THEN 1 ELSE 0
Counted ==
  \A j \in Once : /\ ran[j] + Spare <= 1 + asked[j] + faults
                  /\ Expected(j) => ran[j] + Spare <= asked[j] + faults

CountInv == StoreInv /\ RecordsOK /\ Counted

-----------------------------------------------------------------------------
(* What a step makes of one process. *)

LEMMA BecomesIs ==
  ASSUME Inv, NEW p \in Procs, NEW CONSTANT x, proc' = [proc EXCEPT ![p] = x]
  PROVE  proc'[p] = x /\ \A q \in Procs \ {p} : proc'[q] = proc[q]
  BY DEF Inv, ProcsOK

LEMMA GotoIs ==
  ASSUME Inv, NEW p \in Procs, NEW pc, Goto(p, pc)
  PROVE  /\ proc'[p].pc = pc /\ proc'[p].op = proc[p].op /\ proc'[p].job = proc[p].job
         /\ proc'[p].rec = proc[p].rec /\ proc'[p].todo = proc[p].todo
         /\ \A q \in Procs \ {p} : proc'[q] = proc[q]
<1> DEFINE x == [proc[p] EXCEPT !.pc = pc]
<1>1. proc' = [proc EXCEPT ![p] = x]
  BY DEF Goto
<1>2. /\ x.pc = pc /\ x.op = proc[p].op /\ x.job = proc[p].job
      /\ x.rec = proc[p].rec /\ x.todo = proc[p].todo
  BY RecForm
<1> HIDE DEF x
<1> QED
  BY <1>1, <1>2, BecomesIs

LEMMA OpenedIs ==
  ASSUME Inv, NEW p \in Procs, Opened(p)
  PROVE  /\ proc'[p].pc = AfterOpen(p) /\ proc'[p].op = proc[p].op /\ proc'[p].job = proc[p].job
         /\ proc'[p].rec = IF proc[p].op = "create" THEN NewJob(proc[p].job) ELSE NoJob
         /\ proc'[p].todo = proc[p].todo
         /\ \A q \in Procs \ {p} : proc'[q] = proc[q]
<1> DEFINE r == IF proc[p].op = "create" THEN NewJob(proc[p].job) ELSE NoJob
           x == [proc[p] EXCEPT !.pc = AfterOpen(p), !.rec = r]
<1>1. proc' = [proc EXCEPT ![p] = x]
  BY DEF Opened
<1>r. r = IF proc[p].op = "create" THEN NewJob(proc[p].job) ELSE NoJob
  OBVIOUS
<1> HIDE DEF r
<1>2. /\ x.pc = AfterOpen(p) /\ x.op = proc[p].op /\ x.job = proc[p].job
      /\ x.rec = r /\ x.todo = proc[p].todo
  BY RecForm
<1> HIDE DEF x
<1> QED
  BY <1>1, <1>2, <1>r, BecomesIs

LEMMA StopIs ==
  ASSUME Inv, NEW p \in Procs, Stop(p)
  PROVE  /\ proc'[p].pc = "idle" /\ proc'[p].todo = {} /\ proc'[p].job = NoJob
         /\ \A q \in Procs \ {p} : proc'[q] = proc[q]
<1>1. proc' = [proc EXCEPT ![p] = Idle] /\ Idle.pc = "idle" /\ Idle.todo = {} /\ Idle.job = NoJob
  BY DEF Stop, Idle
<1> QED
  BY <1>1, BecomesIs

\* A tick that goes on with its next job, after it wrote back the last.
LEMMA NextIs ==
  ASSUME Inv, NEW p \in Tickers, AfterWrite(p)
  PROVE  /\ proc'[p].pc = "pick" /\ proc'[p].todo = proc[p].todo /\ proc'[p].job = NoJob
         /\ \A q \in Procs \ {p} : proc'[q] = proc[q]
<1> DEFINE x == [proc[p] EXCEPT !.pc = "pick", !.job = NoJob, !.rec = NoJob, !.buf = Absent]
<1>p. p \in Procs
  BY DEF Procs
<1>1. proc' = [proc EXCEPT ![p] = x]
  BY DEF AfterWrite
<1>2. x.pc = "pick" /\ x.todo = proc[p].todo /\ x.job = NoJob
  BY <1>p, RecForm
<1> HIDE DEF x
<1> QED
  BY <1>p, <1>1, <1>2, BecomesIs

LEMMA Kinds ==
  ASSUME Inv
  PROVE  /\ \A c \in Clients : c \notin Tickers /\ c \in Procs /\ (proc[c].pc # "idle" => proc[c] \in ClientRecs)
         /\ \A t \in Tickers : t \notin Clients /\ t \in Procs /\ proc[t] \in TickerRecs
         /\ \A t, u \in Tickers : proc[t].pc \in Locked /\ proc[u].pc \in Locked => t = u
  BY CronAssumption DEF Inv, ProcsOK, Procs, ClientOK, TickerOK, Idle

-----------------------------------------------------------------------------
(* Steps of p that change no job, no time and nothing that was told: at    *)
(* most they begin the file.                                               *)

NoNews == \/ live' = live
          \/ ~Readable(live) /\ (~Readable(live') \/ live' = [j \in Jobs |-> NoJob])
Quiet(p) == /\ NoNews /\ UNCHANGED <<clock, told>>
            /\ \A q \in Procs \ {p} : proc'[q] = proc[q]

LEMMA OthersStay ==
  ASSUME RecordsOK, NEW p \in Procs, Quiet(p)
  PROVE  /\ LiveOK' /\ \A c \in Clients \ {p} : EditOK(c)'
         /\ \A t \in Tickers \ {p} : TodoOK(t)' /\ WorkOK(t)'
<1>1. LiveOK'
  <2>1. LiveOK /\ UNCHANGED <<clock, told>>
    BY DEF RecordsOK, Quiet
  <2>2. CASE live' = live
    BY <2>1, <2>2 DEF LiveOK, Readable, Ahead
  <2>3. CASE ~Readable(live) /\ ~Readable(live')
    BY <2>1, <2>3 DEF LiveOK, Readable
  <2>4. CASE ~Readable(live) /\ live' = [j \in Jobs |-> NoJob]
    <3>1. \A j \in Jobs : told[j] = "none"
      BY <2>1, <2>4 DEF LiveOK
    <3>2. Readable(live')
      BY <2>4, ContentAssumption DEF Readable, Lists
    <3>3. \A j \in Jobs : live'[j] = NoJob
      BY <2>4
    <3> QED
      BY <2>1, <3>1, <3>2, <3>3, CronAssumption DEF LiveOK, Readable, Ahead
  <2> QED
    BY <2>2, <2>3, <2>4 DEF Quiet, NoNews
<1>2. ASSUME NEW c \in Clients \ {p} PROVE EditOK(c)'
  BY DEF RecordsOK, EditOK, Quiet, Ahead, Procs
<1>3. ASSUME NEW t \in Tickers \ {p} PROVE TodoOK(t)' /\ WorkOK(t)'
  <2>1. TodoOK(t) /\ WorkOK(t) /\ proc'[t] = proc[t] /\ UNCHANGED <<clock, told>> /\ NoNews
    BY DEF RecordsOK, Quiet, Procs
  <2>2. proc[t].pc = "pick" \/ Works(t) => live' = live
    BY <2>1 DEF TodoOK, NoNews
  <2>3. TodoOK(t)'
    BY <2>1, <2>2 DEF TodoOK, Works, Readable
  <2>4. WorkOK(t)'
    BY <2>1, <2>2 DEF WorkOK, Works, Ahead, Recorded
  <2> QED
    BY <2>3, <2>4
<1> QED
  BY <1>1, <1>2, <1>3

\* p goes on with the edit it was called for, or ends it.
LEMMA CreatesStay ==
  ASSUME Inv, CreatesOK, NEW p \in Procs, Quiet(p),
         (p \in Clients /\ proc'[p].pc # "idle") =>
            proc[p].pc # "idle" /\ proc'[p].op = proc[p].op /\ proc'[p].job = proc[p].job
  PROVE  CreatesOK'
  BY DEF CreatesOK, Quiet, Procs

LEMMA RecordsStay ==
  ASSUME Inv, RecordsOK, NEW p \in Procs, Quiet(p),
         p \in Clients => /\ EditOK(p)'
                          /\ proc'[p].pc # "idle" => /\ proc[p].pc # "idle" /\ proc'[p].op = proc[p].op
                                                     /\ proc'[p].job = proc[p].job,
         p \in Tickers => TodoOK(p)' /\ WorkOK(p)'
  PROVE  RecordsOK'
<1>1. LiveOK' /\ (\A c \in Clients \ {p} : EditOK(c)') /\ \A t \in Tickers \ {p} : TodoOK(t)' /\ WorkOK(t)'
  BY OthersStay
<1>2. CreatesOK'
  BY CreatesStay DEF RecordsOK
<1> QED
  BY <1>1, <1>2 DEF RecordsOK

\* Nobody comes to expect a run that was not expected.
LEMMA ExpectedStays ==
  ASSUME Inv, NEW p \in Procs, Quiet(p), NEW j \in Once,
         p \in Tickers =>
            /\ \A d \in proc'[p].todo : d.job = j => Expected(j)
            /\ (Works(p) /\ proc[p].job = j) => (Works(p)' /\ proc'[p].job = j)
                                                \/ ~((Readable(live) /\ Due(live[j])) \/ \E c \in Clients : proc[c].pc \in Recorded),
         p \in Clients =>
            ((proc'[p].pc \in Recorded /\ proc'[p].job = j /\ proc'[p].op # "trigger" /\ Due(proc[p].rec)')
               => /\ proc[p].pc \in Recorded /\ proc[p].job = j
                  /\ proc[p].op # "trigger" /\ Due(proc[p].rec))
  PROVE  Expected(j)' => Expected(j)
<1> SUFFICES ASSUME Expected(j)' PROVE Expected(j)
  OBVIOUS
<1>q. /\ UNCHANGED <<clock, told>> /\ \A q \in Procs \ {p} : proc'[q] = proc[q]
      /\ Readable(live)' /\ Due(live[j])' => Readable(live) /\ Due(live[j])
  BY CronAssumption DEF Quiet, NoNews, Readable, Due
<1>1. CASE Planned(j)'
  <2>1. PICK t \in Tickers : \E d \in proc'[t].todo : d.job = j
    BY <1>1 DEF Planned
  <2>2. CASE t = p
    BY <2>1, <2>2
  <2>3. CASE t # p
    BY <2>1, <2>3, <1>q DEF Expected, Planned, Procs
  <2> QED
    BY <2>2, <2>3
<1>2. CASE /\ ~WorkedOn(j)'
           /\ \/ Readable(live)' /\ Due(live[j])'
              \/ \E c \in Clients : /\ proc'[c].pc \in Recorded /\ proc'[c].job = j
                                    /\ proc'[c].op # "trigger" /\ Due(proc[c].rec)'
  <2>1. \/ Readable(live) /\ Due(live[j])
        \/ \E c \in Clients : /\ proc[c].pc \in Recorded /\ proc[c].job = j
                              /\ proc[c].op # "trigger" /\ Due(proc[c].rec)
    <3>1. CASE Readable(live)' /\ Due(live[j])'
      BY <3>1, <1>q
    <3>2. ASSUME NEW c \in Clients, proc'[c].pc \in Recorded, proc'[c].job = j,
                 proc'[c].op # "trigger", Due(proc[c].rec)'
          PROVE  /\ proc[c].pc \in Recorded /\ proc[c].job = j
                 /\ proc[c].op # "trigger" /\ Due(proc[c].rec)
      <4>1. CASE c = p
        BY <3>2, <4>1
      <4>2. CASE c # p
        BY <3>2, <4>2, <1>q DEF Due, Procs
      <4> QED
        BY <4>1, <4>2
    <3> QED
      BY <1>2, <3>1, <3>2
  <2>2. ~WorkedOn(j)
    <3> SUFFICES ASSUME NEW t \in Tickers, Works(t), proc[t].job = j PROVE FALSE
      BY DEF WorkedOn
    <3>1. CASE t = p
      BY <3>1, <2>1, <1>2 DEF WorkedOn
    <3>2. CASE t # p
      <4>1. proc'[t] = proc[t]
        BY <3>2, <1>q DEF Procs
      <4>2. Works(t)' /\ proc'[t].job = j
        BY <4>1 DEF Works
      <4> QED
        BY <4>2, <1>2 DEF WorkedOn
    <3> QED
      BY <3>1, <3>2
  <2> QED
    BY <2>1, <2>2 DEF Expected
<1> QED
  BY <1>1, <1>2 DEF Expected

LEMMA CountStays ==
  ASSUME Inv, Counted, UNCHANGED <<ran, clock>>, Inv',
         \A j \in Once : asked'[j] >= asked[j] /\ faults' >= faults,
         \A j \in Once : Expected(j)' => Expected(j) \/ asked'[j] + faults' > asked[j] + faults
  PROVE  Counted'
<1> SUFFICES ASSUME NEW j \in Once
             PROVE  /\ ran'[j] + Spare' <= 1 + asked'[j] + faults'
                    /\ Expected(j)' => ran'[j] + Spare' <= asked'[j] + faults'
  BY DEF Counted
<1>1. ran[j] \in Nat /\ asked[j] \in Nat /\ asked'[j] \in Nat /\ faults \in Nat /\ faults' \in Nat /\ Spare \in {0, 1}
  BY CronAssumption DEF Inv, GhostsOK, Spare
<1>2. Spare' = Spare /\ ran'[j] = ran[j]
  BY DEF Spare
<1>3. asked'[j] >= asked[j] /\ faults' >= faults /\ j \in Jobs
  BY CronAssumption
<1> QED
  BY <1>1, <1>2, <1>3 DEF Counted

-----------------------------------------------------------------------------
(* The records that are made. *)

LEMMA NextRunIs ==
  ASSUME Inv, NEW j
  PROVE  /\ j \in Once => NextRun(j, clock) \in {RunAt, Never}
         /\ NextRun(j, clock) = Never \/ (NextRun(j, clock) > clock /\ NextRun(j, clock) \in Nat)
  BY CronAssumption DEF NextRun, Inv, GhostsOK

LEMMA NewJobIs ==
  ASSUME Inv, NEW j \in Jobs
  PROVE  /\ NewJob(j) \in Job /\ ~Due(NewJob(j))
         /\ j \in Once => Ahead(NewJob(j))
         /\ j \in Interval => NewJob(j) \in OnGrid
<1>1. NewJob(j).next = NextRun(j, clock) /\ NewJob(j).created = clock /\ NewJob(j).enabled
  BY DEF NewJob
<1>2. NewJob(j) \in Job
  BY NextRunType, CronAssumption DEF NewJob, Job, Times, Inv, GhostsOK
<1>3. ~Due(NewJob(j)) /\ (j \in Once => Ahead(NewJob(j)))
  BY <1>1, NextRunIs, CronAssumption DEF Due, Ahead, Inv, GhostsOK
<1>4. ASSUME j \in Interval PROVE NewJob(j) \in OnGrid
  <2>1. Period \in Nat \ {0} /\ MaxTime \in Nat /\ clock \in 0..MaxTime /\ j \notin Once
    BY <1>4, CronAssumption DEF Inv, GhostsOK
  <2>2. NewJob(j).next = clock + Period /\ NewJob(j).next = NewJob(j).created + 1 * Period
    BY <1>1, <2>1 DEF NextRun
  <2>3. NewJob(j).next \in 0..(MaxTime + Period) /\ 1 \in 1..(MaxTime + Period)
    BY <2>1, <2>2
  <2> QED
    BY <1>2, <2>2, <2>3 DEF OnGrid
<1> QED
  BY <1>2, <1>3, <1>4

LEMMA EditedIs ==
  ASSUME Inv, NEW op \in {"pause", "resume", "trigger"}, NEW j, NEW rec \in Job
  PROVE  /\ Edited(op, j, rec) \in Job
         /\ op # "trigger" => ~Due(Edited(op, j, rec))
         /\ (j \in Once /\ Ahead(rec)) => Ahead(Edited(op, j, rec))
<1>1. Edited(op, j, rec) \in Job
  BY EditedType
<1>2. rec.next \in Nat \cup {Never} /\ clock \in Nat
  BY CronAssumption DEF Job, Times, Inv, GhostsOK
<1>3. CASE op = "pause"
  <2>1. Edited(op, j, rec).enabled = FALSE /\ Edited(op, j, rec).next = rec.next
    BY <1>3 DEF Edited, Job
  <2> QED
    BY <1>1, <1>2, <1>3, <2>1, ContentAssumption DEF Due, Ahead
<1>4. CASE op = "resume"
  <2>1. Edited(op, j, rec).next = NextRun(j, clock)
    BY <1>4 DEF Edited, Job
  <2> QED
    BY <1>1, <1>2, <1>4, <2>1, NextRunIs, CronAssumption DEF Due, Ahead
<1>5. CASE op = "trigger"
  <2>1. Edited(op, j, rec).next = clock
    BY <1>5 DEF Edited, Job
  <2> QED
    BY <1>1, <1>2, <1>5, <2>1 DEF Ahead
<1> QED
  BY <1>3, <1>4, <1>5

LEMMA MultipleIs == ASSUME NEW k \in Nat, NEW n \in Nat \ {0} PROVE k <= k * n /\ k * n \in Nat
<1>1. PICK m \in Nat : n = m + 1
  <2>1. n - 1 \in Nat /\ n = (n - 1) + 1
    OBVIOUS
  <2> QED
    BY <2>1
<1>2. k * n = k * m + k
  BY <1>1
<1>3. k * m \in Nat
  BY <1>1
<1> QED
  BY <1>2, <1>3

LEMMA CompletedIs ==
  ASSUME Inv, NEW j, NEW rec \in Job, Due(rec)
  PROVE  /\ Completed(j, rec) \in Job
         /\ j \in Once => ~Completed(j, rec).enabled /\ Ahead(Completed(j, rec))
         /\ (j \in Interval /\ rec \in OnGrid) => Completed(j, rec) \in OnGrid
<1>1. /\ Completed(j, rec).next = NextRun(j, BaseTime(j, rec))
      /\ Completed(j, rec).enabled = (rec.enabled /\ j \notin Once)
      /\ Completed(j, rec).created = rec.created
  BY DEF Completed, Job
<1>2. Completed(j, rec) \in Job
  BY CompletedType
<1>3. j \in Once => ~Completed(j, rec).enabled /\ Ahead(Completed(j, rec))
  <2>1. j \in Once => NextRun(j, BaseTime(j, rec)) \in {RunAt, Never}
    BY DEF NextRun
  <2> QED
    BY <1>1, <2>1 DEF Ahead
<1>4. ASSUME j \in Interval, rec \in OnGrid PROVE Completed(j, rec) \in OnGrid
  <2>1. PICK k \in 1..(MaxTime + Period) : rec.next = rec.created + k * Period
    BY <1>4 DEF OnGrid
  <2>2. j \notin Once
    BY <1>4, CronAssumption
  <2>3. Completed(j, rec).next = rec.next + Period
    BY <1>1, <1>4, <2>2 DEF NextRun, BaseTime
  <2>4. rec.next <= clock /\ clock \in 0..MaxTime /\ rec.created \in Nat /\ Period \in Nat \ {0} /\ MaxTime \in Nat
    BY <1>4, CronAssumption DEF Due, Inv, GhostsOK, Job, Times
  <2>5. k \in Nat /\ k + 1 \in Nat /\ (k + 1) * Period = k * Period + Period /\ k * Period \in Nat
    BY <2>4
  <2>6. k + 1 <= (k + 1) * Period
    BY <2>4, <2>5, MultipleIs
  <2>7. Completed(j, rec).next = Completed(j, rec).created + (k + 1) * Period
    BY <1>1, <2>1, <2>3, <2>4, <2>5
  <2>8. Completed(j, rec).next \in 0..(MaxTime + Period)
    BY <1>4, <2>3, <2>4 DEF OnGrid
  <2>9. k + 1 \in 1..(MaxTime + Period)
    BY <1>1, <2>4, <2>5, <2>6, <2>7, <2>8
  <2> QED
    BY <1>2, <2>7, <2>8, <2>9 DEF OnGrid
<1> QED
  BY <1>2, <1>3, <1>4

LEMMA GhostTypes == ASSUME Inv PROVE clock \in 0..MaxTime /\ faults \in Nat /\ \A j \in Jobs : asked[j] \in Nat
  BY CronAssumption DEF Inv, GhostsOK

-----------------------------------------------------------------------------
(* Steps that end what p does. *)

LEMMA StopCount ==
  ASSUME CountInv, StoreInv', NEW p \in Procs, Stop(p), NoNews, UNCHANGED <<clock, told, ran, asked>>,
         \/ UNCHANGED faults /\ (p \in Tickers => ~Works(p))
         \/ faults' = faults + 1
  PROVE  CountInv'
<1>i. Inv /\ Inv' /\ RecordsOK /\ Counted
  BY DEF CountInv, StoreInv
<1>1. /\ proc'[p].pc = "idle" /\ proc'[p].todo = {} /\ proc'[p].job = NoJob
      /\ \A q \in Procs \ {p} : proc'[q] = proc[q]
  BY <1>i, StopIs
<1>2. Quiet(p)
  BY <1>1 DEF Quiet
<1>3. EditOK(p)' /\ TodoOK(p)' /\ WorkOK(p)'
  BY <1>1 DEF EditOK, TodoOK, WorkOK, Works, Recorded, Copied
<1>4. RecordsOK'
  BY <1>i, <1>1, <1>2, <1>3, RecordsStay
<1>5. ASSUME NEW j \in Once PROVE Expected(j)' => Expected(j) \/ faults' = faults + 1
  <2>1. CASE p \in Tickers => ~Works(p)
    BY <1>i, <1>1, <1>2, <2>1, ExpectedStays DEF Recorded, Copied
  <2> QED
    BY <2>1
<1>6. Counted'
  <2>1. \A j \in Once : asked'[j] = asked[j] /\ asked[j] \in Nat /\ faults \in Nat
    BY <1>i, GhostTypes, CronAssumption
  <2> QED
    BY <1>i, <1>5, <2>1, CountStays
<1> QED
  BY <1>4, <1>6 DEF CountInv

LEMMA GotoCount ==
  ASSUME CountInv, StoreInv', NEW p \in Procs, NEW pc, Goto(p, pc),
         NoNews, UNCHANGED <<clock, told, ran, asked, faults>>,
         ~At(p, "idle") \/ p \in Tickers,
         pc \in Recorded => proc[p].pc \in Copied,
         p \in Tickers => (proc[p].pc # "pick" /\ pc \notin {"pick", "running"} /\ (Works(p) => pc \in Copied)),
         proc[p].pc \in Copied => pc \in Copied, pc \in Copied => proc[p].pc \in Copied
  PROVE  CountInv'
<1>i. Inv /\ Inv' /\ RecordsOK /\ Counted
  BY DEF CountInv, StoreInv
<1>1. /\ proc'[p].pc = pc /\ proc'[p].op = proc[p].op /\ proc'[p].job = proc[p].job
      /\ proc'[p].rec = proc[p].rec /\ proc'[p].todo = proc[p].todo
      /\ \A q \in Procs \ {p} : proc'[q] = proc[q]
  BY <1>i, GotoIs
<1>2. Quiet(p)
  BY <1>1 DEF Quiet
<1>3. ASSUME p \in Clients PROVE EditOK(p)'
  BY <1>1, <1>i, <1>3 DEF RecordsOK, EditOK, Recorded, Copied, Ahead
<1>4. ASSUME p \in Tickers PROVE TodoOK(p)' /\ WorkOK(p)' /\ (Works(p)' <=> Works(p))
  <2>1. TodoOK(p) /\ WorkOK(p)
    BY <1>i, <1>4 DEF RecordsOK
  <2>2. Works(p)' <=> Works(p)
    BY <1>1, <1>4 DEF Works, Recorded, Copied
  <2>l. Works(p) => live' = live
    BY <2>1 DEF TodoOK, NoNews
  <2>3. TodoOK(p)'
    BY <1>1, <1>4, <2>1, <2>2, <2>l DEF TodoOK, Readable
  <2>4. WorkOK(p)'
    BY <1>1, <1>4, <2>1, <2>2, <2>l DEF WorkOK, Works, Ahead, Recorded, Copied
  <2> QED
    BY <2>2, <2>3, <2>4
<1>5. RecordsOK'
  <2>1. p \in Clients => p \notin Tickers
    BY CronAssumption
  <2> QED
    BY <1>i, <1>1, <1>2, <1>3, <1>4, <2>1, RecordsStay DEF At
<1>6. ASSUME NEW j \in Once PROVE Expected(j)' => Expected(j)
  <2>1. p \in Tickers =>
            /\ \A d \in proc'[p].todo : d.job = j => Expected(j)
            /\ (Works(p) /\ proc[p].job = j) => (Works(p)' /\ proc'[p].job = j)
                  \/ ~((Readable(live) /\ Due(live[j])) \/ \E c \in Clients : proc[c].pc \in Recorded)
    BY <1>1, <1>4 DEF Expected, Planned
  <2>2. p \in Clients =>
            ((proc'[p].pc \in Recorded /\ proc'[p].job = j /\ proc'[p].op # "trigger" /\ Due(proc[p].rec)')
               => /\ proc[p].pc \in Recorded /\ proc[p].job = j
                  /\ proc[p].op # "trigger" /\ Due(proc[p].rec))
    BY <1>1 DEF Due, Recorded, Copied
  <2> QED
    BY <1>i, <1>2, <2>1, <2>2, ExpectedStays
<1>7. Counted'
  <2>1. \A j \in Once : asked'[j] = asked[j] /\ asked[j] \in Nat /\ faults \in Nat
    BY <1>i, GhostTypes, CronAssumption
  <2> QED
    BY <1>i, <1>6, <2>1, CountStays
<1> QED
  BY <1>5, <1>7 DEF CountInv

LEMMA Parts == ASSUME CountInv, StoreInv' PROVE Inv /\ Inv' /\ RecordsOK /\ Counted /\ StoreInv
  BY DEF CountInv, StoreInv

\* Nobody asked for a run, and nobody expects one that was not expected.
LEMMA SameCount ==
  ASSUME CountInv, StoreInv', NEW p \in Procs, UNCHANGED <<clock, ran, asked, faults>>,
         \A j \in Once : Expected(j)' => Expected(j)
  PROVE  Counted'
<1>1. \A j \in Once : asked'[j] = asked[j] /\ asked[j] \in Nat /\ faults \in Nat
  BY Parts, GhostTypes, CronAssumption
<1> QED
  BY <1>1, Parts, CountStays

LEMMA OpenedCount ==
  ASSUME CountInv, StoreInv', NEW p \in Procs, Opened(p), proc[p].pc \in {"open", "init"},
         NoNews, UNCHANGED <<clock, told, ran, asked, faults>>
  PROVE  CountInv'
<1>i. Inv /\ Inv' /\ RecordsOK /\ Counted
  BY Parts
<1>1. /\ proc'[p].pc = AfterOpen(p) /\ proc'[p].op = proc[p].op /\ proc'[p].job = proc[p].job
      /\ proc'[p].rec = IF proc[p].op = "create" THEN NewJob(proc[p].job) ELSE NoJob
      /\ proc'[p].todo = proc[p].todo
      /\ \A q \in Procs \ {p} : proc'[q] = proc[q]
  BY <1>i, OpenedIs
<1>2. Quiet(p)
  BY <1>1 DEF Quiet
<1>3. ASSUME p \in Clients
      PROVE  EditOK(p)' /\ (proc'[p].pc \in Recorded => ~Due(proc[p].rec)')
  <2>1. p \notin Tickers /\ proc[p].job \in Jobs /\ clock' = clock
    BY <1>i, <1>3, Kinds DEF ClientRecs
  <2>2. CASE proc[p].op = "create"
    <3>1. proc'[p].rec = NewJob(proc[p].job)
      BY <1>1, <2>2
    <3>2. /\ NewJob(proc[p].job) \in Job /\ ~Due(NewJob(proc[p].job))
          /\ proc[p].job \in Once => Ahead(NewJob(proc[p].job))
          /\ proc[p].job \in Interval => NewJob(proc[p].job) \in OnGrid
      BY <1>i, <2>1, NewJobIs
    <3> QED
      BY <1>1, <2>1, <2>2, <3>1, <3>2 DEF EditOK, Due, Ahead
  <2>3. CASE proc[p].op # "create"
    BY <1>1, <2>1, <2>3 DEF EditOK, Due, Ahead, AfterOpen, Recorded, Copied
  <2> QED
    BY <2>2, <2>3
<1>4. ASSUME p \in Tickers PROVE TodoOK(p)' /\ WorkOK(p)' /\ ~Works(p) /\ proc[p].todo = {}
  <2>1. TodoOK(p)
    BY <1>i, <1>4 DEF RecordsOK
  <2>2. proc'[p].pc = "lock" /\ ~Works(p) /\ proc[p].todo = {}
    BY <1>1, <1>4, <2>1 DEF AfterOpen, TodoOK, Works, Recorded, Copied
  <2> QED
    BY <1>1, <2>2 DEF TodoOK, WorkOK, Works, Recorded, Copied
<1>5. RecordsOK'
  BY <1>i, <1>1, <1>2, <1>3, <1>4, RecordsStay
<1>6. \A j \in Once : Expected(j)' => Expected(j)
  BY <1>i, <1>1, <1>2, <1>3, <1>4, ExpectedStays
<1> QED
  BY <1>5, <1>6, SameCount DEF CountInv

LEMMA OpenCount == ASSUME Atomic, CountInv, StoreInv', NEW p \in Procs, Open(p) PROVE CountInv'
<1>1. CASE live = Absent /\ live' = Empty /\ Goto(p, "init")
  <2>1. NoNews
    BY <1>1 DEF NoNews, Readable
  <2> QED
    BY <1>1, <2>1, GotoCount DEF Open, ghosts, At, Recorded, Copied, Works
<1>2. CASE Opened(p) /\ live' = live
  BY <1>2, OpenedCount DEF Open, ghosts, At, NoNews
<1> QED
  BY <1>1, <1>2 DEF Open

LEMMA InitFileCount == ASSUME Atomic, CountInv, StoreInv', NEW p \in Procs, InitFile(p) PROVE CountInv'
<1>1. live = Empty /\ live' = [j \in Jobs |-> NoJob]
  BY Parts DEF InitFile, At, StoreInv, Holds, WriteFd, Overlay
<1>2. NoNews
  BY <1>1 DEF NoNews, Readable
<1> QED
  BY <1>2, OpenedCount DEF InitFile, ghosts, At

LEMMA TruncateCount == ASSUME CountInv, StoreInv', NEW p \in Procs, Truncate(p) PROVE CountInv'
  BY GotoCount DEF Truncate, ghosts, At, Recorded, Copied, NoNews

LEMMA FillCount == ASSUME Atomic, CountInv, StoreInv', NEW p \in Procs, Fill(p) PROVE CountInv'
<1>1. live' = live
  BY Parts DEF Fill, WriteFd, StoreInv, Holds, At
<1> QED
  BY <1>1, GotoCount DEF Fill, ghosts, At, Recorded, Copied, NoNews

LEMMA GetCount == ASSUME CountInv, StoreInv', NEW p \in Clients, Get(p) PROVE CountInv'
<1>i. Inv /\ Inv' /\ RecordsOK /\ Counted /\ p \in Procs /\ p \notin Tickers
  BY Parts, CronAssumption DEF Procs
<1>n. NoNews
  BY DEF NoNews, Get, files
<1>1. CASE Fail(p)
  BY <1>1, <1>i, <1>n, StopCount DEF Get, Fail, ghosts
<1>2. CASE ~Fail(p)
  <2> DEFINE r == Edited(proc[p].op, proc[p].job, live[proc[p].job])
             x == [proc[p] EXCEPT !.pc = "list", !.rec = r]
  <2>1. proc' = [proc EXCEPT ![p] = x] /\ Readable(live) /\ live[proc[p].job] # NoJob
    BY <1>2 DEF Get
  <2>r. r = Edited(proc[p].op, proc[p].job, live[proc[p].job])
    OBVIOUS
  <2> HIDE DEF r
  <2>2. x.pc = "list" /\ x.op = proc[p].op /\ x.job = proc[p].job /\ x.rec = r
    BY <1>i, RecForm
  <2> HIDE DEF x
  <2>3. proc'[p] = x /\ \A q \in Procs \ {p} : proc'[q] = proc[q]
    BY <1>i, <2>1, BecomesIs
  <2>4. proc[p].pc = "get" /\ proc[p] \in ClientRecs /\ proc[p].op \in {"pause", "resume", "trigger"}
    BY <1>i DEF Inv, ProcsOK, ClientOK, Get, At, Idle, ClientRecs, Edits
  <2>5. live[proc[p].job] \in Job /\ (proc[p].job \in Once => Ahead(live[proc[p].job]))
    <3>1. live \in Lists /\ proc[p].job \in Jobs
      BY <1>i, <2>1, <2>4, ReadableIs DEF ClientRecs
    <3> QED
      BY <1>i, <2>1, <3>1 DEF Lists, RecordsOK, LiveOK
  <2>6. /\ r \in Job /\ (proc[p].op # "trigger" => ~Due(r))
        /\ (proc[p].job \in Once => Ahead(r))
    BY <1>i, <2>4, <2>5, <2>r, EditedIs
  <2>q. Quiet(p)
    BY <1>n, <2>3 DEF Quiet, Get, ghosts
  <2>c. clock' = clock
    BY DEF Get
  <2>7. EditOK(p)'
    BY <2>2, <2>3, <2>4, <2>6, <2>c DEF EditOK, Ahead
  <2>8. proc'[p].op # "trigger" => ~Due(proc[p].rec)'
    BY <2>2, <2>3, <2>6, <2>c DEF Due
  <2>9. RecordsOK'
    BY <1>i, <2>2, <2>3, <2>4, <2>q, <2>7, RecordsStay
  <2>10. \A j \in Once : Expected(j)' => Expected(j)
    BY <1>i, <2>q, <2>8, ExpectedStays
  <2> QED
    BY <1>i, <2>9, <2>10, SameCount DEF CountInv, Get, ghosts
<1> QED
  BY <1>1, <1>2

\* A tick that holds the lock finds a list, and no client is in the store beside it.
LEMMA TickReads ==
  ASSUME CountInv, NEW t \in Tickers, Works(t)
  PROVE  Readable(live)
  BY DEF CountInv, RecordsOK, TodoOK

LEMMA ListCount == ASSUME Atomic, CountInv, StoreInv', NEW p \in Procs, List(p) PROVE CountInv'
<1>i. Inv /\ Inv' /\ RecordsOK /\ Counted /\ (p \in Clients => p \notin Tickers)
  BY Parts, CronAssumption
<1>n. NoNews /\ UNCHANGED <<clock, told, ran, asked, faults>> /\ proc[p].pc = "list"
  BY DEF NoNews, List, files, ghosts, At
<1>w. p \in Tickers => Works(p) /\ Readable(live) /\ proc[p].job \in Jobs
  BY <1>i, <1>n, TickReads DEF Works, Recorded, RecordsOK, WorkOK
<1>s. p \in Tickers => \A c \in Clients : proc[c].pc \notin Recorded
  BY <1>i DEF List, Turn, InStore, Recorded, Copied, Procs
<1>1. CASE Fail(p)
  <2>1. CASE p \in Tickers
    <3>1. ~Fail(p) \/ ~Readable(live)
      <4>1. CASE AfterWrite(p) /\ Fail(p)
        BY <1>i, <2>1, <4>1, NextIs, StopIs DEF Fail
      <4>2. CASE proc' = [proc EXCEPT ![p].pc = "trunc", ![p].buf = Changed(proc[p].op, proc[p].job, proc[p].rec, live)] /\ Fail(p)
        <5> DEFINE x == [proc[p] EXCEPT !.pc = "trunc", !.buf = Changed(proc[p].op, proc[p].job, proc[p].rec, live)]
        <5>1. proc' = [proc EXCEPT ![p] = x]
          BY <4>2
        <5>2. x.pc = "trunc"
          BY <1>i, RecForm
        <5> HIDE DEF x
        <5> QED
          BY <1>i, <4>2, <5>1, <5>2, BecomesIs, StopIs DEF Fail
      <4> QED
        BY <4>1, <4>2 DEF List
    <3> QED
      BY <1>w, <2>1, <3>1, <1>1
  <2>2. CASE p \notin Tickers
    BY <1>1, <1>n, <2>2, StopCount DEF Fail
  <2> QED
    BY <2>1, <2>2
<1>2. CASE AfterWrite(p) /\ Readable(live) /\ live[proc[p].job] = NoJob
  <2>1. CASE p \notin Tickers
    BY <1>2, <1>n, <2>1, StopCount DEF AfterWrite
  <2>2. CASE p \in Tickers
    <3>1. /\ proc'[p].pc = "pick" /\ proc'[p].todo = proc[p].todo /\ proc'[p].job = NoJob
          /\ \A q \in Procs \ {p} : proc'[q] = proc[q]
      BY <1>i, <1>2, <2>2, NextIs
    <3>2. Quiet(p) /\ live' = live
      BY <1>n, <3>1 DEF Quiet, List, files
    <3>3. TodoOK(p) /\ WorkOK(p)
      BY <1>i, <2>2 DEF RecordsOK
    <3>4. TodoOK(p)'
      BY <1>n, <3>1, <3>2, <3>3, <1>w, <2>2 DEF TodoOK, Works, Readable
    <3>5. WorkOK(p)'
      BY <3>1 DEF WorkOK, Works, Recorded, Copied
    <3>6. RecordsOK'
      BY <1>i, <2>2, <3>1, <3>2, <3>4, <3>5, RecordsStay
    <3>7. ASSUME NEW j \in Once PROVE Expected(j)' => Expected(j)
      <4>1. \A d \in proc'[p].todo : d.job = j => Expected(j)
        BY <2>2, <3>1 DEF Expected, Planned
      <4>2. proc[p].job = j => ~((Readable(live) /\ Due(live[j])) \/ \E c \in Clients : proc[c].pc \in Recorded)
        BY <1>2, <1>s, <2>2 DEF Due
      <4> QED
        BY <1>i, <2>2, <3>2, <4>1, <4>2, ExpectedStays
    <3> QED
      BY <1>n, <3>6, <3>7, SameCount DEF CountInv
  <2> QED
    BY <2>1, <2>2
<1>3. CASE /\ Readable(live) /\ (proc[p].op \in {"create", "remove"} \/ live[proc[p].job] # NoJob)
           /\ proc' = [proc EXCEPT ![p].pc = "trunc",
                                   ![p].buf = Changed(proc[p].op, proc[p].job, proc[p].rec, live)]
  <2> DEFINE buf == Changed(proc[p].op, proc[p].job, proc[p].rec, live)
             x == [proc[p] EXCEPT !.pc = "trunc", !.buf = buf]
  <2>1. proc' = [proc EXCEPT ![p] = x] /\ Readable(live) /\ live' = live
        /\ (proc[p].op \in {"create", "remove"} \/ live[proc[p].job] # NoJob)
    BY <1>3 DEF List, files
  <2>2. /\ x.pc = "trunc" /\ x.op = proc[p].op /\ x.job = proc[p].job /\ x.rec = proc[p].rec
        /\ x.todo = proc[p].todo
    BY <1>i, RecForm
  <2> HIDE DEF buf, x
  <2>3. proc'[p] = x /\ \A q \in Procs \ {p} : proc'[q] = proc[q]
    BY <1>i, <2>1, BecomesIs
  <2>4. Quiet(p)
    BY <1>n, <2>3 DEF Quiet
  <2>5. p \in Clients => EditOK(p)'
    BY <1>i, <1>n, <2>2, <2>3 DEF RecordsOK, EditOK, Recorded, Ahead
  <2>6. ASSUME p \in Tickers PROVE TodoOK(p)' /\ WorkOK(p)' /\ Works(p) /\ Works(p)'
    <3>1. TodoOK(p) /\ WorkOK(p)
      BY <1>i, <2>6 DEF RecordsOK
    <3>2. Works(p) /\ Works(p)'
      BY <1>n, <2>2, <2>3 DEF Works, Recorded, Copied
    <3>3. TodoOK(p)'
      BY <1>n, <2>1, <2>2, <2>3, <3>1, <3>2 DEF TodoOK, Readable
    <3>4. proc[p].op = "none"
      BY <1>i, <2>6, Kinds DEF TickerRecs
    <3>5. WorkOK(p)'
      BY <1>n, <2>1, <2>2, <2>3, <3>1, <3>2, <3>4 DEF WorkOK, Ahead, Recorded, Copied
    <3> QED
      BY <3>2, <3>3, <3>5
  <2>7. RecordsOK'
    BY <1>i, <1>n, <2>2, <2>3, <2>4, <2>5, <2>6, RecordsStay
  <2>8. ASSUME NEW j \in Once PROVE Expected(j)' => Expected(j)
    <3>1. ASSUME p \in Tickers
          PROVE  /\ \A d \in proc'[p].todo : d.job = j => Expected(j)
                 /\ (Works(p) /\ proc[p].job = j) => Works(p)' /\ proc'[p].job = j
      BY <2>2, <2>3, <2>6, <3>1 DEF Expected, Planned
    <3>2. Due(proc[p].rec)' => Due(proc[p].rec)
      BY <1>n, <2>2, <2>3 DEF Due
    <3>3. (proc'[p].pc \in Recorded /\ proc'[p].job = j /\ proc'[p].op # "trigger" /\ Due(proc[p].rec)')
               => /\ proc[p].pc \in Recorded /\ proc[p].job = j
                  /\ proc[p].op # "trigger" /\ Due(proc[p].rec)
      BY <1>n, <2>2, <2>3, <3>2 DEF Recorded
    <3> QED
      BY <1>i, <2>4, <3>1, <3>3, ExpectedStays
  <2> QED
    BY <1>n, <2>7, <2>8, SameCount DEF CountInv
<1> QED
  BY <1>1, <1>2, <1>3 DEF List

LEMMA RenameCount == ASSUME Atomic, CountInv, StoreInv', NEW p \in Procs, Rename(p) PROVE CountInv'
<1> DEFINE job == proc[p].job
           op == proc[p].op
           rec == proc[p].rec
<1>i. /\ Inv /\ Inv' /\ StoreInv /\ (p \in Clients => p \notin Tickers) /\ proc[p].pc = "rename"
      /\ LiveOK /\ CreatesOK /\ (p \in Clients => EditOK(p)) /\ (p \in Tickers => TodoOK(p) /\ WorkOK(p))
      /\ UNCHANGED <<clock, ran, faults>>
  BY Parts, CronAssumption DEF RecordsOK, Rename, At
<1>1. live \in Lists /\ live' \in Lists /\ AfterWrite(p) /\ UNCHANGED lock
      /\ live' = Changed(op, job, rec, live) /\ tmp # Absent
  BY <1>i, RenameIs
<1>2. \A i \in Jobs : live'[i] = IF i # job THEN live[i] ELSE IF op = "remove" THEN NoJob ELSE rec
  BY <1>i, <1>1, ProcTypes, ChangedIs
<1>3. /\ told' = IF p \in Clients THEN [told EXCEPT ![job] = op] ELSE told
      /\ asked' = IF op = "trigger" THEN [asked EXCEPT ![job] = @ + 1] ELSE asked
  <2>1. ~(tmp = Absent)
    BY <1>1
  <2> QED
    BY <2>1 DEF Rename
<1>4. /\ \A q \in Procs \ {p} : proc'[q] = proc[q] /\ ~InStore(q)
      /\ proc'[p].todo \in {{}, proc[p].todo} /\ (p \in Tickers => proc'[p].todo = proc[p].todo)
      /\ proc'[p].job = NoJob
      /\ p \in Clients => proc'[p].pc = "idle"
      /\ p \in Tickers => proc'[p].pc = "pick"
  <2>1. \A q \in Procs \ {p} : ~InStore(q)
    BY <1>i DEF StoreInv, Sole, InStore
  <2>2. CASE p \in Tickers
    BY <1>i, <1>1, <2>1, <2>2, NextIs
  <2>3. CASE p \notin Tickers
    <3>1. Stop(p)
      BY <1>1, <2>3 DEF AfterWrite
    <3> QED
      BY <1>i, <2>1, <2>3, <3>1, StopIs
  <2> QED
    BY <2>2, <2>3
<1>t. /\ told \in [Jobs -> Edits \cup {"none"}] /\ clock \in Nat
      /\ p \in Clients => job \in Jobs /\ op \in Edits
      /\ p \in Tickers => job \in Jobs /\ op = "none" /\ rec \in Job /\ live[job] # NoJob
  <2>1. p \in Tickers => Works(p) /\ proc[p].pc \in Copied
    BY <1>i DEF Works, Recorded, Copied
  <2>2. p \in Tickers => job \in Jobs /\ rec \in Job /\ live[job] # NoJob
    BY <1>i, <2>1 DEF WorkOK
  <2> QED
    BY <1>i, <2>2, Kinds, CronAssumption DEF Inv, GhostsOK, ClientRecs, TickerRecs
<1>5. \A j \in Jobs : told'[j] = IF p \in Clients /\ j = job THEN op ELSE told[j]
  BY <1>3, <1>t
<1> HIDE DEF job, op, rec
<1>e. /\ p \in Clients => /\ op # "remove" => rec \in Job
                          /\ job \in Once => Ahead(rec)
                          /\ (op = "create" /\ job \in Interval) => rec \in OnGrid
      /\ p \in Tickers => /\ (job \in Interval /\ told[job] = "create") => rec \in OnGrid
                          /\ job \in Once => ~rec.enabled /\ Ahead(rec)
  <2>1. p \in Clients => EditOK(p) /\ proc[p].pc \in Recorded
    BY <1>i DEF Recorded, Copied
  <2>2. p \in Tickers => WorkOK(p) /\ proc[p].pc \in Recorded /\ Works(p)
    BY <1>i DEF Recorded, Copied, Works
  <2> QED
    BY <2>1, <2>2 DEF EditOK, WorkOK, job, op, rec
<1>c. (p \in Clients /\ op = "create") => told[job] = "none"
  BY <1>i DEF CreatesOK, op, job
<1>6. LiveOK'
  <2>0. Readable(live) /\ Readable(live') /\ p \in Clients \cup Tickers
    BY <1>i, <1>1, ContentAssumption DEF Readable, Procs
  <2>1. ASSUME NEW j \in Jobs PROVE told'[j] \in {"none", "remove"} <=> live'[j] = NoJob
    <3>1. told[j] \in {"none", "remove"} <=> live[j] = NoJob
      BY <1>i, <2>0 DEF LiveOK
    <3>2. CASE j # job
      BY <1>2, <1>5, <3>1, <3>2
    <3>3. CASE j = job /\ p \in Clients
      BY <1>2, <1>5, <1>t, <1>e, <3>3, ContentAssumption DEF Edits
    <3>4. CASE j = job /\ p \in Tickers
      BY <1>i, <1>2, <1>5, <1>t, <3>1, <3>4, ContentAssumption
    <3> QED
      BY <2>0, <3>2, <3>3, <3>4
  <2>2. ASSUME NEW j \in Interval, told'[j] = "create" PROVE live'[j] \in OnGrid
    <3>0. j \in Jobs
      BY CronAssumption
    <3>1. told[j] = "create" => live[j] \in OnGrid
      BY <1>i, <2>0 DEF LiveOK
    <3>2. CASE j # job
      BY <1>2, <1>5, <2>2, <3>0, <3>1, <3>2
    <3>3. CASE j = job /\ p \in Clients
      BY <1>2, <1>5, <1>e, <2>2, <3>0, <3>3
    <3>4. CASE j = job /\ p \in Tickers
      BY <1>i, <1>2, <1>5, <1>t, <1>e, <2>2, <3>0, <3>4
    <3> QED
      BY <2>0, <3>2, <3>3, <3>4
  <2>3. ASSUME NEW j \in Once PROVE Ahead(live[j])'
    <3>0. j \in Jobs /\ clock' = clock
      BY <1>i, CronAssumption
    <3>1. Ahead(live[j])
      BY <1>i, <2>0 DEF LiveOK
    <3>2. Ahead(live'[j])
      BY <1>2, <1>e, <1>t, <2>0, <3>0, <3>1 DEF Ahead
    <3> QED
      BY <3>0, <3>2 DEF Ahead
  <2> QED
    BY <2>0, <2>1, <2>2, <2>3 DEF LiveOK, Readable
<1>7. CreatesOK'
  <2> SUFFICES ASSUME NEW c \in Clients, proc'[c].pc # "idle", proc'[c].op = "create"
               PROVE  /\ told'[proc'[c].job] = "none"
                      /\ \A q \in Clients \ {c} : proc'[q].pc # "idle" => proc'[q].job # proc'[c].job
    BY DEF CreatesOK
  <2>1. c # p /\ proc'[c] = proc[c] /\ proc[c].job \in Jobs
    BY <1>i, <1>4, Kinds DEF Procs, ClientRecs
  <2>2. /\ told[proc[c].job] = "none"
        /\ \A q \in Clients \ {c} : proc[q].pc # "idle" => proc[q].job # proc[c].job
    BY <1>i, <2>1 DEF CreatesOK
  <2>3. p \in Clients => job # proc[c].job
    BY <1>i, <2>1, <2>2 DEF job
  <2>4. \A q \in Clients : proc'[q].pc # "idle" => proc'[q] = proc[q]
    BY <1>4 DEF Procs
  <2> QED
    BY <1>5, <2>1, <2>2, <2>3, <2>4
<1>8. ASSUME NEW c \in Clients PROVE EditOK(c)' /\ proc'[c].pc \notin Recorded
  BY <1>4 DEF EditOK, Recorded, Copied, InStore, Procs
<1>9. ASSUME NEW t \in Tickers PROVE TodoOK(t)' /\ WorkOK(t)'
  <2>1. TodoOK(t) /\ Readable(live') /\ proc'[t].todo = proc[t].todo /\ proc[t].todo \in Todo
    BY <1>i, <1>1, <1>4, Parts, ProcTypes, ContentAssumption DEF RecordsOK, Readable, Procs
  <2>2. \A d \in proc[t].todo : told'[d.job] # "none" /\
            ((d.job \in Interval /\ told'[d.job] = "create") => d.rec \in OnGrid)
    BY <1>5, <1>c, <1>t, <2>1 DEF TodoOK, Todo, Edits
  <2>3. CASE t = p
    BY <1>4, <2>1, <2>2, <2>3 DEF TodoOK, WorkOK, Works, Recorded, Copied, Readable
  <2>4. CASE t # p
    <3>1. proc'[t] = proc[t] /\ proc[t].pc \notin Copied
      BY <1>4, <2>4 DEF InStore, Copied, Procs
    <3>2. TodoOK(t)'
      BY <2>1, <2>2, <3>1 DEF TodoOK, Works, Readable
    <3>3. WorkOK(t)
      BY Parts DEF RecordsOK
    <3>4. WorkOK(t)'
      BY <1>i, <1>5, <1>c, <1>t, <3>1, <3>3 DEF WorkOK, Works, Ahead, Edits
    <3> QED
      BY <3>2, <3>4
  <2> QED
    BY <2>3, <2>4
<1>10. RecordsOK'
  BY <1>6, <1>7, <1>8, <1>9 DEF RecordsOK
<1>11. ASSUME NEW j \in Once, Expected(j)' PROVE Expected(j) \/ (asked'[j] = asked[j] + 1)
  <2>0. j \in Jobs
    BY CronAssumption
  <2>1. CASE Planned(j)'
    <3>1. \A t \in Tickers : proc'[t].todo = proc[t].todo
      BY <1>4 DEF Procs
    <3> QED
      BY <2>1, <3>1 DEF Planned, Expected
  <2>2. CASE ~WorkedOn(j)' /\ Due(live[j])'
    <3>0. Due(live'[j]) /\ Readable(live)
      BY <1>i, <1>1, <2>2, ContentAssumption DEF Due, Readable
    <3>1. ASSUME NEW t \in Tickers, t # p \/ p \in Clients PROVE ~(Works(t) /\ proc[t].job = j)
      BY <1>i, <1>4, <2>2, <3>1 DEF WorkedOn, Works, Procs
    <3>2. CASE j # job
      <4>1. ~WorkedOn(j)
        BY <3>1, <3>2 DEF WorkedOn, job
      <4> QED
        BY <1>2, <2>0, <3>0, <3>2, <4>1 DEF Expected
    <3>3. CASE j = job /\ p \in Clients /\ op = "trigger"
      <4>1. asked \in [Jobs -> Nat]
        BY <1>i DEF Inv, GhostsOK
      <4> QED
        BY <1>3, <2>0, <3>3, <4>1 DEF job, op
    <3>4. CASE j = job /\ p \in Clients /\ op # "trigger"
      <4>1. ~WorkedOn(j)
        BY <3>1, <3>4 DEF WorkedOn
      <4>2. Due(rec)
        BY <1>2, <2>0, <3>0, <3>4 DEF Due
      <4>3. proc[p].pc \in Recorded
        BY <1>i DEF Recorded, Copied
      <4> QED
        BY <3>4, <4>1, <4>2, <4>3 DEF Expected, job, op, rec
    <3>5. CASE j = job /\ p \in Tickers
      BY <1>i, <1>2, <1>e, <1>t, <2>0, <3>0, <3>5 DEF Due
    <3> QED
      BY <3>2, <3>3, <3>4, <3>5 DEF Procs
  <2> QED
    BY <2>1, <2>2, <1>8, <1>11 DEF Expected
<1>12. Counted'
  <2>1. asked \in [Jobs -> Nat] /\ faults \in Nat
    BY <1>i, GhostTypes DEF Inv, GhostsOK
  <2>2. \A j \in Once : asked'[j] \in {asked[j], asked[j] + 1} /\ asked[j] \in Nat
    BY <1>3, <2>1, CronAssumption
  <2> QED
    BY <1>i, <1>11, <2>1, <2>2, Parts, CountStays
<1> QED
  BY <1>10, <1>12 DEF CountInv

LEMMA CallCount == ASSUME CountInv, StoreInv', NEW c \in Clients, Call(c) PROVE CountInv'
<1>i. Inv /\ Inv' /\ RecordsOK /\ Counted /\ c \in Procs /\ c \notin Tickers
  BY Parts, CronAssumption DEF Procs
<1>1. PICK op \in Edits, j \in Jobs :
        /\ op = "create" => told[j] = "none" /\ \A q \in Clients : proc[q].job # j
        /\ op # "create" => told[j] # "none"
        /\ proc' = [proc EXCEPT ![c] = [Idle EXCEPT !.pc = "open", !.op = op, !.job = j]]
  BY DEF Call
<1> DEFINE x == [Idle EXCEPT !.pc = "open", !.op = op, !.job = j]
<1>2. x.pc = "open" /\ x.op = op /\ x.job = j
  BY DEF Idle
<1> HIDE DEF x
<1>3. proc'[c] = x /\ \A q \in Procs \ {c} : proc'[q] = proc[q]
  BY <1>i, <1>1, BecomesIs DEF x
<1>4. Quiet(c)
  BY <1>3 DEF Quiet, NoNews, Call, files
<1>5. EditOK(c)' /\ proc'[c].pc \notin Recorded
  BY <1>2, <1>3 DEF EditOK, Recorded, Copied
<1>6. CreatesOK'
  <2> SUFFICES ASSUME NEW a \in Clients, proc'[a].pc # "idle", proc'[a].op = "create",
                      NEW b \in Clients, b # a, proc'[b].pc # "idle"
               PROVE  told[proc'[a].job] = "none" /\ proc'[b].job # proc'[a].job
    <3>1. told' = told
      BY <1>4 DEF Quiet
    <3>2. ASSUME NEW a \in Clients, proc'[a].pc # "idle", proc'[a].op = "create"
          PROVE  told[proc'[a].job] = "none"
      BY <1>i, <1>1, <1>2, <1>3, <3>2 DEF RecordsOK, CreatesOK, Procs
    <3> QED
      BY <3>1, <3>2 DEF CreatesOK
  <2>1. CASE a = c
    BY <1>1, <1>2, <1>3, <2>1 DEF Procs
  <2>2. CASE a # c
    <3>1. proc'[a] = proc[a] /\ told[proc[a].job] = "none"
          /\ \A q \in Clients \ {a} : proc[q].pc # "idle" => proc[q].job # proc[a].job
      BY <1>i, <1>3, <2>2 DEF RecordsOK, CreatesOK, Procs
    <3>2. CASE b = c
      BY <1>1, <1>2, <1>3, <3>1, <3>2
    <3>3. CASE b # c
      BY <1>3, <3>1, <3>3 DEF Procs
    <3> QED
      BY <3>1, <3>2, <3>3
  <2> QED
    BY <2>1, <2>2
<1>7. RecordsOK'
  BY <1>i, <1>4, <1>5, <1>6, OthersStay DEF RecordsOK
<1>8. \A k \in Once : Expected(k)' => Expected(k)
  BY <1>i, <1>4, <1>5, ExpectedStays
<1> QED
  BY <1>i, <1>7, <1>8, SameCount DEF CountInv, Call

LEMMA SnapshotCount == ASSUME CountInv, StoreInv', NEW t \in Tickers, Snapshot(t) PROVE CountInv'
<1>i. Inv /\ Inv' /\ RecordsOK /\ Counted /\ t \in Procs /\ t \notin Clients /\ TodoOK(t)
  BY Parts, CronAssumption DEF Procs, RecordsOK
<1>n. NoNews /\ UNCHANGED <<clock, told, ran, asked, faults>> /\ proc[t].pc = "snapshot" /\ live' = live
  BY DEF NoNews, Snapshot, files, ghosts, At
<1>1. CASE Fail(t)
  BY <1>1, <1>i, <1>n, StopCount DEF Fail, Works, Recorded, Copied
<1> DEFINE todo == {[job |-> j, rec |-> live[j]] : j \in {i \in Jobs : Due(live[i])}}
           x == [proc[t] EXCEPT !.pc = "pick", !.todo = todo]
<1>2. CASE Readable(live) /\ proc' = [proc EXCEPT ![t] = x]
  <2>1. x.pc = "pick" /\ x.todo = todo
    BY <1>i, RecForm
  <2>2. /\ \A d, e \in todo : d.job = e.job => d = e
        /\ \A d \in todo : d.job \in Jobs /\ d.rec = live[d.job] /\ Due(live[d.job])
    OBVIOUS
  <2> HIDE DEF todo, x
  <2>3. proc'[t] = x /\ \A q \in Procs \ {t} : proc'[q] = proc[q]
    BY <1>i, <1>2, BecomesIs
  <2>4. Quiet(t)
    BY <1>n, <2>3 DEF Quiet
  <2>5. \A d \in todo : told[d.job] # "none" /\ ((d.job \in Interval /\ told[d.job] = "create") => d.rec \in OnGrid)
    BY <1>i, <1>2, <2>2 DEF RecordsOK, LiveOK, Due
  <2>6. TodoOK(t)' /\ WorkOK(t)'
    BY <1>n, <1>2, <2>1, <2>2, <2>3, <2>5 DEF TodoOK, WorkOK, Works, Recorded, Copied, Readable
  <2>7. RecordsOK'
    BY <1>i, <2>4, <2>6, RecordsStay
  <2>8. ASSUME NEW j \in Once PROVE Expected(j)' => Expected(j)
    <3>1. ASSUME NEW d \in proc'[t].todo, d.job = j PROVE Expected(j)
      <4>1. Due(live[j])
        BY <2>1, <2>2, <2>3, <3>1
      <4>2. CASE WorkedOn(j)
        <5>1. PICK u \in Tickers : Works(u) /\ proc[u].job = j
          BY <4>2 DEF WorkedOn
        <5>2. proc[u].pc \in Locked /\ proc[t].pc \in Locked
          BY <1>n, <5>1 DEF Works, Locked, Recorded, Copied
        <5> QED
          BY <1>i, <1>n, <5>1, <5>2, Kinds DEF Works, Recorded, Copied
      <4> QED
        BY <1>2, <4>1, <4>2 DEF Expected
    <3>2. ~Works(t)
      BY <1>n DEF Works, Recorded, Copied
    <3> QED
      BY <1>i, <2>4, <3>1, <3>2, ExpectedStays
  <2> QED
    BY <1>i, <1>n, <2>7, <2>8, SameCount DEF CountInv
<1> QED
  BY <1>1, <1>2 DEF Snapshot

LEMMA RunJobCount == ASSUME CountInv, StoreInv', NEW t \in Tickers, RunJob(t) PROVE CountInv'
<1>i. Inv /\ Inv' /\ RecordsOK /\ Counted /\ t \in Procs /\ t \notin Clients /\ TodoOK(t) /\ proc[t].todo \in Todo
  BY Parts, ProcTypes, CronAssumption DEF Procs, RecordsOK
<1>n. UNCHANGED <<live, clock, told, asked, faults>> /\ proc[t].pc = "pick"
  BY DEF RunJob, files, At
<1>1. PICK d \in proc[t].todo :
        /\ proc' = [proc EXCEPT ![t].pc = "running", ![t].job = d.job, ![t].rec = d.rec,
                                ![t].todo = @ \ {d}]
        /\ ran' = [ran EXCEPT ![d.job] = IF @ < MaxRuns THEN @ + 1 ELSE @]
  BY DEF RunJob
<1> DEFINE x == [proc[t] EXCEPT !.pc = "running", !.job = d.job, !.rec = d.rec, !.todo = @ \ {d}]
<1>2. x.pc = "running" /\ x.job = d.job /\ x.rec = d.rec /\ x.todo = proc[t].todo \ {d}
  BY <1>i, RecForm
<1>3. proc' = [proc EXCEPT ![t] = x]
  BY <1>1
<1> HIDE DEF x
<1>4. proc'[t] = x /\ \A q \in Procs \ {t} : proc'[q] = proc[q]
  BY <1>i, <1>3, BecomesIs
<1>5. Quiet(t)
  BY <1>n, <1>4 DEF Quiet, NoNews
<1>6. d.job \in Jobs /\ d.rec \in Job /\ \A e \in proc[t].todo : e # d => e.job # d.job
  BY <1>i, <1>1 DEF Todo, TodoOK
<1>7. TodoOK(t)' /\ WorkOK(t)'
  BY <1>i, <1>n, <1>2, <1>4, <1>6 DEF TodoOK, WorkOK, Works, Recorded, Copied, Readable
<1>8. RecordsOK'
  BY <1>i, <1>5, <1>7, RecordsStay
<1>9. ASSUME NEW j \in Once PROVE Expected(j)' => Expected(j)
  <2>1. ~Works(t)
    BY <1>n DEF Works, Recorded, Copied
  <2>2. \A e \in proc'[t].todo : e.job = j => Expected(j)
    BY <1>2, <1>4 DEF Expected, Planned
  <2> QED
    BY <1>i, <1>5, <2>1, <2>2, ExpectedStays
<1>10. ~Expected(d.job)'
  <2>1. WorkedOn(d.job)'
    BY <1>2, <1>4 DEF WorkedOn, Works
  <2>2. ASSUME NEW u \in Tickers, NEW e \in proc'[u].todo PROVE e.job # d.job
    <3>1. CASE u = t
      BY <1>2, <1>4, <1>6, <2>2, <3>1
    <3>2. CASE u # t
      <4>1. proc'[u] = proc[u] /\ proc[u].todo # {}
        BY <1>4, <2>2, <3>2 DEF Procs
      <4>2. proc[u].pc = "pick" \/ Works(u)
        BY <1>i, <4>1 DEF RecordsOK, TodoOK
      <4>3. proc[u].pc \in Locked /\ proc[t].pc \in Locked
        BY <1>n, <4>2 DEF Works, Locked, Recorded, Copied
      <4> QED
        BY <1>i, <3>2, <4>3, Kinds
    <3> QED
      BY <3>1, <3>2
  <2> QED
    BY <2>1, <2>2 DEF Expected, Planned
<1>11. Expected(d.job)
  BY DEF Expected, Planned
<1>12. Counted'
  <2> SUFFICES ASSUME NEW j \in Once
               PROVE  /\ ran'[j] + Spare' <= 1 + asked'[j] + faults'
                      /\ Expected(j)' => ran'[j] + Spare' <= asked'[j] + faults'
    BY DEF Counted
  <2>1. ran \in [Jobs -> 0..MaxRuns] /\ asked[j] \in Nat /\ faults \in Nat /\ Spare \in {0, 1} /\ j \in Jobs /\ MaxRuns \in Nat
    BY <1>i, CronAssumption DEF Inv, GhostsOK, Spare
  <2>2. Spare' = Spare /\ asked'[j] = asked[j] /\ faults' = faults
    BY <1>n DEF Spare
  <2>3. /\ ran[j] + Spare <= 1 + asked[j] + faults
        /\ Expected(j) => ran[j] + Spare <= asked[j] + faults
    BY <1>i DEF Counted
  <2>4. CASE j = d.job
    <3>1. ran'[j] <= ran[j] + 1 /\ ran'[j] \in Nat /\ ran[j] \in Nat
      BY <1>1, <2>1, <2>4
    <3>2. ~Expected(j)' /\ Expected(j)
      BY <1>10, <1>11, <2>4
    <3> QED
      BY <2>1, <2>2, <2>3, <3>1, <3>2
  <2>5. CASE j # d.job
    <3>1. ran'[j] = ran[j]
      BY <1>1, <2>1, <2>5
    <3> QED
      BY <1>9, <2>2, <2>3, <3>1
  <2> QED
    BY <2>4, <2>5
<1> QED
  BY <1>8, <1>12 DEF CountInv

LEMMA JobDoneCount == ASSUME CountInv, StoreInv', NEW t \in Tickers, JobDone(t) PROVE CountInv'
<1>i. Inv /\ Inv' /\ RecordsOK /\ Counted /\ t \in Procs /\ t \notin Clients /\ TodoOK(t) /\ WorkOK(t)
  BY Parts, CronAssumption DEF Procs, RecordsOK
<1>n. UNCHANGED <<live, clock, told, ran, asked, faults>> /\ proc[t].pc = "running"
  BY DEF JobDone, files, ghosts, At
<1>r. proc[t].rec \in Job /\ Due(proc[t].rec)
  BY <1>i, <1>n DEF Inv, ProcsOK, TickerOK, TickerRecs, Due
<1> DEFINE done == Completed(proc[t].job, proc[t].rec)
           x == [proc[t] EXCEPT !.pc = "list", !.rec = done]
<1>1. proc' = [proc EXCEPT ![t] = x]
  BY DEF JobDone
<1>d. /\ done \in Job
      /\ proc[t].job \in Once => ~done.enabled /\ Ahead(done)
      /\ (proc[t].job \in Interval /\ proc[t].rec \in OnGrid) => done \in OnGrid
  BY <1>i, <1>r, CompletedIs
<1> HIDE DEF done
<1>2. x.pc = "list" /\ x.job = proc[t].job /\ x.rec = done /\ x.todo = proc[t].todo
  BY <1>i, RecForm
<1> HIDE DEF x
<1>4. proc'[t] = x /\ \A q \in Procs \ {t} : proc'[q] = proc[q]
  BY <1>i, <1>1, BecomesIs
<1>5. Quiet(t)
  BY <1>n, <1>4 DEF Quiet, NoNews
<1>6. Works(t) /\ Works(t)'
  BY <1>n, <1>2, <1>4 DEF Works, Recorded
<1>7. TodoOK(t)'
  BY <1>i, <1>n, <1>2, <1>4, <1>6 DEF TodoOK, Readable
<1>8. WorkOK(t)'
  BY <1>i, <1>n, <1>2, <1>4, <1>6, <1>d DEF WorkOK, Ahead, Copied
<1>9. RecordsOK'
  BY <1>i, <1>5, <1>7, <1>8, RecordsStay
<1>10. ASSUME NEW j \in Once PROVE Expected(j)' => Expected(j)
  <2>1. \A e \in proc'[t].todo : e.job = j => Expected(j)
    BY <1>2, <1>4 DEF Expected, Planned
  <2>2. proc[t].job = j => proc'[t].job = j
    BY <1>2, <1>4
  <2> QED
    BY <1>i, <1>5, <1>6, <2>1, <2>2, ExpectedStays
<1> QED
  BY <1>i, <1>n, <1>9, <1>10, SameCount DEF CountInv

LEMMA TickCount ==
  ASSUME CountInv, StoreInv', NEW t \in Tickers, Tick(t) \/ TryLock(t) \/ TickEnds(t) \/ SaveFails(t)
  PROVE  CountInv'
<1>i. t \in Procs /\ Inv /\ UNCHANGED live /\ NoNews
  BY Parts DEF Procs, NoNews, Tick, TryLock, TickEnds, SaveFails, files
<1>1. CASE Tick(t)
  BY <1>i, <1>1, GotoCount DEF Tick, ghosts, At, Recorded, Copied, Works
<1>2. CASE TryLock(t)
  <2>1. CASE Goto(t, "snapshot")
    BY <1>i, <1>2, <2>1, GotoCount DEF TryLock, ghosts, At, Recorded, Copied, Works
  <2>2. CASE Stop(t)
    BY <1>i, <1>2, <2>2, StopCount DEF TryLock, ghosts, At, Works, Recorded, Copied
  <2> QED
    BY <1>2, <2>1, <2>2 DEF TryLock
<1>3. CASE TickEnds(t)
  BY <1>i, <1>3, StopCount DEF TickEnds, ghosts, At, Works, Recorded, Copied
<1>4. CASE SaveFails(t)
  BY <1>i, <1>4, StopCount DEF SaveFails, Fail, Fault
<1> QED
  BY <1>1, <1>2, <1>3, <1>4

LEMMA DieCount == ASSUME CountInv, StoreInv', NEW p \in Procs, Die(p) PROVE CountInv'
  BY StopCount DEF Die, Fail, Fault, NoNews

LEMMA AdvanceCount == ASSUME CountInv, StoreInv', Advance PROVE CountInv'
<1>i. Inv /\ Inv' /\ RecordsOK /\ Counted /\ clock' = clock + 1 /\ clock \in Nat
      /\ UNCHANGED <<live, proc, told, ran, asked, faults>>
  BY Parts, CronAssumption DEF Advance, files, ghosts, Inv, GhostsOK
<1>1. ASSUME NEW rec \in Job \cup {NoJob}, Ahead(rec) PROVE Ahead(rec)'
  BY <1>i, <1>1, CronAssumption DEF Ahead, Job, Times
<1>2. ASSUME NEW rec \in Job \cup {NoJob}, Ahead(rec), Due(rec)', ~Due(rec) PROVE RunAt = clock + 1
  BY <1>i, <1>2, CronAssumption DEF Ahead, Due, Job, Times
<1>l. Readable(live) => \A j \in Jobs : live[j] \in Job \cup {NoJob}
  BY <1>i, ReadableIs DEF Lists
<1>p. \A q \in Procs : proc[q].rec \in Job \cup {NoJob}
  BY <1>i, ProcTypes
<1>3. LiveOK'
  <2>1. LiveOK
    BY <1>i DEF RecordsOK
  <2>2. ASSUME Readable(live), NEW j \in Once PROVE Ahead(live[j])'
    <3>1. Ahead(live[j]) /\ live[j] \in Job \cup {NoJob}
      BY <1>l, <2>1, <2>2, CronAssumption DEF LiveOK
    <3>2. PICK r \in Job \cup {NoJob} : r = live[j]
      BY <3>1
    <3>3. Ahead(r)'
      BY <1>1, <3>1, <3>2
    <3> QED
      BY <1>i, <3>2, <3>3 DEF Ahead
  <2> QED
    BY <1>i, <2>1, <2>2 DEF LiveOK, Readable
<1>4. ASSUME NEW q \in Procs, Ahead(proc[q].rec) PROVE Ahead(proc[q].rec)'
  <2>1. PICK r \in Job \cup {NoJob} : r = proc[q].rec
    BY <1>p
  <2>2. Ahead(r)'
    BY <1>1, <1>4, <2>1
  <2> QED
    BY <1>i, <2>1, <2>2 DEF Ahead
<1>5. RecordsOK'
  <2>1. CreatesOK'
    BY <1>i DEF RecordsOK, CreatesOK
  <2>2. ASSUME NEW c \in Clients PROVE EditOK(c)'
    <3>1. EditOK(c) /\ (Ahead(proc[c].rec) => Ahead(proc[c].rec)') /\ UNCHANGED proc
      BY <1>i, <1>4 DEF RecordsOK, Procs
    <3> QED
      BY <3>1 DEF EditOK, Recorded
  <2>3. ASSUME NEW t \in Tickers PROVE TodoOK(t)' /\ WorkOK(t)'
    <3>1. TodoOK(t) /\ WorkOK(t) /\ (Ahead(proc[t].rec) => Ahead(proc[t].rec)')
      BY <1>i, <1>4 DEF RecordsOK, Procs
    <3>2. TodoOK(t)'
      BY <1>i, <3>1 DEF TodoOK, Works, Readable
    <3>3. WorkOK(t)'
      BY <1>i, <3>1 DEF WorkOK, Works
    <3> QED
      BY <3>2, <3>3
  <2> QED
    BY <1>3, <2>1, <2>2, <2>3 DEF RecordsOK
<1>6. ASSUME NEW j \in Once, Expected(j)', ~Expected(j) PROVE RunAt = clock + 1
  <2>0. j \in Jobs
    BY CronAssumption
  <2>1. ~Planned(j)' /\ ~Planned(j)
    BY <1>i, <1>6 DEF Expected, Planned
  <2>2. ~WorkedOn(j)' /\ ~WorkedOn(j)
    BY <1>i, <1>6, <2>1 DEF Expected, WorkedOn, Works
  <2>3. CASE Readable(live)' /\ Due(live[j])'
    <3>1. Readable(live) /\ Ahead(live[j]) /\ ~Due(live[j])
      BY <1>i, <1>6, <2>1, <2>2, <2>3 DEF Expected, RecordsOK, LiveOK, Readable
    <3>2. PICK r \in Job \cup {NoJob} : r = live[j]
      BY <1>l, <2>0, <3>1
    <3>3. Due(r)'
      BY <1>i, <2>3, <3>2 DEF Due
    <3> QED
      BY <1>2, <3>1, <3>2, <3>3
  <2>4. ASSUME NEW c \in Clients, proc'[c].pc \in Recorded, proc'[c].job = j, proc'[c].op # "trigger",
               Due(proc[c].rec)'
        PROVE  RunAt = clock + 1
    <3>1. Ahead(proc[c].rec) /\ ~Due(proc[c].rec)
      BY <1>i, <1>6, <2>1, <2>2, <2>4 DEF Expected, RecordsOK, EditOK
    <3>2. PICK r \in Job \cup {NoJob} : r = proc[c].rec
      BY <1>p DEF Procs
    <3>3. Due(r)'
      BY <1>i, <2>4, <3>2 DEF Due
    <3> QED
      BY <1>2, <3>1, <3>2, <3>3
  <2> QED
    BY <1>6, <2>1, <2>3, <2>4 DEF Expected
<1>7. Counted'
  <2> SUFFICES ASSUME NEW j \in Once
               PROVE  /\ ran'[j] + Spare' <= 1 + asked'[j] + faults'
                      /\ Expected(j)' => ran'[j] + Spare' <= asked'[j] + faults'
    BY DEF Counted
  <2>1. ran[j] \in Nat /\ asked[j] \in Nat /\ faults \in Nat /\ RunAt \in Nat
    BY <1>i, CronAssumption DEF Inv, GhostsOK
  <2>2. Spare' \in {0, 1} /\ Spare \in {0, 1} /\ Spare' <= Spare /\ (RunAt = clock + 1 => Spare = 1 /\ Spare' = 0)
    BY <1>i, <2>1 DEF Spare
  <2>3. /\ ran[j] + Spare <= 1 + asked[j] + faults
        /\ Expected(j) => ran[j] + Spare <= asked[j] + faults
    BY <1>i DEF Counted
  <2>4. Expected(j)' => Expected(j) \/ RunAt = clock + 1
    BY <1>6
  <2> QED
    BY <1>i, <2>1, <2>2, <2>3, <2>4
<1> QED
  BY <1>5, <1>7 DEF CountInv

LEMMA CountInit == Init => RecordsOK /\ Counted
<1> SUFFICES ASSUME Init PROVE RecordsOK /\ Counted
  OBVIOUS
<1>1. Inv /\ clock = 0 /\ faults = 0
  BY InitInv DEF Init
<1>2. \A p \in Procs : proc[p].pc = "idle" /\ proc[p].todo = {}
  BY DEF Init, Idle
<1>3. ASSUME Readable(live), NEW j \in Jobs
      PROVE  \/ live[j] = NoJob /\ told[j] = "none"
             \/ live[j] = NewJob(j) /\ told[j] = "create"
  BY <1>3 DEF Init, NewJob, Readable
<1>4. ASSUME ~Readable(live), NEW j \in Jobs PROVE told[j] = "none"
  <2>1. CASE Preloaded = {}
    BY <2>1 DEF Init
  <2>2. CASE Preloaded # {}
    BY <1>1, <1>4, <2>2, ReadableIs, NewJobIs DEF Init, Lists, NewJob
  <2> QED
    BY <2>1, <2>2
<1>5. LiveOK
  <2>1. ASSUME Readable(live), NEW j \in Jobs
        PROVE  /\ told[j] \in {"none", "remove"} <=> live[j] = NoJob
               /\ (j \in Interval /\ told[j] = "create") => live[j] \in OnGrid
               /\ j \in Once => Ahead(live[j])
    <3>1. CASE live[j] = NoJob /\ told[j] = "none"
      BY <3>1 DEF Ahead
    <3>2. CASE live[j] = NewJob(j) /\ told[j] = "create"
      BY <1>1, <3>2, NewJobIs, ContentAssumption
    <3> QED
      BY <1>3, <2>1, <3>1, <3>2
  <2> QED
    BY <1>4, <2>1, CronAssumption DEF LiveOK
<1>6. RecordsOK
  BY <1>2, <1>5 DEF RecordsOK, CreatesOK, EditOK, TodoOK, WorkOK, Works, Recorded, Copied, Procs
<1>7. ASSUME NEW j \in Once PROVE ~Expected(j)
  <2>1. ASSUME Readable(live) PROVE ~Due(live[j])
    <3>1. ~Due(NewJob(j)) /\ j \in Jobs
      BY <1>1, NewJobIs, CronAssumption
    <3> QED
      BY <1>3, <2>1, <3>1 DEF Due
  <2> QED
    BY <1>2, <2>1 DEF Expected, Planned, Recorded, Copied, Procs
<1>8. Counted
  <2>1. Spare \in {0, 1}
    BY DEF Spare
  <2>2. \A j \in Once : ran[j] = 0 /\ asked[j] = 0
    BY CronAssumption DEF Init
  <2> QED
    BY <1>1, <1>7, <2>1, <2>2 DEF Counted
<1> QED
  BY <1>6, <1>8

LEMMA CountNext == Atomic /\ CountInv /\ [Next]_vars => CountInv'
<1> SUFFICES ASSUME Atomic, CountInv, [Next]_vars PROVE CountInv'
  OBVIOUS
<1>0. StoreInv'
  BY StoreNext DEF CountInv
<1>1. CASE UNCHANGED vars
  <2>1. RecordsOK'
    BY <1>1 DEF CountInv, RecordsOK, LiveOK, CreatesOK, EditOK, TodoOK, WorkOK, Works, Readable, Ahead,
       vars, files, ghosts
  <2>2. Counted'
    BY <1>1 DEF CountInv, Counted, Expected, Planned, WorkedOn, Works, Spare, Readable, Due,
       vars, files, ghosts
  <2> QED
    BY <1>0, <2>1, <2>2 DEF CountInv
<1>2. ASSUME NEW p \in Procs, StoreStep(p) PROVE CountInv'
  <2>1. CASE Get(p)
    BY <1>0, <2>1, GetCount, TickerNotGet, Parts DEF Procs
  <2> QED
    BY <1>0, <1>2, <2>1, OpenCount, InitFileCount, ListCount, TruncateCount, FillCount, RenameCount DEF StoreStep
<1>3. ASSUME NEW t \in Tickers, TickStep(t) \/ SaveFails(t) PROVE CountInv'
  BY <1>0, <1>3, TickCount, SnapshotCount, RunJobCount, JobDoneCount DEF TickStep
<1>4. CASE Advance
  BY <1>0, <1>4, AdvanceCount
<1>5. ASSUME NEW c \in Clients, Call(c) PROVE CountInv'
  BY <1>0, <1>5, CallCount
<1>6. ASSUME NEW p \in Procs, Die(p) PROVE CountInv'
  BY <1>0, <1>6, DieCount
<1> QED
  BY <1>1, <1>2, <1>3, <1>4, <1>5, <1>6 DEF Next

LEMMA CountHolds == ASSUME Atomic PROVE Spec => []CountInv
<1>1. Init => CountInv
  BY StoreInit, CountInit DEF CountInv
<1>2. CountInv /\ [Next]_vars => CountInv'
  BY CountNext
<1> QED
  BY <1>1, <1>2, PTL DEF Spec

\* However ticks, edits, faults and the clock meet, a Once job is not run more often
\* than it was asked for, but for a tick that broke off while it ran; and an interval
\* job that nobody edited stays on the grid of its creation.
THEOREM ScheduleHolds == Atomic => (Spec => []OnSchedule)
<1> SUFFICES ASSUME Atomic PROVE Spec => []OnSchedule
  OBVIOUS
<1>1. CountInv => OnSchedule
  <2> SUFFICES ASSUME CountInv PROVE OnceRunsOnce /\ NoDrift
    BY DEF OnSchedule
  <2>1. Inv /\ LiveOK /\ Counted
    BY DEF CountInv, StoreInv, RecordsOK
  <2>2. ASSUME NEW j \in Once PROVE ran[j] <= 1 + asked[j] + faults
    <3>1. ran[j] + Spare <= 1 + asked[j] + faults
      BY <2>1 DEF Counted
    <3>2. ran[j] \in Nat /\ asked[j] \in Nat /\ faults \in Nat /\ Spare \in {0, 1}
      BY <2>1, CronAssumption DEF Inv, GhostsOK, Spare
    <3> QED
      BY <3>1, <3>2
  <2>3. NoDrift
    BY <2>1 DEF NoDrift, LiveOK, OnGrid
  <2> QED
    BY <2>2, <2>3 DEF OnceRunsOnce
<1> QED
  BY <1>1, CountHolds, PTL

\* What the tool acknowledged stays, although ticks write the whole list as well: a job
\* is in the file from its creation to its removal, and no longer.
THEOREM AcknowledgedStays == Atomic => (Spec => []EditsHold)
<1> SUFFICES ASSUME Atomic PROVE Spec => []EditsHold
  OBVIOUS
<1>1. CountInv => EditsHold
  BY DEF CountInv, RecordsOK, LiveOK, EditsHold, Edits
<1> QED
  BY <1>1, CountHolds, PTL
=============================================================================
