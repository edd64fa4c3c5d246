-------------------------- MODULE ManagedRunProofs --------------------------
(***************************************************************************)
(* What holds of ManagedRun for every set of workers, runs and callers and *)
(* every bound: the types, that ownership stays with the spawning gateway  *)
(* (OwnerIsHome), and that the claim token fences the terminal updates     *)
(* (FencedWriter); then how the runs of a gateway that is alone end, and   *)
(* with what intent (HintHonoured).                                        *)
(*                                                                         *)
(* The inductive invariant adds to TypeOK and OwnerIsHome what ties the    *)
(* tasks and the registry entry of a run to a gateway that spawned it.     *)
(***************************************************************************)
EXTENDS ManagedRun, FiniteSetTheorems, TLAPS

\* A run has a home from its first step on, and tasks and an entry only then.
HomeOK ==
  \A r \in Runs :
    /\ spawn[r] # "idle" => home[r] \in Workers
    /\ task[r] # "none" \/ reg[r] # Absent \/ close[r] # Idle => spawn[r] # "idle"

IInv == TypeOK /\ HomeOK /\ OwnerIsHome

\* The parts of IInv, by the variables they speak of.
Fits(x, h) ==
  /\ x \in Row
  /\ x.owner # NoWorker => x.status = "running" /\ x.owner = h /\ x.lease # "none"
RowsOK == /\ row \in [Runs -> Row]
          /\ \A r \in Runs : Fits(row[r], home[r])
TasksOK == /\ home \in [Runs -> Workers \cup {NoWorker}]
           /\ spawn \in [Runs -> SpawnStates]
           /\ task \in [Runs -> TaskStates]
           /\ hb \in [Runs -> {"none", "beating", "stopped"}]
           /\ reg \in [Runs -> {Absent, "running"} \cup Hints]
           /\ close \in [Closers -> Closing \cup {Idle, Done}]
           /\ HomeOK
RestOK == /\ worker \in [Workers -> {"new", "up", "down"}]
          /\ sweep \in [Workers -> [Runs -> Row]]
          /\ log \in [Runs -> Seq(EventKinds)]
          /\ cleaned \in [Runs -> BOOLEAN]
          /\ faults \in 0..MaxFaults /\ drops \in 0..MaxDrops
Inv == RowsOK /\ TasksOK /\ RestOK

LEMMA InvParts == Inv <=> IInv
  BY DEF Inv, IInv, RowsOK, TasksOK, RestOK, TypeOK, OwnerIsHome, Fits

-----------------------------------------------------------------------------
(* The statements on a row. *)
LEMMA CreateFits == ASSUME NEW h PROVE Fits(CreateRun, h)
  BY DEF Fits, CreateRun, NoRow, Row, RunStatus, Leases, Absent

LEMMA ClaimFits == ASSUME NEW h \in Workers, NEW x \in Row
                   PROVE  Fits(ClaimRunOwnership(x, h), h)
  BY DEF Fits, ClaimRunOwnership, Row, RunStatus, Leases

LEMMA HeartbeatFits == ASSUME NEW h, NEW x, Fits(x, h)
                       PROVE  Fits(HeartbeatRunOwnership(x), h)
  BY DEF Fits, HeartbeatRunOwnership, Row, Leases

LEMMA ExpireFits == ASSUME NEW h, NEW x, Fits(x, h)
                    PROVE  Fits([x EXCEPT !.lease = "expired"], h)
  BY DEF Fits, Row, Leases

LEMMA IntentFits == ASSUME NEW h, NEW x, Fits(x, h), NEW s \in Hints
                    PROVE  Fits(RecordRunTerminalIntent(x, s), h)
  BY DEF Fits, RecordRunTerminalIntent, Row, Hints

LEMMA UpdateFits == ASSUME NEW h, NEW x, Fits(x, h), NEW s \in Hints
                    PROVE  Fits(UpdateRunStatus(x, s), h)
  BY DEF Fits, UpdateRunStatus, Row, Hints, NoHint, RunStatus, Leases, IsTerminal,
         Terminal

LEMMA ReconciledTerminal == ASSUME NEW x \in Row PROVE ReconciledStatus(x) \in Terminal
  BY DEF ReconciledStatus, Row, Hints, NoHint, Terminal

LEMMA ReconcileFits == ASSUME NEW h, NEW x, Fits(x, h), NEW y \in Row
                       PROVE  Fits(ReconcileRun(x, y), h)
  BY ReconciledTerminal DEF Fits, ReconcileRun, Row, NoHint, RunStatus, Leases

-----------------------------------------------------------------------------
(* Steps that change one row, one event list, or none. *)
LEMMA OneRow == ASSUME RowsOK, NEW r \in Runs, NEW x, Fits(x, home[r]), UNCHANGED home,
                       row' = [row EXCEPT ![r] = x]
                PROVE  RowsOK'
  BY DEF RowsOK, Fits

LEMMA SameRows == ASSUME RowsOK, UNCHANGED <<row, home>> PROVE RowsOK'
  BY DEF RowsOK, Fits

LEMMA SameTasks == ASSUME TasksOK, UNCHANGED <<home, spawn, task, hb, reg, close>>
                   PROVE  TasksOK'
  BY DEF TasksOK, HomeOK

LEMMA SpawnGoes == ASSUME TasksOK, NEW r \in Runs, spawn[r] # "idle",
                          NEW s \in SpawnStates \ {"idle"},
                          spawn' = [spawn EXCEPT ![r] = s],
                          UNCHANGED <<home, task, hb, reg, close>>
                   PROVE  TasksOK'
  BY DEF TasksOK, HomeOK, Closers

LEMMA FaultOK == ASSUME RestOK, Fault PROVE faults' \in 0..MaxFaults
  BY ManagedRunAssumption DEF RestOK, Fault

LEMMA OneEvent == ASSUME RestOK, NEW r \in Runs, NEW k \in EventKinds, Logged(r, k)
                  PROVE  log' \in [Runs -> Seq(EventKinds)]
  BY DEF RestOK, Logged

LEMMA HasHome == ASSUME TasksOK, NEW r \in Runs, spawn[r] # "idle"
                 PROVE  home[r] \in Workers
  BY DEF TasksOK, HomeOK

LEMMA SameRest == ASSUME RestOK, UNCHANGED <<worker, sweep, log, cleaned, faults, drops>>
                  PROVE  RestOK'
  BY DEF RestOK

-----------------------------------------------------------------------------
(* The spawning handler. *)
LEMMA CreateInv == ASSUME Inv, NEW r \in Runs, NEW w \in Workers, Create(r, w) PROVE Inv'
<1>1. RowsOK'
  BY CreateFits DEF Inv, RowsOK, TasksOK, Create, Fits
<1>2. TasksOK'
  BY DEF Inv, TasksOK, HomeOK, Create, SpawnStates
<1>3. RestOK'
  <2>1. "created" \in EventKinds  BY DEF EventKinds
  <2>2. log' \in [Runs -> Seq(EventKinds)]  BY <2>1, OneEvent DEF Inv, Create
  <2> QED  BY <2>2 DEF Inv, RestOK, Create
<1> QED  BY <1>1, <1>2, <1>3 DEF Inv, Create

LEMMA BuildFailsInv == ASSUME Inv, NEW r \in Runs, BuildFails(r) PROVE Inv'
<1>1. TasksOK'
  <2>1. "failIntent" \in SpawnStates \ {"idle"} /\ spawn[r] # "idle"
    BY DEF SpawnStates, BuildFails
  <2> QED  BY <2>1, SpawnGoes DEF Inv, BuildFails
<1> QED  BY <1>1, SameRows, SameRest DEF Inv, BuildFails

LEMMA FailIntentInv == ASSUME Inv, NEW r \in Runs, FailIntent(r) PROVE Inv'
<1>1. RowsOK'
  <2>1. CASE row' = [row EXCEPT ![r] = RecordRunTerminalIntent(@, "failed")]
    <3>1. Fits(RecordRunTerminalIntent(row[r], "failed"), home[r])
      BY IntentFits DEF Inv, RowsOK, Hints
    <3> QED  BY <2>1, <3>1, OneRow DEF Inv, FailIntent
  <2>2. CASE UNCHANGED row
    BY <2>2, SameRows DEF Inv, FailIntent
  <2> QED  BY <2>1, <2>2 DEF FailIntent
<1>2. TasksOK'
  <2>1. "failStatus" \in SpawnStates \ {"idle"} /\ spawn[r] # "idle"
    BY DEF SpawnStates, FailIntent
  <2> QED  BY <2>1, SpawnGoes DEF Inv, FailIntent
<1>3. RestOK'
  BY FaultOK DEF Inv, RestOK, FailIntent
<1> QED  BY <1>1, <1>2, <1>3 DEF Inv, FailIntent

LEMMA FailStatusInv == ASSUME Inv, NEW r \in Runs, FailStatus(r) PROVE Inv'
<1>1. RowsOK'
  <2>1. CASE row' = [row EXCEPT ![r] = UpdateRunStatus(@, "failed")]
    <3>1. Fits(UpdateRunStatus(row[r], "failed"), home[r])
      BY UpdateFits DEF Inv, RowsOK, Hints
    <3> QED  BY <2>1, <3>1, OneRow DEF Inv, FailStatus
  <2>2. CASE UNCHANGED row
    BY <2>2, SameRows DEF Inv, FailStatus
  <2> QED  BY <2>1, <2>2 DEF FailStatus
<1>2. TasksOK'
  <2>1. "failEvent" \in SpawnStates \ {"idle"} /\ spawn[r] # "idle"
    BY DEF SpawnStates, FailStatus
  <2> QED  BY <2>1, SpawnGoes DEF Inv, FailStatus
<1>3. RestOK'
  BY FaultOK DEF Inv, RestOK, FailStatus
<1> QED  BY <1>1, <1>2, <1>3 DEF Inv, FailStatus

LEMMA FailEventInv == ASSUME Inv, NEW r \in Runs, FailEvent(r) PROVE Inv'
<1>1. TasksOK'
  <2>1. "dropped" \in SpawnStates \ {"idle"} /\ spawn[r] # "idle"
    BY DEF SpawnStates, FailEvent
  <2> QED  BY <2>1, SpawnGoes DEF Inv, FailEvent
<1>2. RestOK'
  <2>1. "failed" \in EventKinds  BY DEF EventKinds, Terminal
  <2>2. log' \in [Runs -> Seq(EventKinds)]
    BY <2>1, OneEvent DEF Inv, FailEvent, RestOK
  <2> QED  BY <2>2, FaultOK DEF Inv, RestOK, FailEvent
<1> QED  BY <1>1, <1>2, SameRows DEF Inv, FailEvent

LEMMA ClaimInv == ASSUME Inv, NEW r \in Runs, Claim(r) PROVE Inv'
<1>0. home[r] \in Workers /\ spawn[r] # "idle"
  BY HasHome DEF Inv, Claim
<1>1. RowsOK'
  <2>1. CASE row' = [row EXCEPT ![r] = ClaimRunOwnership(@, home[r])]
    <3>1. Fits(ClaimRunOwnership(row[r], home[r]), home[r])
      BY <1>0, ClaimFits DEF Inv, RowsOK
    <3> QED  BY <2>1, <3>1, OneRow DEF Inv, Claim
  <2>2. CASE UNCHANGED row
    BY <2>2, SameRows DEF Inv, Claim
  <2> QED  BY <2>1, <2>2 DEF Claim
<1>2. TasksOK'
  <2>1. {"claimed", "dropped"} \subseteq SpawnStates \ {"idle"}
    BY DEF SpawnStates
  <2>2. CASE spawn' = [spawn EXCEPT ![r] = "claimed"]
    BY <1>0, <2>1, <2>2, SpawnGoes DEF Inv, Claim
  <2>3. CASE spawn' = [spawn EXCEPT ![r] = "dropped"]
    BY <1>0, <2>1, <2>3, SpawnGoes DEF Inv, Claim
  <2> QED  BY <2>2, <2>3 DEF Claim
<1>3. RestOK'
  <2>1. "claimed" \in EventKinds  BY DEF EventKinds
  <2>2. log' \in [Runs -> Seq(EventKinds)]
    BY <2>1, OneEvent DEF Inv, Claim, RestOK
  <2> QED  BY <2>2, FaultOK DEF Inv, RestOK, Claim
<1> QED  BY <1>1, <1>2, <1>3 DEF Inv, Claim

LEMMA StartTasksInv == ASSUME Inv, NEW r \in Runs, StartTasks(r) PROVE Inv'
<1>1. TasksOK'
  BY DEF Inv, TasksOK, HomeOK, StartTasks, SpawnStates, TaskStates
<1> QED  BY <1>1, SameRows, SameRest DEF Inv, StartTasks

LEMMA RegisterOwnedInv == ASSUME Inv, NEW r \in Runs, RegisterOwned(r) PROVE Inv'
<1>1. TasksOK'
  BY DEF Inv, TasksOK, HomeOK, RegisterOwned, SpawnStates
<1> QED  BY <1>1, SameRows, SameRest DEF Inv, RegisterOwned

LEMMA RunStartedInv == ASSUME Inv, NEW r \in Runs, RunStarted(r) PROVE Inv'
<1>1. TasksOK'
  <2>1. "done" \in SpawnStates \ {"idle"} /\ spawn[r] # "idle"
    BY DEF SpawnStates, RunStarted
  <2> QED  BY <2>1, SpawnGoes DEF Inv, RunStarted
<1>2. RestOK'
  <2>1. "started" \in EventKinds  BY DEF EventKinds
  <2>2. log' \in [Runs -> Seq(EventKinds)]
    BY <2>1, OneEvent DEF Inv, RunStarted, RestOK
  <2> QED  BY <2>2, FaultOK DEF Inv, RestOK, RunStarted
<1> QED  BY <1>1, <1>2, SameRows DEF Inv, RunStarted

LEMMA DropSpawnInv == ASSUME Inv, NEW r \in Runs, DropSpawn(r) PROVE Inv'
<1>1. TasksOK'
  <2>1. "dropped" \in SpawnStates \ {"idle"} /\ spawn[r] # "idle"
    BY DEF SpawnStates, DropSpawn
  <2> QED  BY <2>1, SpawnGoes DEF Inv, DropSpawn
<1>2. RestOK'
  BY ManagedRunAssumption DEF Inv, RestOK, DropSpawn
<1> QED  BY <1>1, <1>2, SameRows DEF Inv, DropSpawn

-----------------------------------------------------------------------------
(* The heartbeat and the clock. *)
LEMMA HeartbeatInv == ASSUME Inv, NEW r \in Runs, Heartbeat(r) PROVE Inv'
<1>1. RowsOK'
  <2>1. CASE row' = [row EXCEPT ![r] = HeartbeatRunOwnership(@)]
    <3>1. Fits(HeartbeatRunOwnership(row[r]), home[r])
      BY HeartbeatFits DEF Inv, RowsOK
    <3> QED  BY <2>1, <3>1, OneRow DEF Inv, Heartbeat
  <2>2. CASE UNCHANGED row
    BY <2>2, SameRows DEF Inv, Heartbeat
  <2> QED  BY <2>1, <2>2 DEF Heartbeat
<1>2. TasksOK'
  BY DEF Inv, TasksOK, HomeOK, Heartbeat
<1>3. RestOK'
  BY FaultOK DEF Inv, RestOK, Heartbeat
<1> QED  BY <1>1, <1>2, <1>3 DEF Inv, Heartbeat

LEMMA LeaseExpiresInv == ASSUME Inv, NEW r \in Runs, LeaseExpires(r) PROVE Inv'
<1>1. Fits([row[r] EXCEPT !.lease = "expired"], home[r])
  BY ExpireFits DEF Inv, RowsOK
<1>2. RowsOK'
  <2>1. row' = [row EXCEPT ![r] = [row[r] EXCEPT !.lease = "expired"]]
    BY DEF LeaseExpires, Inv, RowsOK
  <2> QED  BY <1>1, <2>1, OneRow DEF Inv, LeaseExpires
<1> QED  BY <1>2, SameTasks, SameRest DEF Inv, LeaseExpires

-----------------------------------------------------------------------------
(* Finalize and terminate. *)
LEMMA ActiveClosing == ASSUME TasksOK, NEW p \in Closers, Active(p)
                       PROVE  close[p] \in Closing
  BY DEF TasksOK, Active, Idle, Done

LEMMA ClosingFields == ASSUME NEW c \in Closing
                       PROVE  /\ c.pc \in CloseSteps /\ c.run \in Runs /\ c.at \in Workers
                              /\ c.want \in Hints /\ c.was \in BOOLEAN /\ c.owned \in BOOLEAN
  BY DEF Closing

LEMMA AtStep == ASSUME TasksOK, NEW p \in Closers, close[p].pc \in CloseSteps
                PROVE  /\ Active(p) /\ close[p] \in Closing
                       /\ close[p].run \in Runs /\ close[p].at \in Workers
                       /\ close[p].want \in Hints
<1>1. Active(p)  BY DEF Active, CloseSteps
<1> QED  BY <1>1, ActiveClosing, ClosingFields

LEMMA NextPc == ASSUME NEW c \in Closing, NEW pc \in CloseSteps
                PROVE  [c EXCEPT !.pc = pc] \in Closing
  BY DEF Closing

LEMMA NotIdle == ASSUME NEW c \in Closing PROVE c # Idle
  BY DEF Closing, CloseSteps, Idle

\* A closer moves on.
LEMMA GotoOK == ASSUME TasksOK, NEW p \in Closers, close[p] \in Closing,
                       NEW pc \in CloseSteps, Goto(p, pc), UNCHANGED <<home, spawn>>
                PROVE  TasksOK'
<1>1. [close[p] EXCEPT !.pc = pc] \in Closing  BY NextPc
<1>2. close' = [close EXCEPT ![p] = [close[p] EXCEPT !.pc = pc]]
  BY DEF Goto, TasksOK
<1>3. close' \in [Closers -> Closing \cup {Idle, Done}]  BY <1>1, <1>2 DEF TasksOK
<1>4. close[p] # Idle  BY NotIdle
<1>5. HomeOK'  BY <1>2, <1>4 DEF TasksOK, HomeOK, Goto, Closers
<1> QED  BY <1>3, <1>5 DEF TasksOK, Goto

LEMMA SpawnedHome == ASSUME TasksOK, NEW r \in Runs,
                            reg[r] # Absent \/ task[r] # "none" \/ close[r] # Idle
                     PROVE  spawn[r] # "idle" /\ home[r] \in Workers
  BY DEF TasksOK, HomeOK

\* A closer begins, is replaced or ends: the task, the heartbeat and the entry
\* of one run may change with it, if that run was spawned.
LEMMA ClosersOK ==
  ASSUME TasksOK, UNCHANGED <<home, spawn>>, NEW p \in Closers, NEW r \in Runs,
         NEW c \in Closing \cup {Done}, p \in Runs => spawn[p] # "idle",
         close' \in {[close EXCEPT ![p] = c],
                     [[close EXCEPT ![r] = Done] EXCEPT ![p] = c]},
         NEW t \in TaskStates, task' \in {task, [task EXCEPT ![r] = t]},
         NEW h \in {"none", "beating", "stopped"}, hb' \in {hb, [hb EXCEPT ![r] = h]},
         NEW g \in {Absent, "running"} \cup Hints, reg' \in {reg, [reg EXCEPT ![r] = g]},
         spawn[r] = "idle" => UNCHANGED <<task, reg>> /\ close' = [close EXCEPT ![p] = c]
  PROVE  TasksOK'
<1>1. close' \in [Closers -> Closing \cup {Idle, Done}]  BY DEF TasksOK, Closers
<1>2. task' \in [Runs -> TaskStates]  BY DEF TasksOK
<1>3. hb' \in [Runs -> {"none", "beating", "stopped"}]  BY DEF TasksOK
<1>4. reg' \in [Runs -> {Absent, "running"} \cup Hints]  BY DEF TasksOK
<1>5. HomeOK'
  <2> SUFFICES ASSUME NEW q \in Runs, spawn[q] = "idle"
               PROVE  task'[q] = "none" /\ reg'[q] = Absent /\ close'[q] = Idle
    BY DEF TasksOK, HomeOK
  <2>1. task[q] = "none" /\ reg[q] = Absent /\ close[q] = Idle /\ q # p
    BY DEF TasksOK, HomeOK
  <2>2. CASE q = r
    BY <2>1, <2>2 DEF TasksOK, Closers
  <2>3. CASE q # r
    <3>1. task'[q] = task[q] /\ reg'[q] = reg[q]  BY <2>3 DEF TasksOK
    <3>2. close'[q] = close[q]  BY <2>1, <2>3 DEF TasksOK, Closers
    <3> QED  BY <2>1, <3>1, <3>2
  <2> QED  BY <2>2, <2>3
<1> QED  BY <1>1, <1>2, <1>3, <1>4, <1>5 DEF TasksOK

LEMMA RemoveOK == ASSUME TasksOK, NEW p \in Closers, close[p] \in Closing, NEW r \in Runs,
                         NEW w, RemoveEntry(p, r, w), UNCHANGED <<home, spawn>>
                  PROVE  TasksOK'
<1>1. p \in Runs => spawn[p] # "idle"  BY SpawnedHome, NotIdle
<1>2. Registered(r, w) => spawn[r] # "idle"  BY SpawnedHome DEF Registered
<1>3. {"ended", "aborted"} \subseteq TaskStates  BY DEF TaskStates
<1>4. Absent \in {Absent, "running"} \cup Hints  OBVIOUS
<1>5. CASE p = r
  <2>1. task' = [task EXCEPT ![r] = "ended"] /\ close' = [close EXCEPT ![p] = Done]
    BY <1>5 DEF RemoveEntry
  <2>2. /\ hb' \in {hb, [hb EXCEPT ![r] = "stopped"]}
        /\ reg' \in {reg, [reg EXCEPT ![r] = Absent]}
    BY DEF RemoveEntry
  <2> QED  BY <1>1, <1>3, <1>5, <2>1, <2>2, ClosersOK
<1>6. CASE p # r
  <2>1. /\ task' \in {task, [task EXCEPT ![r] = "aborted"]}
        /\ hb' \in {hb, [hb EXCEPT ![r] = "stopped"]}
        /\ reg' \in {reg, [reg EXCEPT ![r] = Absent]}
        /\ close' \in {[close EXCEPT ![p] = Done],
                       [[close EXCEPT ![r] = Done] EXCEPT ![p] = Done]}
    BY <1>6 DEF RemoveEntry, TaskAborted, CloseAborted
  <2>2. spawn[r] = "idle" => UNCHANGED <<task, reg>> /\ close' = [close EXCEPT ![p] = Done]
    BY <1>2, <1>6 DEF RemoveEntry
  <2> QED  BY <1>1, <1>3, <2>1, <2>2, ClosersOK
<1> QED  BY <1>5, <1>6

\* A finalize or terminate that finds the entry marks it and goes on.
LEMMA NewClosing ==
  ASSUME NEW pc \in CloseSteps, NEW r \in Runs, NEW w \in Workers,
         NEW k \in {"finalize", "terminate"}, NEW s \in Hints, NEW b \in BOOLEAN,
         NEW o \in BOOLEAN
  PROVE  [pc |-> pc, run |-> r, at |-> w, kind |-> k, want |-> s, was |-> b,
          owned |-> o] \in Closing
  BY DEF Closing

LEMMA FirstWriteStep == ASSUME NEW c PROVE FirstWrite(c) \in CloseSteps
  BY DEF FirstWrite, CloseSteps

LEMMA TerminateRegisteredOK ==
  ASSUME TasksOK, NEW c \in Closers, NEW r \in Runs, NEW w \in Workers, NEW s \in Hints,
         c \in Runs => spawn[c] # "idle", TerminateRegistered(c, r, w, s),
         UNCHANGED <<home, spawn>>
  PROVE  TasksOK'
<1> DEFINE kept == IF IsTerminal(reg[r]) THEN reg[r] ELSE s
           k == [pc |-> "intent", run |-> r, at |-> w, kind |-> "terminate",
                 want |-> kept, was |-> IsTerminal(reg[r]), owned |-> TRUE]
           d == [k EXCEPT !.pc = FirstWrite(k)]
<1>1. spawn[r] # "idle"  BY SpawnedHome DEF TerminateRegistered, Registered
<1>2. kept \in Hints
  BY DEF TasksOK, TerminateRegistered, Registered, IsTerminal, Terminal, Absent
<1>3. d \in Closing
  <2>1. k \in Closing
    <3>1. "intent" \in CloseSteps /\ IsTerminal(reg[r]) \in BOOLEAN
      BY DEF CloseSteps, IsTerminal
    <3> QED  BY <1>2, <3>1, NewClosing
  <2> QED  BY <2>1, NextPc, FirstWriteStep
<1>4. close' = [CloseAborted(r) EXCEPT ![c] = d]  BY DEF TerminateRegistered
<1>5. task' = TaskAborted(r) /\ hb' = [hb EXCEPT ![r] = "stopped"]
      /\ reg' = [reg EXCEPT ![r] = kept]
  BY DEF TerminateRegistered
<1> HIDE DEF kept, d
<1>6. "aborted" \in TaskStates  BY DEF TaskStates
<1>7. task' \in {task, [task EXCEPT ![r] = "aborted"]}
  BY <1>5 DEF TaskAborted
<1>8. close' \in {[close EXCEPT ![c] = d], [[close EXCEPT ![r] = Done] EXCEPT ![c] = d]}
  BY <1>4 DEF CloseAborted
<1> QED  BY <1>1, <1>2, <1>3, <1>5, <1>6, <1>7, <1>8, ClosersOK

LEMMA TerminateUnregisteredOK ==
  ASSUME TasksOK, NEW c \in Closers, NEW r \in Runs, NEW w \in Workers, NEW s \in Hints,
         c \in Runs => spawn[c] # "idle", TerminateUnregistered(c, r, w, s),
         UNCHANGED <<home, spawn>>
  PROVE  TasksOK'
<1>1. [pc |-> "unowned", run |-> r, at |-> w, kind |-> "terminate", want |-> s,
       was |-> FALSE, owned |-> FALSE] \in Closing
  BY NewClosing DEF CloseSteps
<1>2. \E d \in Closing \cup {Done} : close' = [close EXCEPT ![c] = d]
  BY <1>1 DEF TerminateUnregistered
<1> QED  BY <1>2, ClosersOK DEF TerminateUnregistered, TasksOK

LEMMA FinalizeRegisteredOK ==
  ASSUME TasksOK, NEW p \in Closers, NEW r \in Runs, NEW w \in Workers, NEW s \in Hints,
         p \in Runs => spawn[p] # "idle", FinalizeRegistered(p, r, w, s),
         UNCHANGED <<home, spawn>>
  PROVE  TasksOK'
<1> DEFINE k == [pc |-> "intent", run |-> r, at |-> w, kind |-> "finalize", want |-> s,
                 was |-> IsTerminal(reg[r]), owned |-> TRUE]
           d == [k EXCEPT !.pc = FirstWrite(k)]
<1>1. spawn[r] # "idle"  BY SpawnedHome DEF FinalizeRegistered, Registered
<1>2. d \in Closing
  <2>1. "intent" \in CloseSteps /\ IsTerminal(reg[r]) \in BOOLEAN
    BY DEF CloseSteps, IsTerminal
  <2>2. k \in Closing  BY <2>1, NewClosing
  <2> QED  BY <2>2, NextPc, FirstWriteStep
<1>3. close' \in {[close EXCEPT ![p] = Done], [close EXCEPT ![p] = d]}
  BY DEF FinalizeRegistered
<1> HIDE DEF d
<1>4. {"ended", "closing"} \subseteq TaskStates  BY DEF TaskStates
<1>5. /\ task' \in {task, [task EXCEPT ![r] = "ended"], [task EXCEPT ![r] = "closing"]}
      /\ hb' \in {hb, [hb EXCEPT ![r] = "stopped"]}
      /\ reg' \in {reg, [reg EXCEPT ![r] = s]}
  BY DEF FinalizeRegistered
<1> QED  BY <1>1, <1>2, <1>3, <1>4, <1>5, ClosersOK

LEMMA FinalizeUnregisteredOK ==
  ASSUME TasksOK, NEW p \in Closers, NEW r \in Runs, NEW w \in Workers, NEW s \in Hints,
         p \in Runs => spawn[p] # "idle", spawn[r] # "idle",
         FinalizeUnregistered(p, r, w, s), UNCHANGED <<home, spawn>>
  PROVE  TasksOK'
<1> DEFINE k == [pc |-> "unowned", run |-> r, at |-> w, kind |-> "finalize", want |-> s,
                 was |-> FALSE, owned |-> FALSE]
<1>1. k \in Closing  BY NewClosing DEF CloseSteps
<1>2. close' \in {[close EXCEPT ![p] = Done], [close EXCEPT ![p] = k]}
  BY DEF FinalizeUnregistered
<1> HIDE DEF k
<1>3. {"ended", "closing"} \subseteq TaskStates  BY DEF TaskStates
<1>4. /\ task' \in {task, [task EXCEPT ![r] = "ended"], [task EXCEPT ![r] = "closing"]}
      /\ UNCHANGED <<hb, reg>>
  BY DEF FinalizeUnregistered
<1>5. hb' \in {hb, [hb EXCEPT ![r] = "stopped"]} /\ reg' \in {reg, [reg EXCEPT ![r] = s]}
  BY <1>4
<1> QED  BY <1>1, <1>2, <1>3, <1>4, <1>5, ClosersOK

LEMMA AgentReturnsInv ==
  ASSUME Inv, NEW r \in Runs, NEW s \in {"completed", "failed"}, AgentReturns(r, s)
  PROVE  Inv'
<1>1. TasksOK'
  <2>1. spawn[r] # "idle" /\ home[r] \in Workers
    BY SpawnedHome DEF AgentReturns, Inv
  <2>2. s \in Hints /\ r \in Closers  BY DEF Hints, Closers
  <2> QED
    BY <2>1, <2>2, FinalizeRegisteredOK, FinalizeUnregisteredOK DEF AgentReturns, Inv
<1> QED  BY <1>1, SameRows, SameRest DEF Inv, AgentReturns

LEMMA AgentPanicsInv == ASSUME Inv, NEW r \in Runs, AgentPanics(r) PROVE Inv'
<1>1. TasksOK'
  BY DEF Inv, TasksOK, HomeOK, AgentPanics, TaskStates
<1> QED  BY <1>1, SameRows, SameRest DEF Inv, AgentPanics

LEMMA CallIsNoRun == ASSUME NEW c \in Calls PROVE c \in Closers /\ c \notin Runs
  BY ManagedRunAssumption DEF Calls, Closers

LEMMA RespondInv ==
  ASSUME Inv, NEW c \in Responders, NEW r \in Runs, NEW s \in {"timed_out", "cancelled"},
         Respond(c, r, s)
  PROVE  Inv'
<1>1. TasksOK'
  <2>1. home[r] \in Workers  BY HasHome DEF Respond, Inv
  <2>2. s \in Hints /\ c \in Closers /\ c \notin Runs
    BY CallIsNoRun DEF Hints, Calls
  <2> QED
    BY <2>1, <2>2, TerminateRegisteredOK, TerminateUnregisteredOK DEF Respond, Inv
<1> QED  BY <1>1, SameRows, SameRest DEF Inv, Respond

LEMMA TimeoutOverDisconnectInv ==
  ASSUME Inv, NEW c \in Calls, TimeoutOverDisconnect(c) PROVE Inv'
<1>1. TasksOK'
  <2>1. close[c].run \in Runs /\ close[c].at \in Workers
    BY CallIsNoRun, ActiveClosing, ClosingFields DEF TimeoutOverDisconnect, Inv
  <2>2. "timed_out" \in Hints /\ c \in Closers /\ c \notin Runs
    BY CallIsNoRun DEF Hints
  <2> QED
    BY <2>1, <2>2, TerminateRegisteredOK, TerminateUnregisteredOK
    DEF TimeoutOverDisconnect, Inv
<1> QED  BY <1>1, SameRows, SameRest DEF Inv, TimeoutOverDisconnect

LEMMA OutcomeDroppedInv ==
  ASSUME Inv, NEW c \in Calls, NEW r \in Runs, OutcomeDropped(c, r) PROVE Inv'
<1>1. TasksOK'
  <2>1. spawn[r] # "idle" /\ home[r] \in Workers
    BY HasHome DEF OutcomeDropped, Inv
  <2>2. "failed" \in Hints /\ c \in Closers /\ c \notin Runs
    BY CallIsNoRun DEF Hints
  <2>3. CASE close' = [close EXCEPT ![c] = Done] /\ UNCHANGED <<task, reg, hb>>
    BY <2>1, <2>2, <2>3, ClosersOK DEF OutcomeDropped, Inv, TasksOK
  <2> QED
    BY <2>1, <2>2, <2>3, FinalizeRegisteredOK, FinalizeUnregisteredOK
    DEF OutcomeDropped, Inv
<1> QED  BY <1>1, SameRows, SameRest DEF Inv, OutcomeDropped

\* A call's own slot is not a run task's.
LEMMA CallChange == ASSUME TasksOK, NEW c \in Calls, NEW k \in Closing \cup {Done},
                           close' = [close EXCEPT ![c] = k],
                           UNCHANGED <<home, spawn, task, hb, reg>>
                    PROVE  TasksOK'
<1>1. c \in Closers /\ c \notin Runs  BY CallIsNoRun
<1>2. close' \in [Closers -> Closing \cup {Idle, Done}]  BY <1>1 DEF TasksOK
<1>3. HomeOK'  BY <1>1 DEF TasksOK, HomeOK, Closers
<1> QED  BY <1>2, <1>3 DEF TasksOK

LEMMA CancelReadInv ==
  ASSUME Inv, NEW c \in Calls, NEW r \in Runs, NEW w \in Workers, CancelRead(c, r, w)
  PROVE  Inv'
<1>1. TasksOK'
  <2> DEFINE k == [pc |-> "route", run |-> r, at |-> w, kind |-> "terminate",
                   want |-> "cancelled", was |-> FALSE, owned |-> FALSE]
  <2>1. k \in Closing  BY NewClosing DEF CloseSteps, Hints
  <2>2. close' \in {[close EXCEPT ![c] = Done], [close EXCEPT ![c] = k]}
    BY DEF CancelRead
  <2> HIDE DEF k
  <2>3. UNCHANGED <<task, hb, reg, home, spawn>>  BY DEF CancelRead
  <2> QED  BY <2>1, <2>2, <2>3, CallChange DEF Inv
<1> QED  BY <1>1, SameRows, SameRest DEF Inv, CancelRead

LEMMA CancelRouteInv == ASSUME Inv, NEW c \in Calls, CancelRoute(c) PROVE Inv'
<1>1. TasksOK'
  <2>1. /\ close[c] \in Closing /\ close[c].run \in Runs /\ close[c].at \in Workers
        /\ "cancelIntent" \in CloseSteps
    BY CallIsNoRun, AtStep DEF CancelRoute, Inv, CloseSteps
  <2>2. "cancelled" \in Hints /\ c \in Closers /\ c \notin Runs
    BY CallIsNoRun DEF Hints
  <2>3. CASE close' = [close EXCEPT ![c].pc = "cancelIntent"] /\ UNCHANGED <<task, hb, reg>>
    BY <2>1, <2>2, <2>3, GotoOK DEF CancelRoute, Inv, Goto
  <2> QED  BY <2>1, <2>2, <2>3, TerminateRegisteredOK DEF CancelRoute, Inv
<1> QED  BY <1>1, SameRows, SameRest DEF Inv, CancelRoute

LEMMA CancelIntentInv == ASSUME Inv, NEW c \in Calls, CancelIntent(c) PROVE Inv'
<1>0. /\ close[c] \in Closing /\ close[c].run \in Runs /\ c \in Closers
      /\ "cancelStatus" \in CloseSteps /\ "cancelled" \in Hints
  BY CallIsNoRun, AtStep DEF CancelIntent, Inv, CloseSteps, Hints
<1>1. RowsOK'
  <2>1. Fits(RecordRunTerminalIntent(row[close[c].run], "cancelled"), home[close[c].run])
    BY <1>0, IntentFits DEF Inv, RowsOK
  <2>2. CASE row' = [row EXCEPT ![close[c].run] = RecordRunTerminalIntent(@, "cancelled")]
    BY <1>0, <2>1, <2>2, OneRow DEF Inv, CancelIntent
  <2>3. CASE UNCHANGED row
    BY <2>3, SameRows DEF Inv, CancelIntent
  <2> QED  BY <2>2, <2>3 DEF CancelIntent
<1>2. TasksOK'
  <2>1. CASE close' = [close EXCEPT ![c].pc = "cancelStatus"]
    BY <1>0, <2>1, GotoOK DEF CancelIntent, Inv, Goto
  <2>2. CASE close' = [close EXCEPT ![c] = Done]
    BY <2>2, CallChange DEF CancelIntent, Inv
  <2> QED  BY <2>1, <2>2 DEF CancelIntent
<1>3. RestOK'
  BY FaultOK DEF Inv, RestOK, CancelIntent
<1> QED  BY <1>1, <1>2, <1>3 DEF Inv

LEMMA CancelStatusInv == ASSUME Inv, NEW c \in Calls, CancelStatus(c) PROVE Inv'
<1>0. close[c].run \in Runs /\ "cancelled" \in Hints
  BY CallIsNoRun, AtStep DEF CancelStatus, Inv, CloseSteps, Hints
<1>1. RowsOK'
  <2>1. Fits(UpdateRunStatus(row[close[c].run], "cancelled"), home[close[c].run])
    BY <1>0, UpdateFits DEF Inv, RowsOK
  <2>2. CASE row' = [row EXCEPT ![close[c].run] = UpdateRunStatus(@, "cancelled")]
    BY <1>0, <2>1, <2>2, OneRow DEF Inv, CancelStatus
  <2>3. CASE UNCHANGED row
    BY <2>3, SameRows DEF Inv, CancelStatus
  <2> QED  BY <2>2, <2>3 DEF CancelStatus
<1>2. TasksOK'  BY CallChange DEF CancelStatus, Inv
<1>3. RestOK'
  BY FaultOK DEF Inv, RestOK, CancelStatus
<1> QED  BY <1>1, <1>2, <1>3 DEF Inv

LEMMA IntentInv == ASSUME Inv, NEW p \in Closers, Intent(p) PROVE Inv'
<1>0. /\ close[p] \in Closing /\ close[p].run \in Runs /\ close[p].want \in Hints
      /\ "status" \in CloseSteps
  BY AtStep DEF Intent, Inv, CloseSteps
<1>1. RowsOK'
  <2>1. Fits(RecordRunTerminalIntent(row[close[p].run], close[p].want), home[close[p].run])
    BY <1>0, IntentFits DEF Inv, RowsOK
  <2>2. CASE row' = [row EXCEPT ![close[p].run] =
                                   RecordRunTerminalIntent(@, close[p].want)]
    BY <1>0, <2>1, <2>2, OneRow DEF Inv, Intent
  <2>3. CASE UNCHANGED row
    BY <2>3, SameRows DEF Inv, Intent
  <2> QED  BY <2>2, <2>3 DEF Intent
<1>2. TasksOK'
  BY <1>0, GotoOK, RemoveOK DEF Intent, Inv
<1>3. RestOK'
  BY FaultOK DEF Inv, RestOK, Intent
<1> QED  BY <1>1, <1>2, <1>3 DEF Inv

LEMMA AfterStatusStep == ASSUME NEW c PROVE AfterStatus(c) \in CloseSteps
  BY DEF AfterStatus, CloseSteps

LEMMA StatusInv == ASSUME Inv, NEW p \in Closers, Status(p) PROVE Inv'
<1>0. close[p] \in Closing /\ close[p].run \in Runs /\ close[p].want \in Hints
  BY AtStep DEF Status, Inv, CloseSteps
<1>1. RowsOK'
  <2>1. Fits(UpdateRunStatus(row[close[p].run], close[p].want), home[close[p].run])
    BY <1>0, UpdateFits DEF Inv, RowsOK
  <2>2. CASE row' = [row EXCEPT ![close[p].run] = UpdateRunStatus(@, close[p].want)]
    BY <1>0, <2>1, <2>2, OneRow DEF Inv, Status
  <2>3. CASE UNCHANGED row
    BY <2>3, SameRows DEF Inv, Status
  <2> QED  BY <2>2, <2>3 DEF Status
<1>2. TasksOK'
  <2>1. CASE Goto(p, AfterStatus(close[p]))
    BY <1>0, <2>1, GotoOK, AfterStatusStep DEF Status, Inv
  <2>2. CASE RemoveEntry(p, close[p].run, close[p].at)
    BY <1>0, <2>2, RemoveOK DEF Status, Inv
  <2>3. CASE /\ close' = [close EXCEPT ![p] = Done]
             /\ task' = IF p = close[p].run THEN [task EXCEPT ![close[p].run] = "ended"]
                                            ELSE task
             /\ UNCHANGED <<hb, reg>>
    <3>1. p \in Runs => spawn[p] # "idle"
      BY <1>0, SpawnedHome, NotIdle DEF Inv
    <3>2. "ended" \in TaskStates  BY DEF TaskStates
    <3>3. CASE p = close[p].run
      BY <1>0, <2>3, <3>1, <3>2, <3>3, ClosersOK DEF Status, Inv, TasksOK
    <3>4. CASE p # close[p].run
      BY <1>0, <2>3, <3>1, <3>2, <3>4, ClosersOK DEF Status, Inv, TasksOK
    <3> QED  BY <3>3, <3>4
  <2> QED  BY <2>1, <2>2, <2>3 DEF Status
<1>3. RestOK'
  BY FaultOK DEF Inv, RestOK, Status
<1> QED  BY <1>1, <1>2, <1>3 DEF Inv

LEMMA UnownedIntentInv == ASSUME Inv, NEW p \in Closers, UnownedIntent(p) PROVE Inv'
<1>0. /\ close[p] \in Closing /\ close[p].run \in Runs /\ close[p].want \in Hints
      /\ "status" \in CloseSteps
  BY AtStep DEF UnownedIntent, Inv, CloseSteps
<1>1. RowsOK'
  <2>1. Fits(RecordRunTerminalIntent(row[close[p].run], close[p].want), home[close[p].run])
    BY <1>0, IntentFits DEF Inv, RowsOK
  <2>2. CASE row' = [row EXCEPT ![close[p].run] =
                                   RecordRunTerminalIntent(@, close[p].want)]
    BY <1>0, <2>1, <2>2, OneRow DEF Inv, UnownedIntent
  <2>3. CASE UNCHANGED row
    BY <2>3, SameRows DEF Inv, UnownedIntent
  <2>4. CASE row' = [row EXCEPT ![close[p].run] = @]
    BY <2>4, <2>3 DEF Inv, RowsOK
  <2> QED  BY <2>2, <2>3, <2>4 DEF UnownedIntent
<1>2. TasksOK'  BY <1>0, GotoOK DEF UnownedIntent, Inv
<1>3. RestOK'
  BY FaultOK DEF Inv, RestOK, UnownedIntent
<1> QED  BY <1>1, <1>2, <1>3 DEF Inv

LEMMA UnownedStatusInv == ASSUME Inv, NEW p \in Closers, UnownedStatus(p) PROVE Inv'
<1>0. close[p] \in Closing /\ close[p].run \in Runs /\ close[p].want \in Hints
  BY AtStep DEF UnownedStatus, Inv, CloseSteps
<1>1. RowsOK'
  <2>1. Fits(UpdateRunStatus(row[close[p].run], close[p].want), home[close[p].run])
    BY <1>0, UpdateFits DEF Inv, RowsOK
  <2>2. CASE row' = [row EXCEPT ![close[p].run] = UpdateRunStatus(@, close[p].want)]
    BY <1>0, <2>1, <2>2, OneRow DEF Inv, UnownedStatus
  <2>3. CASE UNCHANGED row
    BY <2>3, SameRows DEF Inv, UnownedStatus
  <2> QED  BY <2>2, <2>3 DEF UnownedStatus
<1>2. TasksOK'  BY <1>0, GotoOK, AfterStatusStep DEF UnownedStatus, Inv
<1>3. RestOK'
  BY FaultOK DEF Inv, RestOK, UnownedStatus
<1> QED  BY <1>1, <1>2, <1>3 DEF Inv

LEMMA TerminalEventInv == ASSUME Inv, NEW p \in Closers, TerminalEvent(p) PROVE Inv'
<1>0. /\ close[p] \in Closing /\ close[p].run \in Runs /\ close[p].want \in Hints
      /\ {"release", "cleanup"} \subseteq CloseSteps
  BY AtStep DEF TerminalEvent, Inv, CloseSteps
<1>1. TasksOK'  BY <1>0, GotoOK DEF TerminalEvent, Inv
<1>2. RestOK'
  <2>1. close[p].want \in EventKinds  BY <1>0 DEF EventKinds, Terminal, Hints
  <2>2. log' \in [Runs -> Seq(EventKinds)]
    BY <1>0, <2>1, OneEvent DEF Inv, RestOK, TerminalEvent
  <2> QED  BY <2>2, FaultOK DEF Inv, RestOK, TerminalEvent
<1> QED  BY <1>1, <1>2, SameRows DEF Inv, TerminalEvent

LEMMA ReleaseEventInv == ASSUME Inv, NEW p \in Closers, ReleaseEvent(p) PROVE Inv'
<1>0. close[p] \in Closing /\ close[p].run \in Runs /\ "cleanup" \in CloseSteps
  BY AtStep DEF ReleaseEvent, Inv, CloseSteps
<1>1. TasksOK'  BY <1>0, GotoOK DEF ReleaseEvent, Inv
<1>2. RestOK'
  <2>1. "released" \in EventKinds  BY DEF EventKinds
  <2>2. log' \in [Runs -> Seq(EventKinds)]
    BY <1>0, <2>1, OneEvent DEF Inv, RestOK, ReleaseEvent
  <2> QED  BY <2>2, FaultOK DEF Inv, RestOK, ReleaseEvent
<1> QED  BY <1>1, <1>2, SameRows DEF Inv, ReleaseEvent

LEMMA CleanupInv == ASSUME Inv, NEW p \in Closers, Cleanup(p) PROVE Inv'
<1>0. close[p] \in Closing /\ close[p].run \in Runs /\ "remove" \in CloseSteps
  BY AtStep DEF Cleanup, Inv, CloseSteps
<1>1. TasksOK'  BY <1>0, GotoOK DEF Cleanup, Inv
<1>2. RestOK'  BY <1>0 DEF Inv, RestOK, Cleanup
<1> QED  BY <1>1, <1>2, SameRows DEF Inv, Cleanup

LEMMA RemoveInv == ASSUME Inv, NEW p \in Closers, Remove(p) PROVE Inv'
<1>0. close[p] \in Closing /\ close[p].run \in Runs
  BY AtStep DEF Remove, Inv, CloseSteps
<1>1. TasksOK'  BY <1>0, RemoveOK DEF Remove, Inv
<1> QED  BY <1>1, SameRows, SameRest DEF Inv, Remove

LEMMA DropCallInv == ASSUME Inv, NEW c \in Calls, DropCall(c) PROVE Inv'
<1>1. TasksOK'  BY CallChange DEF DropCall, Inv
<1>2. RestOK'  BY ManagedRunAssumption DEF Inv, RestOK, DropCall
<1> QED  BY <1>1, <1>2, SameRows DEF Inv, DropCall

-----------------------------------------------------------------------------
(* The sweep, crashes and restarts. *)
LEMMA NoRowRow == NoRow \in Row /\ NoRows \in [Runs -> Row]
  BY DEF NoRow, NoRows, Row, RunStatus, Leases

LEMMA SweepSelectInv == ASSUME Inv, NEW w \in Workers, SweepSelect(w) PROVE Inv'
<1>1. sweep' \in [Workers -> [Runs -> Row]]
  <2> DEFINE read == [r \in Runs |-> IF Reconcilable(row[r]) THEN row[r] ELSE NoRow]
  <2>1. read \in [Runs -> Row]  BY NoRowRow DEF Inv, RowsOK
  <2>2. sweep' = [sweep EXCEPT ![w] = read]  BY DEF SweepSelect
  <2> HIDE DEF read
  <2> QED  BY <2>1, <2>2 DEF Inv, RestOK
<1> QED  BY <1>1, SameRows, SameTasks DEF Inv, RestOK, SweepSelect

LEMMA ReconcileEventsType == ASSUME NEW x \in Row PROVE ReconcileEvents(x) \in Seq(EventKinds)
<1>1. ReconciledStatus(x) \in EventKinds /\ "released" \in EventKinds
  BY ReconciledTerminal DEF EventKinds
<1> QED  BY <1>1 DEF ReconcileEvents

LEMMA SweepCommitInv == ASSUME Inv, NEW w \in Workers, SweepCommit(w) PROVE Inv'
<1>0. \A r \in Runs : sweep[w][r] \in Row  BY DEF Inv, RestOK
<1>1. RowsOK'
  <2>1. \A r \in Runs : Fits(ReconcileRun(row[r], sweep[w][r]), home[r])
    BY <1>0, ReconcileFits DEF Inv, RowsOK
  <2>2. \A r \in Runs : Fits(row'[r], home'[r])
    BY <2>1 DEF SweepCommit, Inv, RowsOK
  <2>3. row' = [r \in Runs |-> row'[r]]  BY DEF SweepCommit
  <2> QED  BY <2>2, <2>3 DEF RowsOK, Fits
<1>2. log' \in [Runs -> Seq(EventKinds)]
  <2>1. \A r \in Runs : ReconcileEvents(sweep[w][r]) \in Seq(EventKinds)
    BY <1>0, ReconcileEventsType
  <2>2. ASSUME NEW r \in Runs PROVE log[r] \o ReconcileEvents(sweep[w][r]) \in Seq(EventKinds)
    BY <2>1 DEF Inv, RestOK
  <2> QED  BY <2>2 DEF SweepCommit, Inv, RestOK
<1>3. sweep' \in [Workers -> [Runs -> Row]]
  BY NoRowRow DEF SweepCommit, Inv, RestOK
<1> QED  BY <1>1, <1>2, <1>3, SameTasks DEF Inv, RestOK, SweepCommit

LEMMA SweepFailsInv == ASSUME Inv, NEW w \in Workers, SweepFails(w) PROVE Inv'
<1>1. sweep' \in [Workers -> [Runs -> Row]]
  BY NoRowRow DEF SweepFails, Inv, RestOK
<1> QED  BY <1>1, SameRows, SameTasks, FaultOK DEF Inv, RestOK, SweepFails

LEMMA StartWorkerInv == ASSUME Inv, NEW w \in Workers, StartWorker(w) PROVE Inv'
<1>1. worker' \in [Workers -> {"new", "up", "down"}]
  BY DEF StartWorker, Inv, RestOK
<1> QED  BY <1>1, SameRows, SameTasks DEF Inv, RestOK, StartWorker

LEMMA CrashInv == ASSUME Inv, NEW w \in Workers, Crash(w) PROVE Inv'
<1>1. TasksOK'
  <2>1. close' \in [Closers -> Closing \cup {Idle, Done}]
    BY DEF Crash, Inv, TasksOK
  <2>2. spawn' \in [Runs -> SpawnStates] /\ task' \in [Runs -> TaskStates]
    BY DEF Crash, Inv, TasksOK, SpawnStates, TaskStates
  <2>3. /\ hb' \in [Runs -> {"none", "beating", "stopped"}]
        /\ reg' \in [Runs -> {Absent, "running"} \cup Hints]
        /\ home' \in [Runs -> Workers \cup {NoWorker}]
    BY DEF Crash, Inv, TasksOK
  <2>4. HomeOK'
    BY DEF Crash, Inv, TasksOK, HomeOK, Closers, Active, Idle
  <2> QED  BY <2>1, <2>2, <2>3, <2>4 DEF TasksOK
<1>2. RestOK'
  BY NoRowRow DEF Crash, Inv, RestOK
<1> QED  BY <1>1, <1>2, SameRows DEF Inv, Crash

-----------------------------------------------------------------------------
(* Together. *)
LEMMA InitInv == Init => Inv
<1> SUFFICES ASSUME Init PROVE Inv  OBVIOUS
<1>1. RowsOK  BY NoRowRow DEF Init, RowsOK, Fits, NoRow
<1>2. TasksOK
  BY ManagedRunAssumption DEF Init, TasksOK, HomeOK, SpawnStates, TaskStates, Closers
<1>3. RestOK
  <2>1. worker \in [Workers -> {"new", "up", "down"}]  BY DEF Init
  <2>2. <<>> \in Seq(EventKinds)  OBVIOUS
  <2> QED  BY <2>1, <2>2, NoRowRow, ManagedRunAssumption DEF Init, RestOK
<1> QED  BY <1>1, <1>2, <1>3 DEF Inv

LEMMA StutterInv == ASSUME Inv, UNCHANGED vars PROVE Inv'
<1>1. RowsOK' /\ TasksOK' /\ RestOK'
  BY SameRows, SameTasks, SameRest DEF Inv, vars
<1> QED  BY <1>1 DEF Inv

LEMMA NextInv == Inv /\ [Next]_vars => Inv'
<1> SUFFICES ASSUME Inv, [Next]_vars PROVE Inv'  OBVIOUS
<1>1. CASE \E r \in Runs : RunStep(r)
  <2> PICK r \in Runs : RunStep(r)  BY <1>1
  <2>1. CASE SpawnStep(r)
    BY <2>1, BuildFailsInv, FailIntentInv, FailStatusInv, FailEventInv, ClaimInv,
       StartTasksInv, RegisterOwnedInv, RunStartedInv DEF SpawnStep
  <2> QED
    BY <2>1, CreateInv, DropSpawnInv, HeartbeatInv, LeaseExpiresInv, AgentReturnsInv,
       AgentPanicsInv DEF RunStep
<1>2. CASE \E c \in Calls : CallStep(c)
  BY <1>2, RespondInv, TimeoutOverDisconnectInv, OutcomeDroppedInv, CancelReadInv,
     CancelRouteInv, CancelIntentInv, CancelStatusInv, DropCallInv
  DEF CallStep, CancelStep
<1>3. CASE \E p \in Closers : CloseStep(p)
  BY <1>3, IntentInv, StatusInv, UnownedIntentInv, UnownedStatusInv, TerminalEventInv,
     ReleaseEventInv, CleanupInv, RemoveInv DEF CloseStep
<1>4. CASE \E w \in Workers : WorkerStep(w)
  BY <1>4, SweepSelectInv, SweepCommitInv, SweepFailsInv, StartWorkerInv, CrashInv
  DEF WorkerStep
<1> QED  BY <1>1, <1>2, <1>3, <1>4, StutterInv DEF Next

LEMMA AlwaysInv == Spec => []Inv
  BY InitInv, NextInv, PTL DEF Spec

\* In every reachable state, of any number of gateways, runs and callers,
\* every variable stays in its set (the rows of the runs table among them).
THEOREM TypesHold == Spec => []TypeOK
<1>1. Inv => TypeOK  BY InvParts DEF IInv
<1> QED  BY <1>1, AlwaysInv, PTL

\* claim_run_ownership, the terminal updates, recovery and cancellation never
\* leave an owner on a run that is not running, and never another gateway's.
THEOREM OwnershipHolds == Spec => []OwnerIsHome
<1>1. Inv => OwnerIsHome  BY InvParts DEF IInv
<1> QED  BY <1>1, AlwaysInv, PTL

\* A terminal update that passes the compare-and-set on the claim token meets
\* a running row, though its WHERE clause does not ask for the status.
THEOREM FenceHolds == Spec => FencedWriter
<1>1. Inv /\ [Next]_vars =>
        [\A p \in Closers : Status(p) =>
           \A r \in Runs : row'[r] # row[r] => row[r].status = "running"]_vars
  <2> SUFFICES ASSUME Inv, NEW p \in Closers, Status(p), NEW r \in Runs, row'[r] # row[r]
               PROVE  row[r].status = "running"
    OBVIOUS
  <2>1. close[p] \in Closing /\ close[p].run \in Runs /\ close[p].at \in Workers
    BY AtStep DEF Status, Inv, CloseSteps
  <2>2. r = close[p].run /\ OwnedBy(row[r], close[p].at)
    BY <2>1 DEF Status, Inv, RowsOK
  <2>3. row[r].owner # NoWorker
    BY <2>1, <2>2, NoWorkerAssumption DEF OwnedBy
  <2> QED  BY <2>3 DEF Inv, RowsOK, Fits
<1> QED  BY <1>1, AlwaysInv, PTL DEF Spec, FencedWriter

-----------------------------------------------------------------------------
(* How the runs of one gateway end: nothing executes a run that has been   *)
(* ended (NoOrphanExecution), a started run is told to have ended at most  *)
(* once (OneEnding), what its own task ends it ends completely             *)
(* (EndsCompletely), and clients see the lifecycle of RunLifecycle.        *)
(*                                                                         *)
(* These hold of a gateway that is alone on its state database, whose store*)
(* calls succeed, that renews its leases in time and gets no request to    *)
(* cancel a run, for any number of runs, responders, crashes, restarts and *)
(* lost clients.  Without any one of the four they do not.                 *)

\* The hypotheses of the theorems that follow.
Alone == /\ MaxUp = 1
         /\ MaxFaults = 0
         /\ Prompt
         /\ ApiCalls = {}
         /\ IsFiniteSet(Workers)

-----------------------------------------------------------------------------
(* The inductive invariant. *)
Building == {"created", "failIntent", "failStatus", "failEvent"}
HomeUp(r) == worker[home[r]] = "up"
Works(p, r) == Active(p) /\ close[p].run = r
Nobody(r) == \A p \in Closers : ~Works(p, r)
Only(p, r) == \A q \in Closers : Works(q, r) => q = p

\* A closer that will write the row whatever the row says by then.
Blind(c) == c.pc = "unowned" \/ (c.pc = "status" /\ ~c.owned)

\* The row and its events, until the run's tasks are started.
RowLife(r) ==
  /\ row[r].status = Absent <=> spawn[r] = "idle"
  /\ row[r].status = "running" <=> row[r].owner # NoWorker
  /\ row[r].owner = NoWorker => row[r].lease = "none"
  /\ ~IsTerminal(row[r].status) => Endings(r) = {}
  /\ spawn[r] \in {"created", "failIntent"} =>
       /\ row[r].status \in {"pending", "interrupted"}
       /\ row[r].hint = NoHint /\ ~row[r].cancelRequested
  /\ spawn[r] = "failStatus" =>
       /\ row[r].status \in {"pending", "interrupted", "failed"}
       /\ row[r].status = "pending" => row[r].hint = "failed"
  /\ spawn[r] = "failEvent" => row[r].status = "failed"
  /\ spawn[r] = "claimed" => row[r].status = "running" /\ row[r].lease = "live"
  /\ spawn[r] \in {"idle"} \cup Building => \A i \in DOMAIN log[r] : log[r][i] # "claimed"

\* The tasks are started once, by a handler of a gateway that is up.
StartLife(r) ==
  /\ hb[r] = "none" =>
       /\ task[r] = "none" /\ reg[r] = Absent /\ Nobody(r)
       /\ spawn[r] \in {"idle", "claimed", "dropped"} \cup Building
  /\ hb[r] # "none" =>
       /\ spawn[r] \in {"spawned", "registered", "done", "dropped"}
       /\ row[r].status \in {"running"} \cup Terminal
  /\ spawn[r] \in Building \cup {"claimed", "spawned", "registered"} => HomeUp(r)
  /\ spawn[r] = "idle" => home[r] = NoWorker
  /\ spawn[r] # "idle" => worker[home[r]] # "new"

\* What executes, or is registered as running, holds a live lease.
TaskLife(r) ==
  /\ task[r] = "executing" =>
       /\ row[r].status = "running" /\ row[r].lease = "live" /\ hb[r] = "beating"
       /\ HomeUp(r) /\ Nobody(r)
       /\ spawn[r] # "spawned" => reg[r] = "running"
  /\ spawn[r] = "spawned" =>
       /\ reg[r] = Absent
       /\ row[r].status = "running" => hb[r] = "beating" /\ row[r].lease = "live"
  /\ reg[r] # Absent => HomeUp(r)
  /\ reg[r] = "running" /\ row[r].status = "running" =>
       hb[r] = "beating" /\ row[r].lease = "live"
  /\ reg[r] = Absent /\ hb[r] # "none" /\ HomeUp(r) /\ spawn[r] # "spawned"
       => IsTerminal(row[r].status)

\* A closer c of r, in the slot p.
CloserLife(p, r) ==
  LET c == close[p] IN
    /\ p \in Runs => p = r /\ task[r] = "closing"
    /\ p \in Calls => spawn[r] = "done"
    /\ c.at = home[r] /\ HomeUp(r) /\ hb[r] # "none"
    /\ c.pc \notin {"route", "cancelIntent", "cancelStatus"}
    /\ c.pc = "intent" => c.owned
    /\ Blind(c) => /\ p = r /\ Only(p, r) /\ ~c.was /\ ~c.owned
                   /\ row[r].status = "running" /\ row[r].lease = "live"
    /\ c.pc \in {"event", "release", "cleanup", "remove"} => IsTerminal(row[r].status)
    /\ c.pc = "event" =>
         /\ ~c.was /\ row[r].status = c.want /\ Endings(r) = {}
         /\ \A q \in Closers : Works(q, r) /\ close[q].pc = "event" => q = p
CloseLife(r) == \A p \in Closers : Works(p, r) => CloserLife(p, r)

EventLife(r) ==
  hb[r] # "none" => \A i, j \in Endings(r) : i = j /\ row[r].status = log[r][i]

\* What a sweep has read is still so when it writes.
SweepLife(r) ==
  \A w \in Workers : Read(w, r) => sweep[w][r] = row[r] /\ Reconcilable(row[r])

Life(r) == /\ RowLife(r) /\ StartLife(r) /\ TaskLife(r)
           /\ CloseLife(r) /\ EventLife(r) /\ SweepLife(r)
GatewayLife ==
  /\ \A v, w \in Workers : worker[v] = "up" /\ worker[w] = "up" => v = w
  /\ \A w \in Workers : worker[w] # "up" => sweep[w] = NoRows
  /\ faults = 0

Lives == GatewayLife /\ \A r \in Runs : Life(r)

-----------------------------------------------------------------------------
(* What a step leaves alone. *)
Untouched(q) ==
  /\ row'[q] = row[q] /\ log'[q] = log[q] /\ home'[q] = home[q]
  /\ spawn'[q] = spawn[q] /\ task'[q] = task[q] /\ hb'[q] = hb[q] /\ reg'[q] = reg[q]
  /\ \A p \in Closers : /\ Works(p, q)' <=> Works(p, q)
                        /\ Works(p, q) => close'[p] = close[p]

LEMMA Frame == ASSUME NEW q \in Runs, Life(q), Untouched(q), UNCHANGED <<worker, sweep>>
               PROVE  Life(q)'
<1>1. Endings(q)' = Endings(q)  BY DEF Endings, Untouched
<1>2. HomeUp(q)' <=> HomeUp(q)  BY DEF HomeUp, Untouched
<1>3. RowLife(q)'  BY <1>1 DEF Life, RowLife, Untouched
<1>4. Nobody(q)' <=> Nobody(q)  BY DEF Nobody, Untouched
<1>5. StartLife(q)'  BY <1>2, <1>4 DEF Life, StartLife, Untouched
<1>6. TaskLife(q)'  BY <1>2, <1>4 DEF Life, TaskLife, Untouched
<1>7. CloseLife(q)'
  <2> SUFFICES ASSUME NEW p \in Closers, Works(p, q)' PROVE CloserLife(p, q)'
    BY DEF CloseLife
  <2>1. close'[p] = close[p] /\ CloserLife(p, q)  BY DEF Untouched, Life, CloseLife
  <2>2. Only(p, q)' <=> Only(p, q)  BY DEF Only, Untouched
  <2>3. \A r \in Closers : Works(r, q)' => Works(r, q) /\ close'[r] = close[r]
    BY DEF Untouched
  <2> QED  BY <1>1, <1>2, <2>1, <2>2, <2>3 DEF CloserLife, Untouched, Blind
<1>8. EventLife(q)'  BY <1>1 DEF Life, EventLife, Untouched
<1>9. SweepLife(q)'  BY DEF Life, SweepLife, Untouched, Read
<1> QED  BY <1>3, <1>5, <1>6, <1>7, <1>8, <1>9 DEF Life

\* While a store call is made no sweep holds rows it has read.
LEMMA NothingRead == ASSUME Inv, Lives, NEW v \in Workers, ConnFree(v)
                     PROVE  \A w \in Workers, r \in Runs : ~Read(w, r)
<1> SUFFICES ASSUME NEW w \in Workers, NEW r \in Runs PROVE ~Read(w, r)
  OBVIOUS
<1>1. sweep[w] = NoRows  BY DEF Lives, GatewayLife, ConnFree
<1> QED  BY <1>1 DEF Read, NoRows, NoRow

LEMMA NoFault == ASSUME Alone, Lives PROVE ~Fault
  BY DEF Alone, Lives, GatewayLife, Fault

\* A step of the run r alone.
LEMMA OneRun == ASSUME Lives, NEW r \in Runs, \A q \in Runs \ {r} : Untouched(q), Life(r)',
                       UNCHANGED <<worker, sweep, faults>>
                PROVE  Lives'
<1>1. \A q \in Runs : Life(q)'  BY Frame DEF Lives
<1>2. GatewayLife'  BY DEF Lives, GatewayLife
<1> QED  BY <1>1, <1>2 DEF Lives

\* Of a run that was not started yet, only row, handler and gateway say anything.
LEMMA NotStarted ==
  ASSUME NEW r \in Runs, hb'[r] = "none", task'[r] = "none", reg'[r] = Absent, Nobody(r)',
         spawn'[r] # "spawned"
  PROVE  TaskLife(r)' /\ CloseLife(r)' /\ EventLife(r)'
  BY DEF TaskLife, CloseLife, EventLife, Nobody, Absent

LEMMA Unstarted ==
  ASSUME NEW r \in Runs, Life(r), spawn[r] \in {"idle", "claimed"} \cup Building
  PROVE  hb[r] = "none" /\ task[r] = "none" /\ reg[r] = Absent /\ Nobody(r)
  BY DEF Life, StartLife, Building

LEMMA SameEndings == ASSUME NEW r \in Runs, UNCHANGED log PROVE Endings(r)' = Endings(r)
  BY DEF Endings

\* An event that ends nothing.
LEMMA PlainEvent == ASSUME Inv, NEW r \in Runs, NEW k \in {"created", "claimed", "started", "released"},
                           log'[r] = Append(log[r], k)
                    PROVE  Endings(r)' = Endings(r) /\ \A i \in Endings(r) : log'[r][i] = log[r][i]
<1>1. log[r] \in Seq(EventKinds)  BY DEF Inv, RestOK
<1> QED  BY <1>1 DEF Endings, IsTerminal, Terminal

-----------------------------------------------------------------------------
(* The statements on a row, by column. *)
LEMMA IntentColumns ==
  ASSUME NEW x \in Row, NEW s
  PROVE  LET y == RecordRunTerminalIntent(x, s) IN
           y.status = x.status /\ y.owner = x.owner /\ y.lease = x.lease /\ y.hint = s
  BY DEF RecordRunTerminalIntent, Row

LEMMA UpdateColumns ==
  ASSUME NEW x \in Row, NEW s \in Hints
  PROVE  LET y == UpdateRunStatus(x, s) IN
           y.status = s /\ y.owner = NoWorker /\ y.lease = "none" /\ y.hint = NoHint
<1>1. IsTerminal(s)  BY DEF IsTerminal, Terminal, Hints
<1> QED  BY <1>1 DEF UpdateRunStatus, Row

LEMMA ClaimColumns ==
  ASSUME NEW x \in Row, NEW w
  PROVE  LET y == ClaimRunOwnership(x, w) IN
           y.status = "running" /\ y.owner = w /\ y.lease = "live"
  BY DEF ClaimRunOwnership, Row

-----------------------------------------------------------------------------
(* The spawning handler. *)
LEMMA CreateLife == ASSUME Alone, Inv, Lives, NEW r \in Runs, NEW w \in Workers, Create(r, w)
                    PROVE  Lives'
<1>1. \A q \in Runs \ {r} : Untouched(q)
  BY DEF Create, Logged, Untouched, Works, Active, Inv, RowsOK, RestOK, TasksOK
<1>2. Life(r)'
  <2>0. Life(r)  BY DEF Lives
  <2>1. /\ row'[r] = CreateRun /\ log'[r] = Append(log[r], "created") /\ home'[r] = w
        /\ spawn'[r] = "created" /\ task'[r] = task[r] /\ hb'[r] = hb[r] /\ reg'[r] = reg[r]
    BY DEF Create, Logged, Inv, RowsOK, RestOK, TasksOK
  <2>2. Endings(r) = {}
    BY <2>0 DEF Life, RowLife, Create, IsTerminal, Terminal, Absent
  <2>3. Endings(r)' = {}
    BY <2>1, <2>2, PlainEvent
  <2>4. RowLife(r)'
    BY <2>0, <2>1, <2>3 DEF Life, RowLife, Create, CreateRun, NoRow, Building, Absent, Inv, RestOK
  <2>5. HomeUp(r)'  BY <2>1 DEF HomeUp, Create, ConnFree
  <2>6. Nobody(r)' /\ task[r] = "none" /\ hb[r] = "none" /\ reg[r] = Absent
    BY <2>0, Unstarted DEF Create, Nobody, Works, Active
  <2>7. StartLife(r)'  BY <2>1, <2>5, <2>6 DEF StartLife, Building, HomeUp
  <2>8. SweepLife(r)'  BY NothingRead DEF SweepLife, Read, Create
  <2> QED  BY <2>1, <2>4, <2>6, <2>7, <2>8, NotStarted DEF Life
<1> QED  BY <1>1, <1>2, OneRun DEF Create

\* Before the tasks are started a step changes the row, the events and how far
\* the handler got.
LEMMA BuilderLife ==
  ASSUME Alone, Inv, Lives, NEW r \in Runs, spawn[r] \in Building \cup {"claimed"},
         NEW s \in Building \cup {"claimed", "dropped"}, spawn' = [spawn EXCEPT ![r] = s],
         NEW x \in Row, row' = [row EXCEPT ![r] = x],
         \A q \in Runs \ {r} : log'[q] = log[q], RowLife(r)', SweepLife(r)',
         UNCHANGED <<worker, sweep, home, task, hb, reg, close, faults>>
  PROVE  Lives'
<1>1. \A q \in Runs \ {r} : Untouched(q)
  BY DEF Untouched, Works, Active, Inv, RowsOK, TasksOK
<1>2. Life(r)'
  <2>0. Life(r)  BY DEF Lives
  <2>1. spawn'[r] = s  BY DEF Inv, TasksOK
  <2>2. hb[r] = "none" /\ task[r] = "none" /\ reg[r] = Absent /\ Nobody(r) /\ Nobody(r)'
    BY <2>0, Unstarted DEF Nobody, Works, Active
  <2>3. StartLife(r)'
    BY <2>0, <2>1, <2>2 DEF Life, StartLife, Building, HomeUp
  <2> QED  BY <2>1, <2>2, <2>3, NotStarted DEF Life, Building
<1> QED  BY <1>1, <1>2, OneRun

LEMMA BuildFailsLife == ASSUME Alone, Inv, Lives, NEW r \in Runs, BuildFails(r) PROVE Lives'
<1>0. Life(r) /\ spawn'[r] = "failIntent" /\ row[r] \in Row /\ row' = [row EXCEPT ![r] = row[r]]
  BY DEF Lives, BuildFails, Inv, RowsOK, TasksOK
<1>1. RowLife(r)'
  BY <1>0, SameEndings DEF Life, RowLife, BuildFails, Building, Absent
<1>2. SweepLife(r)'  BY <1>0 DEF Life, SweepLife, BuildFails, Read
<1> QED  BY <1>0, <1>1, <1>2, BuilderLife DEF BuildFails, Building

LEMMA FailIntentLife == ASSUME Alone, Inv, Lives, NEW r \in Runs, FailIntent(r) PROVE Lives'
<1>0. /\ Life(r) /\ row[r] \in Row /\ spawn'[r] = "failStatus"
      /\ row' = [row EXCEPT ![r] = RecordRunTerminalIntent(row[r], "failed")]
      /\ row'[r] = RecordRunTerminalIntent(row[r], "failed") /\ UNCHANGED <<log, faults>>
  BY NoFault DEF Lives, FailIntent, Inv, RowsOK, TasksOK
<1>1. row'[r] \in Row  BY <1>0, IntentFits DEF Inv, RowsOK, Fits, Hints
<1>2. RowLife(r)'
  BY <1>0, SameEndings, IntentColumns DEF Life, RowLife, FailIntent, Building, Absent
<1>3. SweepLife(r)'
  BY <1>0, HasHome, NothingRead DEF SweepLife, FailIntent, Read, Inv
<1> QED  BY <1>0, <1>1, <1>2, <1>3, BuilderLife DEF FailIntent, Building

LEMMA FailStatusLife == ASSUME Alone, Inv, Lives, NEW r \in Runs, FailStatus(r) PROVE Lives'
<1>0. /\ Life(r) /\ row[r] \in Row /\ spawn'[r] = "failEvent"
      /\ row' = [row EXCEPT ![r] = UpdateRunStatus(row[r], "failed")]
      /\ row'[r] = UpdateRunStatus(row[r], "failed") /\ UNCHANGED <<log, faults>>
  BY NoFault DEF Lives, FailStatus, Inv, RowsOK, TasksOK
<1>1. row'[r] \in Row /\ "failed" \in Hints  BY <1>0, UpdateFits DEF Inv, RowsOK, Fits, Hints
<1>2. RowLife(r)'
  BY <1>0, <1>1, SameEndings, UpdateColumns
  DEF Life, RowLife, FailStatus, Building, Absent, IsTerminal, Terminal
<1>3. SweepLife(r)'
  BY <1>0, HasHome, NothingRead DEF SweepLife, FailStatus, Read, Inv
<1> QED  BY <1>0, <1>1, <1>2, <1>3, BuilderLife DEF FailStatus, Building

LEMMA FailEventLife == ASSUME Alone, Inv, Lives, NEW r \in Runs, FailEvent(r) PROVE Lives'
<1>0. /\ Life(r) /\ row[r] \in Row /\ spawn'[r] = "dropped" /\ row' = [row EXCEPT ![r] = row[r]]
      /\ (\A q \in Runs \ {r} : log'[q] = log[q]) /\ UNCHANGED faults
  BY NoFault DEF Lives, FailEvent, Logged, Inv, RowsOK, RestOK, TasksOK
<1>1. RowLife(r)'
  BY <1>0 DEF Life, RowLife, FailEvent, Building, Absent, IsTerminal, Terminal
<1>2. SweepLife(r)'  BY <1>0 DEF Life, SweepLife, FailEvent, Read
<1> QED  BY <1>0, <1>1, <1>2, BuilderLife DEF FailEvent, Building

LEMMA ClaimLife == ASSUME Alone, Inv, Lives, NEW r \in Runs, Claim(r) PROVE Lives'
<1>0. Life(r) /\ row[r] \in Row /\ home[r] \in Workers /\ spawn[r] = "created"
  BY HasHome DEF Lives, Claim, Inv, RowsOK
<1>1. SweepLife(r)'
  BY <1>0, NothingRead DEF SweepLife, Claim, Read
<1>2. CASE Claimable(row[r])
  <2>1. /\ row' = [row EXCEPT ![r] = ClaimRunOwnership(row[r], home[r])]
        /\ row'[r] = ClaimRunOwnership(row[r], home[r]) /\ spawn'[r] = "claimed"
        /\ log'[r] = Append(log[r], "claimed") /\ \A q \in Runs \ {r} : log'[q] = log[q]
    BY <1>2, NoFault DEF Claim, Logged, Inv, RowsOK, RestOK, TasksOK
  <2>2. row'[r] \in Row  BY <1>0, <2>1, ClaimFits DEF Fits
  <2>3. Endings(r)' = {}
    BY <1>0, <1>2, <2>1, PlainEvent DEF Life, RowLife, Claimable, Incomplete, IsTerminal, Terminal
  <2>4. RowLife(r)'
    BY <1>0, <2>1, <2>3, NoWorkerAssumption, ClaimColumns DEF RowLife, Building, Absent
  <2> QED  BY <1>1, <2>1, <2>2, <2>4, <1>2, NoFault, BuilderLife DEF Claim, Building
<1>3. CASE ~Claimable(row[r])
  <2>1. /\ row' = [row EXCEPT ![r] = row[r]] /\ UNCHANGED log /\ spawn'[r] = "dropped"
    BY <1>0, <1>3, NoFault DEF Claim, Inv, RowsOK, TasksOK
  <2>2. RowLife(r)'
    BY <1>0, <2>1, SameEndings DEF Life, RowLife, Building, Absent
  <2> QED  BY <1>0, <1>1, <1>3, <2>1, <2>2, NoFault, BuilderLife DEF Claim, Building
<1> QED  BY <1>2, <1>3

LEMMA StartTasksLife == ASSUME Alone, Inv, Lives, NEW r \in Runs, StartTasks(r) PROVE Lives'
<1>0. /\ Life(r) /\ task'[r] = "executing" /\ hb'[r] = "beating" /\ spawn'[r] = "spawned"
      /\ UNCHANGED <<row, log, home, reg, close, worker, sweep, faults>>
  BY DEF Lives, StartTasks, Inv, TasksOK
<1>1. \A q \in Runs \ {r} : Untouched(q)
  BY DEF StartTasks, Untouched, Works, Active, Inv, TasksOK
<1>2. reg[r] = Absent /\ Nobody(r)'
  BY <1>0, Unstarted DEF StartTasks, Nobody, Works, Active
<1>3. row[r].status = "running" /\ row[r].lease = "live" /\ HomeUp(r) /\ HomeUp(r)'
  BY <1>0 DEF Life, RowLife, StartLife, StartTasks, HomeUp
<1>4. Endings(r)' = {}
  BY <1>0, <1>3, SameEndings DEF Life, RowLife, IsTerminal, Terminal
<1>5. RowLife(r)'  BY <1>0, <1>4 DEF Life, RowLife, StartTasks, Building
<1>6. StartLife(r)'  BY <1>0, <1>3 DEF StartLife, StartTasks, HomeUp
<1>7. TaskLife(r)'  BY <1>0, <1>2, <1>3 DEF TaskLife, Absent
<1>8. CloseLife(r)' /\ EventLife(r)'  BY <1>2, <1>4 DEF CloseLife, EventLife, Nobody
<1>9. SweepLife(r)'  BY <1>0 DEF Life, SweepLife, Read
<1> QED  BY <1>0, <1>1, <1>5, <1>6, <1>7, <1>8, <1>9, OneRun DEF Life

\* Steps of a started run that leave the closers and the events alone.
LEMMA SameClosers ==
  ASSUME NEW r \in Runs, Life(r), spawn[r] = spawn'[r] \/ spawn'[r] = "done",
         row'[r].status = row[r].status, row[r].lease = "live" => row'[r].lease = "live",
         UNCHANGED <<worker, home, task, close>>, log'[r] = log[r], hb[r] # "none" => hb'[r] # "none"
  PROVE  CloseLife(r)'
<1>1. Endings(r)' = Endings(r)  BY DEF Endings
<1> SUFFICES ASSUME NEW p \in Closers, Works(p, r) PROVE CloserLife(p, r)'
  BY DEF CloseLife, Works, Active
<1>2. CloserLife(p, r)  BY DEF Life, CloseLife
<1> QED  BY <1>1, <1>2 DEF CloserLife, Blind, Only, Works, Active, HomeUp

LEMMA RegisterOwnedLife == ASSUME Alone, Inv, Lives, NEW r \in Runs, RegisterOwned(r) PROVE Lives'
<1>0. /\ Life(r) /\ reg'[r] = "running" /\ spawn'[r] = "registered" /\ spawn[r] = "spawned"
      /\ UNCHANGED <<row, log, home, task, hb, close, worker, sweep, faults>>
  BY DEF Lives, RegisterOwned, Inv, TasksOK
<1>1. \A q \in Runs \ {r} : Untouched(q)
  BY DEF RegisterOwned, Untouched, Works, Active, Inv, TasksOK
<1>2. RowLife(r)'  BY <1>0, SameEndings DEF Life, RowLife, Building
<1>3. hb[r] # "none" /\ HomeUp(r) /\ HomeUp(r)'
  BY <1>0 DEF Life, StartLife, Building, HomeUp
<1>4. StartLife(r)'  BY <1>0, <1>3 DEF Life, StartLife, HomeUp, Building
<1>5. TaskLife(r)'
  BY <1>0, <1>3 DEF Life, TaskLife, Absent, HomeUp, Nobody, Works, Active
<1>6. CloseLife(r)'
  <2> SUFFICES ASSUME NEW p \in Closers, Works(p, r) PROVE CloserLife(p, r)'
    BY <1>0 DEF CloseLife, Works, Active
  <2>1. CloserLife(p, r)  BY <1>0 DEF Life, CloseLife
  <2> QED  BY <1>0, <2>1, SameEndings DEF CloserLife, Blind, Only, Works, Active, HomeUp
<1>7. EventLife(r)'  BY <1>0, SameEndings DEF Life, EventLife
<1>8. SweepLife(r)'  BY <1>0 DEF Life, SweepLife, Read
<1> QED  BY <1>0, <1>1, <1>2, <1>4, <1>5, <1>6, <1>7, <1>8, OneRun DEF Life

LEMMA RunStartedLife == ASSUME Alone, Inv, Lives, NEW r \in Runs, RunStarted(r) PROVE Lives'
<1>0. /\ Life(r) /\ spawn'[r] = "done" /\ spawn[r] = "registered"
      /\ log'[r] = Append(log[r], "started") /\ \A q \in Runs \ {r} : log'[q] = log[q]
      /\ UNCHANGED <<row, home, task, hb, reg, close, worker, sweep, faults>>
  BY NoFault DEF Lives, RunStarted, Logged, Inv, RestOK, TasksOK
<1>1. \A q \in Runs \ {r} : Untouched(q)
  BY <1>0 DEF RunStarted, Untouched, Works, Active, Inv, TasksOK
<1>2. Endings(r)' = Endings(r) /\ \A i \in Endings(r) : log'[r][i] = log[r][i]
  BY <1>0, PlainEvent
<1>3. RowLife(r)'  BY <1>0, <1>2 DEF Life, RowLife, Building
<1>4. hb[r] # "none"  BY <1>0 DEF Life, StartLife, Building
<1>5. StartLife(r)'  BY <1>0, <1>4 DEF Life, StartLife, HomeUp, Building
<1>6. TaskLife(r)'
  BY <1>0 DEF Life, TaskLife, Absent, HomeUp, Nobody, Works, Active
<1>7. CloseLife(r)'
  <2> SUFFICES ASSUME NEW p \in Closers, Works(p, r) PROVE CloserLife(p, r)'
    BY <1>0 DEF CloseLife, Works, Active
  <2>1. CloserLife(p, r)  BY <1>0 DEF Life, CloseLife
  <2> QED  BY <1>0, <1>2, <2>1 DEF CloserLife, Blind, Only, Works, Active, HomeUp
<1>8. EventLife(r)'  BY <1>0, <1>2 DEF Life, EventLife
<1>9. SweepLife(r)'  BY <1>0 DEF Life, SweepLife, Read
<1> QED  BY <1>0, <1>1, <1>3, <1>5, <1>6, <1>7, <1>8, <1>9, OneRun DEF Life

LEMMA DropSpawnLife == ASSUME Alone, Inv, Lives, NEW r \in Runs, DropSpawn(r) PROVE Lives'
<1>0. /\ Life(r) /\ spawn'[r] = "dropped" /\ spawn[r] \in Building \cup {"claimed", "registered"}
      /\ UNCHANGED <<row, log, home, task, hb, reg, close, worker, sweep, faults>>
  BY DEF Lives, DropSpawn, Inv, TasksOK, SpawnStates, Building
<1>1. \A q \in Runs \ {r} : Untouched(q)
  BY <1>0 DEF DropSpawn, Untouched, Works, Active, Inv, TasksOK
<1>2. RowLife(r)'  BY <1>0, SameEndings DEF Life, RowLife, Building
<1>3. StartLife(r)'
  BY <1>0 DEF Life, StartLife, HomeUp, Building, Nobody, Works, Active
<1>4. TaskLife(r)'
  BY <1>0 DEF Life, TaskLife, StartLife, Absent, HomeUp, Nobody, Works, Active, Building
<1>5. CloseLife(r)'
  <2> SUFFICES ASSUME NEW p \in Closers, Works(p, r) PROVE CloserLife(p, r)'
    BY <1>0 DEF CloseLife, Works, Active
  <2>1. CloserLife(p, r)  BY <1>0 DEF Life, CloseLife
  <2> QED  BY <1>0, <2>1, SameEndings DEF CloserLife, Blind, Only, Works, Active, HomeUp, Building
<1>6. EventLife(r)'  BY <1>0, SameEndings DEF Life, EventLife
<1>7. SweepLife(r)'  BY <1>0 DEF Life, SweepLife, Read
<1> QED  BY <1>0, <1>1, <1>2, <1>3, <1>4, <1>5, <1>6, <1>7, OneRun DEF Life

-----------------------------------------------------------------------------
(* The heartbeat and the clock. *)
LEMMA HeartbeatLife == ASSUME Alone, Inv, Lives, NEW r \in Runs, Heartbeat(r) PROVE Lives'
<1>0. /\ Life(r) /\ row[r] \in Row /\ hb[r] = "beating" /\ Fits(row[r], home[r])
      /\ UNCHANGED <<log, home, spawn, task, reg, close, worker, sweep, faults>>
  BY NoFault DEF Lives, Heartbeat, Inv, RowsOK
<1>1. SweepLife(r)'
  <2>1. spawn[r] # "idle"  BY <1>0 DEF Life, StartLife
  <2> QED  BY <1>0, <2>1, HasHome, NothingRead DEF SweepLife, Heartbeat, Read, Inv
<1>2. CASE HeartbeatAccepted(row[r], home[r])
  <2>1. /\ row' = [row EXCEPT ![r] = HeartbeatRunOwnership(row[r])] /\ UNCHANGED hb
        /\ row'[r] = HeartbeatRunOwnership(row[r])
    BY <1>2, NoFault DEF Heartbeat, Inv, RowsOK
  <2>2. /\ row[r].status = "running" /\ row'[r].status = "running" /\ row'[r].lease = "live"
        /\ row'[r].owner = row[r].owner /\ row'[r].hint = row[r].hint
        /\ row'[r].cancelRequested = row[r].cancelRequested
    BY <1>0, <1>2, <2>1 DEF HeartbeatAccepted, HeartbeatRunOwnership, Row
  <2>3. \A q \in Runs \ {r} : Untouched(q)
    BY <1>0, <2>1 DEF Untouched, Works, Active, Inv, RowsOK
  <2>4. RowLife(r)'  BY <1>0, <2>2, SameEndings DEF Life, RowLife
  <2>5. StartLife(r)'
    BY <1>0, <2>1, <2>2 DEF Life, StartLife, HomeUp, Nobody, Works, Active
  <2>6. TaskLife(r)'
    BY <1>0, <2>1, <2>2 DEF Life, TaskLife, HomeUp, Nobody, Works, Active
  <2>7. CloseLife(r)'
    BY <1>0, <2>1, <2>2, SameClosers
  <2>8. EventLife(r)'  BY <1>0, <2>1, <2>2, SameEndings DEF Life, EventLife
  <2> QED  BY <1>0, <1>1, <2>3, <2>4, <2>5, <2>6, <2>7, <2>8, OneRun DEF Life
<1>3. CASE ~HeartbeatAccepted(row[r], home[r])
  <2>1. hb' = [hb EXCEPT ![r] = "stopped"] /\ hb'[r] = "stopped" /\ UNCHANGED row
    BY <1>3, NoFault DEF Heartbeat, Inv, TasksOK
  <2>2. row[r].status # "running"
    BY <1>0, <1>3 DEF HeartbeatAccepted, OwnedBy, Fits, Life, RowLife, Absent
  <2>3. \A q \in Runs \ {r} : Untouched(q)
    BY <1>0, <2>1 DEF Untouched, Works, Active, Inv, TasksOK
  <2>4. RowLife(r)'  BY <1>0, <2>1, SameEndings DEF Life, RowLife
  <2>5. StartLife(r)'
    BY <1>0, <2>1 DEF Life, StartLife, HomeUp, Nobody, Works, Active
  <2>6. TaskLife(r)'
    BY <1>0, <2>1, <2>2 DEF Life, TaskLife, HomeUp, Nobody, Works, Active
  <2>7. CloseLife(r)'  BY <1>0, <2>1, SameClosers
  <2>8. EventLife(r)'  BY <1>0, <2>1, SameEndings DEF Life, EventLife
  <2> QED  BY <1>0, <1>1, <2>3, <2>4, <2>5, <2>6, <2>7, <2>8, OneRun DEF Life
<1> QED  BY <1>2, <1>3

LEMMA LeaseExpiresLife == ASSUME Alone, Inv, Lives, NEW r \in Runs, LeaseExpires(r) PROVE Lives'
<1>0. /\ Life(r) /\ row[r] \in Row /\ row[r].lease = "live" /\ ~Attended(r)
      /\ UNCHANGED <<log, home, spawn, task, hb, reg, close, worker, sweep, faults>>
  BY DEF Lives, LeaseExpires, Inv, RowsOK, Alone
<1>1. /\ row'[r].status = row[r].status /\ row'[r].owner = row[r].owner
      /\ row'[r].hint = row[r].hint /\ row'[r].cancelRequested = row[r].cancelRequested
      /\ row'[r].lease = "expired" /\ \A q \in Runs \ {r} : row'[q] = row[q]
  BY <1>0 DEF LeaseExpires, Inv, RowsOK, Row
<1>2. \A q \in Runs \ {r} : Untouched(q)
  BY <1>0, <1>1 DEF Untouched, Works, Active
<1>3. row[r].owner # NoWorker  BY <1>0 DEF Life, RowLife
\* Whoever needs the lease attends to the run.
<1>4. HomeUp(r) => hb[r] # "beating" /\ spawn[r] \notin {"claimed", "spawned"} /\ Nobody(r)
  <2> SUFFICES ASSUME HomeUp(r)
               PROVE  hb[r] # "beating" /\ spawn[r] \notin {"claimed", "spawned"} /\ Nobody(r)
    OBVIOUS
  <2>1. hb[r] # "beating" /\ spawn[r] \notin {"claimed", "spawned"}
    BY <1>0 DEF Attended, HomeUp
  <2>2. ASSUME NEW p \in Closers, Works(p, r) PROVE close[p].at = home[r]
    BY <1>0, <2>2 DEF Life, CloseLife, CloserLife
  <2> QED  BY <1>0, <2>1, <2>2 DEF Attended, HomeUp, Nobody, Works
<1>5. RowLife(r)'
  BY <1>0, <1>1, <1>3, <1>4, SameEndings DEF Life, RowLife, StartLife
<1>6. StartLife(r)'
  BY <1>0, <1>1 DEF Life, StartLife, HomeUp, Nobody, Works, Active
<1>7. TaskLife(r)'
  BY <1>0, <1>1, <1>4 DEF Life, TaskLife, StartLife, HomeUp, Nobody, Works, Active, Absent
<1>8. CloseLife(r)'
  BY <1>0, <1>4 DEF Life, CloseLife, CloserLife, Nobody, Works, Active
<1>9. EventLife(r)'  BY <1>0, <1>1, SameEndings DEF Life, EventLife
<1>10. SweepLife(r)'
  BY <1>0, <1>3 DEF Life, SweepLife, Read, Reconcilable, Claimable, Unowned
<1> QED  BY <1>0, <1>2, <1>5, <1>6, <1>7, <1>8, <1>9, <1>10, OneRun DEF Life

-----------------------------------------------------------------------------
(* The closers. *)
LEMMA Closer == ASSUME Inv, Lives, NEW p \in Closers, NEW r \in Runs, Works(p, r)
                PROVE  /\ close[p] \in Closing /\ close[p].run = r /\ close[p].at = home[r]
                       /\ home[r] \in Workers /\ HomeUp(r) /\ CloserLife(p, r) /\ Life(r)
                       /\ hb[r] # "none" /\ task[r] # "executing"
                       /\ spawn[r] \in {"spawned", "registered", "done", "dropped"}
                       /\ row[r].status \in {"running"} \cup Terminal
<1>1. Life(r) /\ CloserLife(p, r)  BY DEF Lives, Life, CloseLife
<1>2. close[p] \in Closing  BY ActiveClosing DEF Works, Inv
<1>3. hb[r] # "none" /\ close[p].at = home[r] /\ HomeUp(r)  BY <1>1 DEF CloserLife
<1>4. spawn[r] \in {"spawned", "registered", "done", "dropped"}
      /\ row[r].status \in {"running"} \cup Terminal
  BY <1>1, <1>3 DEF Life, StartLife
<1>5. home[r] \in Workers  BY <1>4, HasHome DEF Inv
<1>6. task[r] # "executing"  BY <1>1 DEF Life, TaskLife, Nobody
<1> QED  BY <1>1, <1>2, <1>3, <1>4, <1>5, <1>6 DEF Works

\* The slot of a run task works for that run.
LEMMA OwnSlot == ASSUME Lives, NEW p \in Runs, NEW q \in Runs, Works(p, q) PROVE p = q
  BY DEF Lives, Life, CloseLife, CloserLife, Closers

\* A step that changes slots, task, heartbeat and entry of one run.
LEMMA ClosersOfOne ==
  ASSUME Inv, Lives, NEW r \in Runs, NEW p \in Closers, \A q \in Runs \ {r} : ~Works(p, q),
         \A q \in Runs \ {r} : ~Works(p, q)',
         close' \in [Closers -> Closing \cup {Idle, Done}],
         \A q \in Closers \ {p, r} : close'[q] = close[q],
         r # p => close'[r] \in {close[r], Done},
         \A q \in Runs \ {r} : task'[q] = task[q] /\ hb'[q] = hb[q] /\ reg'[q] = reg[q]
                                 /\ row'[q] = row[q] /\ log'[q] = log[q],
         UNCHANGED <<home, spawn, worker, sweep>>
  PROVE  \A q \in Runs \ {r} : Untouched(q)
<1> SUFFICES ASSUME NEW q \in Runs \ {r}, NEW x \in Closers
             PROVE  (Works(x, q)' <=> Works(x, q)) /\ (Works(x, q) => close'[x] = close[x])
  BY DEF Untouched
<1>1. CASE x = p  BY <1>1
<1>2. CASE x = r /\ x # p
  <2>1. ~Works(r, q)  BY OwnSlot
  <2> QED  BY <1>2, <2>1 DEF Works, Active, Done
<1>3. CASE x \notin {p, r}  BY <1>3 DEF Works, Active
<1> QED  BY <1>1, <1>2, <1>3

\* A response handler gives up, or finds nothing to do.
LEMMA CallGone ==
  ASSUME Inv, Lives, NEW c \in Calls, close' = [close EXCEPT ![c] = Done],
         UNCHANGED <<worker, sweep, row, log, home, spawn, task, hb, reg, faults>>
  PROVE  Lives'
<1>1. c \in Closers /\ c \notin Runs  BY CallIsNoRun
<1>2. \A q \in Closers, r \in Runs : Works(q, r)' => Works(q, r) /\ close'[q] = close[q]
  BY <1>1 DEF Works, Active, Done, Inv, TasksOK
<1>3. ASSUME NEW r \in Runs PROVE Life(r)'
  <2>0. Life(r)  BY DEF Lives
  <2>1. RowLife(r)'  BY <2>0, SameEndings DEF Life, RowLife
  <2>2. StartLife(r)'  BY <2>0, <1>2 DEF Life, StartLife, HomeUp, Nobody
  <2>3. TaskLife(r)'  BY <2>0, <1>2 DEF Life, TaskLife, HomeUp, Nobody
  <2>4. CloseLife(r)'
    <3> SUFFICES ASSUME NEW p \in Closers, Works(p, r)' PROVE CloserLife(p, r)'
      BY DEF CloseLife
    <3>1. close'[p] = close[p] /\ CloserLife(p, r)  BY <1>2, <2>0 DEF Life, CloseLife
    <3> QED  BY <1>2, <3>1, SameEndings DEF CloserLife, Only, HomeUp
  <2>5. EventLife(r)'  BY <2>0, SameEndings DEF Life, EventLife
  <2>6. SweepLife(r)'  BY <2>0 DEF Life, SweepLife, Read
  <2> QED  BY <2>1, <2>2, <2>3, <2>4, <2>5, <2>6 DEF Life
<1>4. GatewayLife'  BY DEF Lives, GatewayLife
<1> QED  BY <1>3, <1>4 DEF Lives

LEMMA DropCallLife == ASSUME Inv, Lives, NEW c \in Calls, DropCall(c) PROVE Lives'
  BY CallGone DEF DropCall

\* remove: the entry goes, and with it whatever task it owns.
LEMMA RemoveEntryLife ==
  ASSUME Inv, Lives, NEW p \in Closers, NEW r \in Runs, Works(p, r),
         row[r].status # "running", RemoveEntry(p, r, home[r]),
         UNCHANGED <<worker, sweep, row, log, home, spawn, faults>>
  PROVE  Lives'
<1>0. /\ Life(r) /\ hb[r] # "none" /\ task[r] # "executing" /\ HomeUp(r)
      /\ IsTerminal(row[r].status)
      /\ p \in Runs => p = r
  BY Closer, OwnSlot DEF IsTerminal
<1>1. /\ close' \in [Closers -> Closing \cup {Idle, Done}]
      /\ close'[p] = Done /\ close'[r] \in {close[r], Done}
      /\ \A q \in Closers \ {p, r} : close'[q] = close[q]
  BY DEF RemoveEntry, CloseAborted, Inv, TasksOK, Closers
<1>2. /\ task'[r] \in {task[r], "ended", "aborted"}
      /\ hb'[r] \in {hb[r], "stopped"} /\ reg'[r] \in {reg[r], Absent}
      /\ \A q \in Runs \ {r} : task'[q] = task[q] /\ hb'[q] = hb[q] /\ reg'[q] = reg[q]
  BY DEF RemoveEntry, TaskAborted, Inv, TasksOK
<1>3. \A q \in Runs \ {r} : Untouched(q)
  <2>1. \A q \in Runs \ {r} : ~Works(p, q) /\ ~Works(p, q)'
    BY <1>1 DEF Works, Active, Done
  <2> QED  BY <1>1, <1>2, <2>1, ClosersOfOne
<1>4. \A q \in Closers : Works(q, r)' => q # p /\ Works(q, r) /\ close'[q] = close[q]
  <2> SUFFICES ASSUME NEW q \in Closers, Works(q, r)'
               PROVE  q # p /\ Works(q, r) /\ close'[q] = close[q]
    OBVIOUS
  <2>1. close'[q] # Done  BY DEF Works, Active, Done
  <2> QED  BY <1>1, <2>1 DEF Works, Active
<1>5. RowLife(r)'  BY <1>0, SameEndings DEF Life, RowLife
<1>6. StartLife(r)'  BY <1>0, <1>2, <1>4 DEF Life, StartLife, HomeUp, Nobody
<1>7. TaskLife(r)'  BY <1>0, <1>2 DEF Life, TaskLife, HomeUp, Absent
<1>8. CloseLife(r)'
  <2> SUFFICES ASSUME NEW q \in Closers, Works(q, r)' PROVE CloserLife(q, r)'
    BY DEF CloseLife
  <2>1. q # p /\ Works(q, r) /\ close'[q] = close[q] /\ CloserLife(q, r)
    BY <1>0, <1>4 DEF Life, CloseLife
  <2>2. ~Blind(close[q])  BY <2>1 DEF CloserLife, Only
  <2>3. q \in Runs => task'[r] = "closing"
    <3> SUFFICES ASSUME q \in Runs PROVE task'[r] = "closing"  OBVIOUS
    <3>1. q = r /\ task[r] = "closing" /\ close'[r] # Done /\ p # r
      BY <2>1 DEF CloserLife, Works, Active, Done
    <3>2. ~Registered(r, home[r]) => task' = task  BY <3>1 DEF RemoveEntry
    <3>3. Registered(r, home[r]) /\ Abortable(r) => close'[r] = Done
      BY <3>1 DEF RemoveEntry, CloseAborted, Inv, TasksOK, Closers
    <3>4. Registered(r, home[r]) /\ ~Abortable(r) => task' = task
      BY <3>1 DEF RemoveEntry, TaskAborted
    <3> QED  BY <3>1, <3>2, <3>3, <3>4
  <2>4. hb'[r] # "none"  BY <1>0, <1>2
  <2> QED  BY <1>4, <2>1, <2>2, <2>3, <2>4, SameEndings DEF CloserLife, Only, HomeUp
<1>9. EventLife(r)'  BY <1>0, SameEndings DEF Life, EventLife
<1>10. SweepLife(r)'  BY <1>0 DEF Life, SweepLife, Read
<1> QED  BY <1>3, <1>5, <1>6, <1>7, <1>8, <1>9, <1>10, OneRun DEF Life

\* terminate_run on a registered run, from the slot of a call.
LEMMA TerminateRegisteredLife ==
  ASSUME Inv, Lives, NEW c \in Calls, NEW r \in Runs, NEW s \in Hints, spawn[r] = "done",
         \A q \in Runs \ {r} : ~Works(c, q), TerminateRegistered(c, r, home[r], s),
         UNCHANGED <<worker, sweep, row, log, home, spawn, faults>>
  PROVE  Lives'
<1> DEFINE kept == IF IsTerminal(reg[r]) THEN reg[r] ELSE s
           k == [pc |-> "intent", run |-> r, at |-> home[r], kind |-> "terminate",
                 want |-> kept, was |-> IsTerminal(reg[r]), owned |-> TRUE]
           d == [k EXCEPT !.pc = FirstWrite(k)]
<1>0. Life(r) /\ c \in Closers /\ c \notin Runs /\ r \in Closers
  BY CallIsNoRun DEF Lives, Closers
<1>1. /\ d.pc \in {"intent", "status"} /\ d.run = r /\ d.at = home[r] /\ d.owned = TRUE
  BY DEF FirstWrite
<1>2. kept \in Hints
  BY DEF Inv, TasksOK, TerminateRegistered, Registered, IsTerminal, Terminal, Absent
<1>3. TasksOK'
  <2>1. home[r] \in Workers  BY HasHome DEF Inv
  <2> QED  BY <1>0, <2>1, TerminateRegisteredOK DEF Inv
<1>4. close' = [CloseAborted(r) EXCEPT ![c] = d]  BY DEF TerminateRegistered
<1>5. reg' = [reg EXCEPT ![r] = kept]  BY DEF TerminateRegistered
<1> HIDE DEF d, kept
<1>6. /\ close'[c] = d /\ close'[r] = IF Abortable(r) THEN Done ELSE close[r]
      /\ \A q \in Closers \ {c, r} : close'[q] = close[q]
  BY <1>0, <1>4 DEF CloseAborted, Inv, TasksOK
<1>7. /\ task'[r] = IF Abortable(r) THEN "aborted" ELSE task[r]
      /\ hb'[r] = "stopped" /\ reg'[r] = kept
      /\ \A q \in Runs \ {r} : task'[q] = task[q] /\ hb'[q] = hb[q] /\ reg'[q] = reg[q]
  BY <1>5 DEF TerminateRegistered, TaskAborted, Inv, TasksOK
<1>8. \A q \in Runs \ {r} : Untouched(q)
  <2>1. \A q \in Runs \ {r} : ~Works(c, q)'  BY <1>1, <1>6 DEF Works
  <2> QED  BY <1>0, <1>3, <1>6, <1>7, <2>1, ClosersOfOne DEF TasksOK
<1>9. hb[r] # "none" /\ HomeUp(r) /\ reg[r] # Absent /\ HomeUp(r)'
  BY <1>0 DEF Life, StartLife, TaskLife, TerminateRegistered, Registered, HomeUp, Building
<1>10. RowLife(r)'  BY <1>0, SameEndings DEF Life, RowLife
<1>11. StartLife(r)'  BY <1>0, <1>7, <1>9 DEF Life, StartLife
<1>12. TaskLife(r)'
  <2>1. kept # Absent /\ kept # "running"  BY <1>2 DEF Hints, Absent
  <2> QED  BY <1>7, <1>9, <2>1 DEF TaskLife, Abortable
<1>13. CloseLife(r)'
  <2> SUFFICES ASSUME NEW q \in Closers, Works(q, r)' PROVE CloserLife(q, r)'
    BY DEF CloseLife
  <2>1. CASE q = c
    BY <1>0, <1>1, <1>6, <1>7, <1>9, <2>1 DEF CloserLife, Blind
  <2>2. CASE q # c
    <3>1. close'[q] = close[q] /\ Works(q, r) /\ CloserLife(q, r) /\ (q = r => ~Abortable(r))
      BY <1>0, <1>6, <2>2 DEF Works, Active, Done, Life, CloseLife
    <3>2. ~Blind(close[q])  BY <3>1 DEF CloserLife, Abortable, Blind
    <3>3. q \in Runs => q = r /\ task'[r] = "closing"
      BY <1>7, <3>1 DEF CloserLife
    <3>4. \A x \in Closers : Works(x, r)' /\ close'[x].pc = "event"
                               => Works(x, r) /\ close'[x] = close[x]
      <4> SUFFICES ASSUME NEW x \in Closers, Works(x, r)', close'[x].pc = "event"
                   PROVE  Works(x, r) /\ close'[x] = close[x]
        OBVIOUS
      <4>1. x # c /\ close'[x] # Done  BY <1>1, <1>6 DEF Done
      <4> QED  BY <1>6, <4>1 DEF Works, Active
    <3> QED  BY <1>7, <1>9, <3>1, <3>2, <3>3, <3>4, SameEndings DEF CloserLife, HomeUp
  <2> QED  BY <2>1, <2>2
<1>14. EventLife(r)'  BY <1>0, <1>9, SameEndings DEF Life, EventLife
<1>15. SweepLife(r)'  BY <1>0 DEF Life, SweepLife, Read
<1> QED  BY <1>8, <1>10, <1>11, <1>12, <1>13, <1>14, <1>15, OneRun DEF Life

\* An entry that is gone while its gateway is up was that of an ended run.
LEMMA GoneHasEnded ==
  ASSUME Lives, NEW r \in Runs, ~Registered(r, home[r]), HomeUp(r), hb[r] # "none",
         spawn[r] # "spawned"
  PROVE  IsTerminal(row[r].status)
  BY DEF Lives, Life, TaskLife, Registered

LEMMA TerminateUnregisteredLife ==
  ASSUME Inv, Lives, NEW c \in Calls, NEW r \in Runs, NEW s, spawn[r] = "done",
         TerminateUnregistered(c, r, home[r], s),
         UNCHANGED <<worker, sweep, row, log, home, spawn, faults>>
  PROVE  Lives'
<1>1. HomeUp(r) /\ hb[r] # "none"
  BY DEF TerminateUnregistered, ConnFree, HomeUp, Lives, Life, StartLife, Building
<1>2. IsTerminal(row[r].status)  BY <1>1, GoneHasEnded DEF TerminateUnregistered
<1>3. close' = [close EXCEPT ![c] = Done]  BY <1>2 DEF TerminateUnregistered
<1> QED  BY <1>3, CallGone DEF TerminateUnregistered

LEMMA RespondLife ==
  ASSUME Inv, Lives, NEW c \in Responders, NEW r \in Runs, NEW s \in {"timed_out", "cancelled"},
         Respond(c, r, s)
  PROVE  Lives'
<1>1. c \in Calls /\ s \in Hints  BY DEF Calls, Hints
<1>2. \A q \in Runs : ~Works(c, q)  BY DEF Respond, Works, Active, Idle
<1> QED
  BY <1>1, <1>2, TerminateRegisteredLife, TerminateUnregisteredLife DEF Respond

LEMMA TimeoutOverDisconnectLife ==
  ASSUME Inv, Lives, NEW c \in Calls, TimeoutOverDisconnect(c) PROVE Lives'
<1> DEFINE r == close[c].run
<1>0. c \in Closers  BY CallIsNoRun
<1>1. r \in Runs
  BY <1>0, ActiveClosing, ClosingFields DEF TimeoutOverDisconnect, Inv
<1>2. Works(c, r)  BY DEF TimeoutOverDisconnect, Works
<1>3. close[c].at = home[r] /\ spawn[r] = "done"
  BY <1>0, <1>1, <1>2, Closer DEF CloserLife
<1>4. \A q \in Runs \ {r} : ~Works(c, q)  BY DEF Works
<1>5. "timed_out" \in Hints  BY DEF Hints
<1>6. \/ TerminateRegistered(c, r, home[r], "timed_out")
      \/ TerminateUnregistered(c, r, home[r], "timed_out")
  BY <1>3 DEF TimeoutOverDisconnect
<1>7. UNCHANGED <<worker, sweep, row, log, home, spawn, faults>>
  BY DEF TimeoutOverDisconnect
<1> QED
  BY <1>1, <1>3, <1>4, <1>5, <1>6, <1>7, TerminateRegisteredLife, TerminateUnregisteredLife

\* finalize_managed_run on a registered run that nothing executes any more or
\* whose own task does it.
LEMMA FinalizeRegisteredLife ==
  ASSUME Inv, Lives, NEW p \in Closers, NEW r \in Runs, NEW s \in Hints,
         FinalizeRegistered(p, r, home[r], s),
         \/ p = r /\ task[r] = "executing"
         \/ p \in Calls /\ task[r] = "aborted" /\ spawn[r] = "done",
         \A q \in Runs : ~Works(p, q),
         UNCHANGED <<worker, sweep, row, log, home, spawn, faults>>
  PROVE  Lives'
<1> DEFINE k == [pc |-> "intent", run |-> r, at |-> home[r], kind |-> "finalize",
                 want |-> s, was |-> IsTerminal(reg[r]), owned |-> TRUE]
           d == [k EXCEPT !.pc = FirstWrite(k)]
<1>0. Life(r) /\ (p \in Calls => p \notin Runs) /\ reg[r] # Absent
  BY CallIsNoRun DEF Lives, FinalizeRegistered, Registered
<1>1. spawn[r] # "spawned" /\ spawn[r] # "idle" /\ hb[r] # "none" /\ HomeUp(r) /\ HomeUp(r)'
  BY <1>0 DEF Life, StartLife, TaskLife, HomeUp
<1>2. d.pc \in {"intent", "status"} /\ d.run = r /\ d.at = home[r] /\ d.owned = TRUE
  BY DEF FirstWrite
<1>3. CASE IsTerminal(reg[r]) /\ reg[r] # s
  <2>1. task[r] # "executing"
    BY <1>0, <1>1, <1>3 DEF Life, TaskLife, IsTerminal, Terminal
  <2>2. p \in Calls /\ p \notin Runs /\ p # r  BY <1>0, <2>1
  <2> QED  BY <1>3, <2>2, CallGone DEF FinalizeRegistered
<1>4. CASE ~(IsTerminal(reg[r]) /\ reg[r] # s)
  <2>1. close' = [close EXCEPT ![p] = d] /\ reg' = [reg EXCEPT ![r] = s]
    BY <1>4 DEF FinalizeRegistered
  <2>2. /\ task' = IF p = r THEN [task EXCEPT ![r] = "closing"] ELSE task
        /\ hb' = IF IsTerminal(reg[r]) THEN hb ELSE [hb EXCEPT ![r] = "stopped"]
    BY <1>4 DEF FinalizeRegistered
  <2>3. TasksOK'
    <3>1. home[r] \in Workers  BY <1>1, HasHome DEF Inv
    <3>2. p \in Runs => spawn[p] # "idle"  BY <1>0, <1>1
    <3> QED  BY <3>1, <3>2, FinalizeRegisteredOK DEF Inv
  <2> HIDE DEF d
  <2>4. close'[p] = d /\ \A q \in Closers \ {p} : close'[q] = close[q]
    BY <2>1 DEF Inv, TasksOK
  <2>5. /\ task'[r] = IF p = r THEN "closing" ELSE "aborted"
        /\ hb'[r] \in {hb[r], "stopped"} /\ reg'[r] = s
        /\ \A q \in Runs \ {r} : task'[q] = task[q] /\ hb'[q] = hb[q] /\ reg'[q] = reg[q]
    BY <1>0, <2>1, <2>2 DEF Inv, TasksOK
  <2>6. \A q \in Runs \ {r} : Untouched(q)
    <3>1. \A q \in Runs \ {r} : ~Works(p, q)'  BY <1>2, <2>4 DEF Works
    <3>2. r # p => close'[r] = close[r]  BY <2>4 DEF Closers
    <3> QED  BY <2>3, <2>4, <2>5, <3>1, <3>2, ClosersOfOne DEF TasksOK
  <2>7. RowLife(r)'  BY <1>0, SameEndings DEF Life, RowLife
  <2>8. StartLife(r)'  BY <1>0, <1>1, <2>5 DEF Life, StartLife
  <2>9. TaskLife(r)'
    <3>1. s # Absent /\ s # "running"  BY DEF Hints, Absent
    <3> QED  BY <1>1, <2>5, <3>1 DEF TaskLife
  <2>10. CloseLife(r)'
    <3> SUFFICES ASSUME NEW q \in Closers, Works(q, r)' PROVE CloserLife(q, r)'
      BY DEF CloseLife
    <3>1. hb'[r] # "none"  BY <1>1, <2>5
    <3>2. CASE q = p
      BY <1>0, <1>1, <1>2, <2>4, <2>5, <3>1, <3>2 DEF CloserLife, Blind
    <3>3. CASE q # p
      <4>1. close'[q] = close[q] /\ Works(q, r) /\ CloserLife(q, r)
        BY <1>0, <2>4, <3>3 DEF Works, Active, Life, CloseLife
      <4>2. p # r  BY <1>0, <4>1 DEF Life, TaskLife, Nobody
      <4>3. ~Blind(close[q]) /\ q \notin Runs
        BY <4>1, <4>2 DEF CloserLife
      <4>4. \A x \in Closers : Works(x, r)' /\ close'[x].pc = "event"
                                 => Works(x, r) /\ close'[x] = close[x]
        BY <1>2, <2>4 DEF Works, Active
      <4> QED  BY <1>1, <2>5, <3>1, <4>1, <4>3, <4>4, SameEndings DEF CloserLife, HomeUp
    <3> QED  BY <3>2, <3>3
  <2>11. EventLife(r)'  BY <1>0, <1>1, SameEndings DEF Life, EventLife
  <2>12. SweepLife(r)'  BY <1>0 DEF Life, SweepLife, Read
  <2> QED  BY <2>6, <2>7, <2>8, <2>9, <2>10, <2>11, <2>12, OneRun DEF Life
<1> QED  BY <1>3, <1>4

LEMMA OutcomeDroppedLife ==
  ASSUME Inv, Lives, NEW c \in Calls, NEW r \in Runs, OutcomeDropped(c, r) PROVE Lives'
<1>0. c \in Closers /\ c \notin Runs /\ "failed" \in Hints  BY CallIsNoRun DEF Hints
<1>1. \A q \in Runs : ~Works(c, q)  BY DEF OutcomeDropped, Works, Active, Idle
<1>2. UNCHANGED <<worker, sweep, row, log, home, spawn, faults>> /\ spawn[r] = "done"
      /\ task[r] = "aborted" /\ HomeUp(r)
  BY DEF OutcomeDropped, ConnFree, HomeUp
<1>3. CASE close' = [close EXCEPT ![c] = Done] /\ UNCHANGED <<task, reg, hb>>
  BY <1>2, <1>3, CallGone
<1>4. CASE FinalizeRegistered(c, r, home[r], "failed")
  BY <1>0, <1>1, <1>2, <1>4, FinalizeRegisteredLife
<1>5. CASE FinalizeUnregistered(c, r, home[r], "failed")
  <2>1. hb[r] # "none"  BY <1>2 DEF Lives, Life, StartLife, Building
  <2>2. IsTerminal(row[r].status)
    BY <1>2, <1>5, <2>1, GoneHasEnded DEF FinalizeUnregistered
  <2>3. close' = [close EXCEPT ![c] = Done] /\ UNCHANGED <<task, reg, hb>>
    BY <1>0, <1>5, <2>2 DEF FinalizeUnregistered
  <2> QED  BY <1>2, <2>3, CallGone
<1> QED  BY <1>3, <1>4, <1>5 DEF OutcomeDropped

LEMMA AgentReturnsLife ==
  ASSUME Inv, Lives, NEW r \in Runs, NEW s \in {"completed", "failed"}, AgentReturns(r, s)
  PROVE  Lives'
<1>0. /\ Life(r) /\ task[r] = "executing" /\ s \in Hints /\ r \in Closers
      /\ row[r].status = "running" /\ row[r].lease = "live" /\ hb[r] = "beating"
      /\ HomeUp(r) /\ Nobody(r)
      /\ UNCHANGED <<worker, sweep, row, log, home, spawn, faults>>
  BY DEF AgentReturns, Lives, Life, TaskLife, Hints, Closers
<1>1. \A q \in Runs : ~Works(r, q)  BY <1>0, OwnSlot DEF Nobody
<1>2. CASE FinalizeRegistered(r, r, home[r], s)
  BY <1>0, <1>1, <1>2, FinalizeRegisteredLife
<1>3. CASE FinalizeUnregistered(r, r, home[r], s)
  <2> DEFINE k == [pc |-> "unowned", run |-> r, at |-> home[r], kind |-> "finalize",
                   want |-> s, was |-> FALSE, owned |-> FALSE]
  <2>1. ~IsTerminal(row[r].status)  BY <1>0 DEF IsTerminal, Terminal
  <2>2. /\ close' = [close EXCEPT ![r] = k] /\ task' = [task EXCEPT ![r] = "closing"]
        /\ UNCHANGED <<reg, hb>>
    BY <1>3, <2>1 DEF FinalizeUnregistered
  <2>3. k.pc = "unowned" /\ k.run = r /\ k.at = home[r] /\ ~k.was /\ ~k.owned
    OBVIOUS
  <2>4. TasksOK'
    <3>1. spawn[r] # "idle" /\ home[r] \in Workers  BY <1>0, SpawnedHome DEF Inv
    <3> QED  BY <1>0, <1>3, <3>1, FinalizeUnregisteredOK DEF Inv
  <2> HIDE DEF k
  <2>5. /\ close'[r] = k /\ \A q \in Closers \ {r} : close'[q] = close[q]
        /\ task'[r] = "closing" /\ \A q \in Runs \ {r} : task'[q] = task[q]
    BY <1>0, <2>2 DEF Inv, TasksOK
  <2>6. \A q \in Runs \ {r} : Untouched(q)
    <3>1. \A q \in Runs \ {r} : ~Works(r, q)'  BY <2>3, <2>5 DEF Works
    <3> QED  BY <1>0, <1>1, <2>2, <2>4, <2>5, <3>1, ClosersOfOne DEF TasksOK
  <2>7. \A q \in Closers : Works(q, r)' => q = r
    BY <1>0, <2>5 DEF Nobody, Works, Active
  <2>8. RowLife(r)'  BY <1>0, SameEndings DEF Life, RowLife
  <2>9. StartLife(r)'  BY <1>0, <2>2 DEF Life, StartLife, HomeUp
  <2>10. TaskLife(r)'  BY <1>0, <2>2, <2>5 DEF Life, TaskLife, HomeUp
  <2>11. CloseLife(r)'
    <3>1. CloserLife(r, r)'
      BY <1>0, <2>2, <2>3, <2>5, <2>7, CallIsNoRun DEF CloserLife, Blind, Only, HomeUp
    <3> QED  BY <2>7, <3>1 DEF CloseLife
  <2>12. EventLife(r)'  BY <1>0, <2>2, SameEndings DEF Life, EventLife
  <2>13. SweepLife(r)'  BY <1>0 DEF Life, SweepLife, Read
  <2> QED  BY <1>0, <2>6, <2>8, <2>9, <2>10, <2>11, <2>12, <2>13, OneRun DEF Life
<1> QED  BY <1>2, <1>3 DEF AgentReturns

LEMMA AgentPanicsLife == ASSUME Inv, Lives, NEW r \in Runs, AgentPanics(r) PROVE Lives'
<1>0. /\ Life(r) /\ task[r] = "executing" /\ task'[r] = "aborted" /\ Nobody(r)
      /\ \A q \in Runs \ {r} : task'[q] = task[q]
      /\ UNCHANGED <<worker, sweep, row, log, home, spawn, hb, reg, close, faults>>
  BY DEF AgentPanics, Lives, Life, TaskLife, Inv, TasksOK
<1>1. \A q \in Runs \ {r} : Untouched(q)
  BY <1>0 DEF Untouched, Works, Active
<1>2. RowLife(r)'  BY <1>0, SameEndings DEF Life, RowLife
<1>3. StartLife(r)'  BY <1>0 DEF Life, StartLife, TaskLife, HomeUp
<1>4. TaskLife(r)'  BY <1>0 DEF Life, TaskLife, HomeUp
<1>5. CloseLife(r)'  BY <1>0 DEF CloseLife, Nobody, Works, Active
<1>6. EventLife(r)'  BY <1>0, SameEndings DEF Life, EventLife
<1>7. SweepLife(r)'  BY <1>0 DEF Life, SweepLife, Read
<1> QED  BY <1>0, <1>1, <1>2, <1>3, <1>4, <1>5, <1>6, <1>7, OneRun DEF Life

\* A closer that moves on keeps its run.
LEMMA MovesOn ==
  ASSUME Inv, Lives, NEW p \in Closers, NEW r \in Runs, Works(p, r), NEW pc \in CloseSteps,
         Goto(p, pc)
  PROVE  /\ close'[p].pc = pc /\ close'[p].run = r /\ close'[p].at = close[p].at
         /\ close'[p].want = close[p].want /\ close'[p].was = close[p].was
         /\ close'[p].owned = close[p].owned
         /\ \A q \in Closers \ {p} : close'[q] = close[q]
         /\ \A q \in Closers, x \in Runs : Works(q, x)' <=> Works(q, x)
         /\ \A q \in Runs \ {r} : ~Works(p, q)
<1>1. close[p] \in Closing  BY Closer
<1>2. close'[p] = [close[p] EXCEPT !.pc = pc] /\ \A q \in Closers \ {p} : close'[q] = close[q]
  BY DEF Goto, Inv, TasksOK
<1>3. /\ close'[p].pc = pc /\ close'[p].run = close[p].run /\ close'[p].at = close[p].at
      /\ close'[p].want = close[p].want /\ close'[p].was = close[p].was
      /\ close'[p].owned = close[p].owned
  BY <1>1, <1>2 DEF Closing
<1>4. close[p].run = r /\ close'[p].pc \notin {"idle", "done"} /\ Active(p)
  BY <1>3 DEF Works, CloseSteps
<1> QED  BY <1>2, <1>3, <1>4 DEF Works, Active

\* What a closer's step asks of the run it works for: the closer fits, and the
\* others were not blind.
LEMMA StepOfCloser ==
  ASSUME Inv, Lives, NEW p \in Closers, NEW r \in Runs, Works(p, r), NEW pc \in CloseSteps,
         Goto(p, pc), UNCHANGED <<worker, sweep, home, spawn, faults>>,
         NEW x \in Row, row' = [row EXCEPT ![r] = x],
         \A q \in Runs \ {r} : log'[q] = log[q],
         RowLife(r)', CloserLife(p, r)', EventLife(r)', SweepLife(r)',
         \/ x.status = row[r].status /\ row[r].lease = x.lease
         \/ IsTerminal(x.status),
         \A q \in Closers \ {p} : Works(q, r) /\ close[q].pc = "event" =>
           pc # "event" /\ Endings(r)' = {} /\ x.status = row[r].status
  PROVE  Lives'
<1>0. /\ Life(r) /\ hb[r] # "none" /\ HomeUp(r) /\ task[r] # "executing"
      /\ spawn[r] \in {"spawned", "registered", "done", "dropped"}
      /\ row[r].status \in {"running"} \cup Terminal
  BY Closer
<1>1. UNCHANGED <<task, hb, reg>> /\ row'[r] = x /\ \A q \in Runs \ {r} : row'[q] = row[q]
  BY DEF Goto, Inv, RowsOK
<1>2. \A q \in Runs \ {r} : Untouched(q)
  <2> SUFFICES ASSUME NEW q \in Runs \ {r}, NEW y \in Closers
               PROVE  (Works(y, q)' <=> Works(y, q)) /\ (Works(y, q) => close'[y] = close[y])
    BY <1>1 DEF Untouched
  <2> QED  BY MovesOn
<1>3. StartLife(r)'
  <2>1. x.status \in {"running"} \cup Terminal  BY <1>0 DEF IsTerminal
  <2> QED  BY <1>0, <1>1, <2>1 DEF Life, StartLife, HomeUp
<1>4. TaskLife(r)'
  BY <1>0, <1>1 DEF Life, TaskLife, HomeUp, IsTerminal, Terminal
<1>5. CloseLife(r)'
  <2> SUFFICES ASSUME NEW q \in Closers, Works(q, r)', q # p PROVE CloserLife(q, r)'
    BY DEF CloseLife
  <2>1. close'[q] = close[q] /\ Works(q, r) /\ CloserLife(q, r)
    BY <1>0, MovesOn DEF Life, CloseLife
  <2>2. ~Blind(close[q])  BY <2>1 DEF CloserLife, Only
  <2>3. IsTerminal(row[r].status) => IsTerminal(row'[r].status)  BY <1>1
  <2>4. close[q].pc = "event" => /\ Endings(r)' = {} /\ row'[r].status = row[r].status
                                 /\ \A y \in Closers : Works(y, r)' /\ close'[y].pc = "event"
                                      => y = q
    <3> SUFFICES ASSUME close[q].pc = "event"
                 PROVE  /\ Endings(r)' = {} /\ row'[r].status = row[r].status
                        /\ \A y \in Closers : Works(y, r)' /\ close'[y].pc = "event" => y = q
      OBVIOUS
    <3>1. pc # "event" /\ Endings(r)' = {} /\ row'[r].status = row[r].status
      BY <1>1, <2>1
    <3>2. close'[p].pc = pc  BY MovesOn
    <3>3. \A y \in Closers \ {p} : close'[y] = close[y] /\ (Works(y, r)' => Works(y, r))
      BY MovesOn
    <3> QED  BY <2>1, <3>1, <3>2, <3>3 DEF CloserLife
  <2> QED  BY <1>1, <2>1, <2>2, <2>3, <2>4 DEF CloserLife, HomeUp
<1> QED  BY <1>2, <1>3, <1>4, <1>5, OneRun DEF Life

\* The closer that is about to take the step pc, and its run.
LEMMA AtWork == ASSUME Inv, Lives, NEW p \in Closers, close[p].pc \in CloseSteps
                PROVE  LET r == close[p].run IN
                         /\ r \in Runs /\ Works(p, r) /\ close[p].at = home[r] /\ home[r] \in Workers
                         /\ close[p].want \in Hints /\ row[r] \in Row /\ row = [row EXCEPT ![r] = row[r]]
                         /\ Fits(row[r], home[r])
<1>1. close[p].run \in Runs /\ Works(p, close[p].run) /\ close[p].want \in Hints
  BY AtStep DEF Works, Inv
<1> QED  BY <1>1, Closer DEF Inv, RowsOK

LEMMA Unaware == ASSUME Inv, Lives, NEW r \in Runs, ConnFree(home[r]), home[r] \in Workers,
                        UNCHANGED sweep
                 PROVE  SweepLife(r)'
  BY NothingRead DEF SweepLife, Read

\* A run that is not owned by the home of its closer does not run any more.
LEMMA NotOwned == ASSUME Inv, Lives, NEW r \in Runs, NEW p \in Closers, Works(p, r),
                         ~OwnedBy(row[r], home[r])
                  PROVE  row[r].status # "running"
  BY Closer DEF OwnedBy, Inv, RowsOK, Fits, Life, RowLife, Absent

LEMMA OwnedRuns == ASSUME Inv, Lives, NEW r \in Runs, NEW w \in Workers, OwnedBy(row[r], w)
                   PROVE  row[r].status = "running"
  BY NoWorkerAssumption DEF OwnedBy, Lives, Life, RowLife

LEMMA IntentLife == ASSUME Alone, Inv, Lives, NEW p \in Closers, Intent(p) PROVE Lives'
<1> PICK r \in Runs : r = close[p].run
  BY AtWork DEF Intent, CloseSteps
<1>0. /\ r = close[p].run /\ Works(p, r) /\ close[p].at = home[r] /\ home[r] \in Workers
      /\ close[p].want \in Hints /\ row[r] \in Row /\ row = [row EXCEPT ![r] = row[r]]
      /\ Fits(row[r], home[r])
  BY AtWork DEF Intent, CloseSteps
<1>1. /\ UNCHANGED <<worker, sweep, log, home, spawn>> /\ close[p].pc = "intent"
      /\ ConnFree(home[r])
  BY <1>0 DEF Intent
<1>2. CASE OwnedBy(row[r], home[r])
  <2> DEFINE x == RecordRunTerminalIntent(row[r], close[p].want)
  <2>1. row' = [row EXCEPT ![r] = x] /\ Goto(p, "status") /\ UNCHANGED faults
    BY <1>0, <1>2, NoFault DEF Intent
  <2>2. x \in Row /\ x.status = row[r].status /\ x.owner = row[r].owner /\ x.lease = row[r].lease
    BY <1>0, IntentFits, IntentColumns DEF Fits
  <2> HIDE DEF x
  <2>3. "status" \in CloseSteps /\ row'[r] = x  BY <1>0, <2>1 DEF CloseSteps, Inv, RowsOK
  <2>4. /\ Life(r) /\ CloserLife(p, r) /\ hb[r] # "none" /\ UNCHANGED <<task, hb, reg>>
        /\ spawn[r] \in {"spawned", "registered", "done", "dropped"}
    BY <1>0, <2>1, Closer DEF Goto
  <2>5. RowLife(r)'
    BY <1>0, <1>1, <2>2, <2>3, <2>4, SameEndings DEF Life, RowLife, Building
  <2>6. /\ close'[p].pc = "status" /\ close'[p].at = close[p].at /\ close'[p].owned = close[p].owned
    BY <1>0, <2>1, <2>3, MovesOn
  <2>7. CloserLife(p, r)'
    BY <1>0, <1>1, <2>4, <2>6 DEF CloserLife, Blind, HomeUp
  <2>8. EventLife(r)'  BY <1>0, <1>1, <2>2, <2>3, <2>4, SameEndings DEF Life, EventLife
  <2>9. SweepLife(r)'  BY <1>0, <1>1, Unaware
  <2>10. row[r].status = "running"  BY <1>0, <1>2, OwnedRuns
  <2>11. \A q \in Closers \ {p} : Works(q, r) => close[q].pc # "event"
    BY <2>4, <2>10 DEF Life, CloseLife, CloserLife, IsTerminal, Terminal
  <2> QED
    BY <1>0, <1>1, <2>1, <2>2, <2>3, <2>5, <2>7, <2>8, <2>9, <2>11, StepOfCloser
<1>3. CASE ~OwnedBy(row[r], home[r])
  <2>1. RemoveEntry(p, r, home[r]) /\ UNCHANGED <<row, faults>>
    BY <1>0, <1>3, NoFault DEF Intent
  <2> QED  BY <1>0, <1>1, <1>3, <2>1, NotOwned, RemoveEntryLife
<1> QED  BY <1>2, <1>3

\* The write that ends the run r, by its closer p.
LEMMA EndLifeOf ==
  ASSUME Inv, Lives, NEW p \in Closers, NEW r \in Runs, Works(p, r), close[p].want \in Hints,
         row[r].status = "running", close[p].pc = "status", ConnFree(home[r]),
         row' = [row EXCEPT ![r] = UpdateRunStatus(row[r], close[p].want)],
         Goto(p, AfterStatus(close[p])),
         UNCHANGED <<worker, sweep, log, home, spawn, faults>>
  PROVE  Lives'
<1> DEFINE x == UpdateRunStatus(row[r], close[p].want)
           pc == AfterStatus(close[p])
<1>0. row[r] \in Row /\ Fits(row[r], home[r]) /\ home[r] \in Workers
  BY Closer DEF Inv, RowsOK
<1>1. /\ x \in Row /\ x.status = close[p].want /\ x.owner = NoWorker /\ x.lease = "none"
      /\ x.hint = NoHint
  BY <1>0, UpdateFits, UpdateColumns DEF Fits
<1>2. row' = [row EXCEPT ![r] = x] /\ pc \in CloseSteps /\ pc \in {"event", "cleanup"}
      /\ (pc = "event" <=> ~close[p].was)
  BY AfterStatusStep DEF AfterStatus
<1>3. Goto(p, pc)  OBVIOUS
<1> HIDE DEF x, pc
<1>4. /\ Life(r) /\ CloserLife(p, r) /\ hb[r] # "none" /\ UNCHANGED <<task, hb, reg>>
      /\ spawn[r] \in {"spawned", "registered", "done", "dropped"} /\ row'[r] = x
  BY <1>2, Closer DEF Goto, Inv, RowsOK
<1>5. IsTerminal(x.status) /\ x.status # Absent /\ x.status # "running" /\ ~IsTerminal(row[r].status)
  BY <1>1 DEF IsTerminal, Terminal, Hints, Absent
<1>6. Endings(r) = {} /\ Endings(r)' = {}
  BY <1>4, <1>5, SameEndings DEF Life, RowLife
<1>7. RowLife(r)'
  BY <1>1, <1>4, <1>5, <1>6 DEF Life, RowLife, Building
<1>8. /\ close'[p].pc = pc /\ close'[p].at = close[p].at /\ close'[p].want = close[p].want
      /\ close'[p].was = close[p].was
      /\ \A q \in Closers \ {p} : close'[q] = close[q] /\ (Works(q, r)' => Works(q, r))
  BY <1>2, <1>3, MovesOn
<1>9. \A q \in Closers : Works(q, r) => close[q].pc # "event"
  BY <1>4, <1>5 DEF Life, CloseLife, CloserLife
<1>10. CloserLife(p, r)'
  BY <1>1, <1>2, <1>4, <1>5, <1>6, <1>8, <1>9 DEF CloserLife, Blind, HomeUp
<1>11. EventLife(r)'  BY <1>6 DEF EventLife
<1>12. SweepLife(r)'  BY <1>0, Unaware
<1> QED
  BY <1>1, <1>2, <1>3, <1>5, <1>7, <1>9, <1>10, <1>11, <1>12, StepOfCloser

LEMMA StatusLife == ASSUME Alone, Inv, Lives, NEW p \in Closers, Status(p) PROVE Lives'
<1> PICK r \in Runs : r = close[p].run
  BY AtWork DEF Status, CloseSteps
<1>0. /\ r = close[p].run /\ Works(p, r) /\ close[p].at = home[r] /\ home[r] \in Workers
      /\ close[p].want \in Hints
  BY AtWork DEF Status, CloseSteps
<1>1. /\ UNCHANGED <<worker, sweep, log, home, spawn>> /\ close[p].pc = "status"
      /\ ConnFree(home[r])
  BY <1>0 DEF Status
<1>2. CASE OwnedBy(row[r], home[r])
  <2>1. /\ row' = [row EXCEPT ![r] = UpdateRunStatus(row[r], close[p].want)]
        /\ Goto(p, AfterStatus(close[p])) /\ UNCHANGED faults
    BY <1>0, <1>2, NoFault DEF Status
  <2>2. row[r].status = "running"  BY <1>0, <1>2, OwnedRuns
  <2> QED  BY <1>0, <1>1, <2>1, <2>2, EndLifeOf
<1>3. CASE ~OwnedBy(row[r], home[r])
  <2>1. RemoveEntry(p, r, home[r]) /\ UNCHANGED <<row, faults>>
    BY <1>0, <1>3, NoFault DEF Status
  <2> QED  BY <1>0, <1>1, <1>3, <2>1, NotOwned, RemoveEntryLife
<1> QED  BY <1>2, <1>3

LEMMA UnownedStatusLife ==
  ASSUME Alone, Inv, Lives, NEW p \in Closers, UnownedStatus(p) PROVE Lives'
<1> PICK r \in Runs : r = close[p].run
  BY AtWork DEF UnownedStatus, CloseSteps
<1>0. /\ r = close[p].run /\ Works(p, r) /\ close[p].at = home[r] /\ close[p].want \in Hints
  BY AtWork DEF UnownedStatus, CloseSteps
<1>1. /\ UNCHANGED <<worker, sweep, log, home, spawn>> /\ close[p].pc = "status"
      /\ ConnFree(home[r]) /\ ~close[p].owned
  BY <1>0 DEF UnownedStatus
<1>2. /\ row' = [row EXCEPT ![r] = UpdateRunStatus(row[r], close[p].want)]
      /\ Goto(p, AfterStatus(close[p])) /\ UNCHANGED faults
  BY <1>0, NoFault DEF UnownedStatus
<1>3. row[r].status = "running"  BY <1>0, <1>1, Closer DEF CloserLife, Blind
<1> QED  BY <1>0, <1>1, <1>2, <1>3, EndLifeOf

LEMMA UnownedIntentLife ==
  ASSUME Alone, Inv, Lives, NEW p \in Closers, UnownedIntent(p) PROVE Lives'
<1> PICK r \in Runs : r = close[p].run
  BY AtWork DEF UnownedIntent, CloseSteps
<1> DEFINE x == IF RecordsIntent(close[p]) THEN RecordRunTerminalIntent(row[r], close[p].want)
                                            ELSE row[r]
<1>0. /\ r = close[p].run /\ Works(p, r) /\ close[p].at = home[r] /\ home[r] \in Workers
      /\ close[p].want \in Hints /\ row[r] \in Row /\ Fits(row[r], home[r])
  BY AtWork DEF UnownedIntent, CloseSteps
<1>1. /\ UNCHANGED <<worker, sweep, log, home, spawn>> /\ close[p].pc = "unowned"
      /\ ConnFree(home[r]) /\ Goto(p, "status")
  BY <1>0 DEF UnownedIntent
<1>2. row' = [row EXCEPT ![r] = x] /\ UNCHANGED faults
  BY <1>0, NoFault DEF UnownedIntent
<1>3. x \in Row /\ x.status = row[r].status /\ x.owner = row[r].owner /\ x.lease = row[r].lease
  BY <1>0, IntentFits, IntentColumns DEF Fits
<1> HIDE DEF x
<1>4. "status" \in CloseSteps /\ row'[r] = x  BY <1>0, <1>2 DEF CloseSteps, Inv, RowsOK
<1>5. /\ Life(r) /\ CloserLife(p, r) /\ hb[r] # "none" /\ UNCHANGED <<task, hb, reg>>
      /\ spawn[r] \in {"spawned", "registered", "done", "dropped"}
  BY <1>0, <1>1, Closer DEF Goto
<1>6. RowLife(r)'
  BY <1>0, <1>1, <1>3, <1>4, <1>5, SameEndings DEF Life, RowLife, Building
<1>7. /\ close'[p].pc = "status" /\ close'[p].at = close[p].at /\ close'[p].was = close[p].was
      /\ close'[p].owned = close[p].owned /\ \A q \in Closers : Works(q, r)' => Works(q, r)
  BY <1>0, <1>1, <1>4, MovesOn
<1>8. CloserLife(p, r)'
  BY <1>0, <1>1, <1>3, <1>4, <1>5, <1>7 DEF CloserLife, Blind, HomeUp, Only
<1>9. EventLife(r)'  BY <1>0, <1>1, <1>3, <1>4, <1>5, SameEndings DEF Life, EventLife
<1>10. SweepLife(r)'  BY <1>0, <1>1, Unaware
<1>11. \A q \in Closers \ {p} : ~Works(q, r)  BY <1>1, <1>5 DEF CloserLife, Blind, Only
<1> QED
  BY <1>0, <1>1, <1>2, <1>3, <1>4, <1>6, <1>8, <1>9, <1>10, <1>11, StepOfCloser

LEMMA TerminalEventLife ==
  ASSUME Alone, Inv, Lives, NEW p \in Closers, TerminalEvent(p) PROVE Lives'
<1> PICK r \in Runs : r = close[p].run
  BY AtWork DEF TerminalEvent, CloseSteps
<1> DEFINE pc == IF close[p].owned THEN "release" ELSE "cleanup"
<1>0. /\ r = close[p].run /\ Works(p, r) /\ close[p].at = home[r] /\ home[r] \in Workers
      /\ close[p].want \in Hints /\ row[r] \in Row /\ row = [row EXCEPT ![r] = row[r]]
  BY AtWork DEF TerminalEvent, CloseSteps
<1>1. /\ UNCHANGED <<worker, sweep, row, home, spawn, faults>> /\ close[p].pc = "event"
      /\ log' = [log EXCEPT ![r] = Append(@, close[p].want)] /\ Goto(p, pc) /\ ConnFree(home[r])
  BY <1>0, NoFault DEF TerminalEvent, Logged
<1>2. pc \in CloseSteps /\ pc \in {"release", "cleanup"}  BY DEF CloseSteps
<1> HIDE DEF pc
<1>3. /\ log[r] \in Seq(EventKinds) /\ log'[r] = Append(log[r], close[p].want)
      /\ \A q \in Runs \ {r} : log'[q] = log[q]
  BY <1>1 DEF Inv, RestOK
<1>4. /\ Life(r) /\ CloserLife(p, r) /\ hb[r] # "none" /\ UNCHANGED <<task, hb, reg>>
      /\ spawn[r] \in {"spawned", "registered", "done", "dropped"}
  BY <1>0, <1>1, Closer DEF Goto
<1>5. /\ Endings(r) = {} /\ row[r].status = close[p].want /\ IsTerminal(close[p].want)
      /\ \A q \in Closers : Works(q, r) /\ close[q].pc = "event" => q = p
  BY <1>1, <1>4 DEF CloserLife
<1>6. Endings(r)' = {Len(log[r]) + 1} /\ log'[r][Len(log[r]) + 1] = close[p].want
  BY <1>3, <1>5 DEF Endings
<1>7. RowLife(r)'  BY <1>1, <1>4, <1>5 DEF Life, RowLife, Building
<1>8. /\ close'[p].pc = pc /\ close'[p].at = close[p].at
  BY <1>0, <1>1, <1>2, MovesOn
<1>9. CloserLife(p, r)'
  BY <1>0, <1>1, <1>2, <1>4, <1>5, <1>8 DEF CloserLife, Blind, HomeUp
<1>10. EventLife(r)'  BY <1>1, <1>5, <1>6 DEF EventLife
<1>11. SweepLife(r)'  BY <1>0, <1>1, Unaware
<1> QED
  BY <1>0, <1>1, <1>2, <1>3, <1>5, <1>7, <1>9, <1>10, <1>11, StepOfCloser

\* A step of a closer whose run has ended, which ends nothing itself.
LEMMA AfterwardsLife ==
  ASSUME Inv, Lives, NEW p \in Closers, NEW r \in Runs, Works(p, r),
         close[p].pc \in {"release", "cleanup"}, NEW pc \in {"cleanup", "remove"}, Goto(p, pc),
         \A q \in Runs \ {r} : log'[q] = log[q],
         log'[r] = log[r] \/ log'[r] = Append(log[r], "released"),
         UNCHANGED <<worker, sweep, row, home, spawn, faults>>
  PROVE  Lives'
<1>0. /\ Life(r) /\ CloserLife(p, r) /\ hb[r] # "none" /\ UNCHANGED <<task, hb, reg>>
      /\ spawn[r] \in {"spawned", "registered", "done", "dropped"}
      /\ row[r] \in Row /\ row' = [row EXCEPT ![r] = row[r]] /\ pc \in CloseSteps
  BY Closer DEF Goto, Inv, RowsOK, CloseSteps
<1>1. Endings(r)' = Endings(r) /\ \A i \in Endings(r) : log'[r][i] = log[r][i]
  BY PlainEvent DEF Endings
<1>2. RowLife(r)'  BY <1>0, <1>1 DEF Life, RowLife, Building
<1>3. /\ close'[p].pc = pc /\ close'[p].at = close[p].at
  BY <1>0, MovesOn
<1>4. CloserLife(p, r)'  BY <1>0, <1>3 DEF CloserLife, Blind, HomeUp
<1>5. EventLife(r)'  BY <1>0, <1>1 DEF Life, EventLife
<1>6. SweepLife(r)'  BY <1>0 DEF Life, SweepLife, Read
<1>7. \A q \in Closers \ {p} : Works(q, r) /\ close[q].pc = "event" => Endings(r)' = {}
  BY <1>0, <1>1 DEF Life, CloseLife, CloserLife
<1> QED  BY <1>0, <1>2, <1>4, <1>5, <1>6, <1>7, StepOfCloser

LEMMA ReleaseEventLife ==
  ASSUME Alone, Inv, Lives, NEW p \in Closers, ReleaseEvent(p) PROVE Lives'
<1> PICK r \in Runs : r = close[p].run /\ Works(p, r)
  BY AtWork DEF ReleaseEvent, CloseSteps
<1>1. log' = [log EXCEPT ![r] = Append(@, "released")] /\ Goto(p, "cleanup")
      /\ UNCHANGED <<worker, sweep, row, home, spawn, faults>> /\ close[p].pc = "release"
  BY NoFault DEF ReleaseEvent, Logged
<1>2. log'[r] = Append(log[r], "released") /\ \A q \in Runs \ {r} : log'[q] = log[q]
  BY <1>1 DEF Inv, RestOK
<1> QED  BY <1>1, <1>2, AfterwardsLife

LEMMA CleanupLife == ASSUME Inv, Lives, NEW p \in Closers, Cleanup(p) PROVE Lives'
<1> PICK r \in Runs : r = close[p].run /\ Works(p, r)
  BY AtWork DEF Cleanup, CloseSteps
<1> QED  BY AfterwardsLife DEF Cleanup

LEMMA RemoveLife == ASSUME Inv, Lives, NEW p \in Closers, Remove(p) PROVE Lives'
<1> PICK r \in Runs : r = close[p].run /\ Works(p, r) /\ close[p].at = home[r]
  BY AtWork DEF Remove, CloseSteps
<1>1. row[r].status # "running"
  BY Closer DEF Remove, CloserLife, IsTerminal, Terminal
<1> QED  BY <1>1, RemoveEntryLife DEF Remove

\* Nobody asks for a cancellation.
LEMMA NoCancel ==
  ASSUME Alone, Inv, Lives, NEW c \in Calls
  PROVE  /\ \A r \in Runs, w \in Workers : ~CancelRead(c, r, w)
         /\ ~CancelStep(c)
<1>1. c \in Closers /\ c \notin ApiCalls  BY CallIsNoRun DEF Alone
<1>2. close[c].pc \notin {"route", "cancelIntent", "cancelStatus"}
  <2> SUFFICES ASSUME close[c].pc \in {"route", "cancelIntent", "cancelStatus"} PROVE FALSE
    OBVIOUS
  <2>1. close[c].run \in Runs /\ Works(c, close[c].run)  BY <1>1, AtWork DEF CloseSteps
  <2> QED  BY <1>1, <2>1, Closer DEF CloserLife
<1> QED
  BY <1>1, <1>2 DEF CancelRead, CancelStep, CancelRoute, CancelIntent, CancelStatus

-----------------------------------------------------------------------------
(* The sweep, crashes and restarts. *)
LEMMA SameParts ==
  ASSUME NEW r \in Runs, Life(r), UNCHANGED <<worker, row, log, home, spawn, task, hb, reg, close>>
  PROVE  RowLife(r)' /\ StartLife(r)' /\ TaskLife(r)' /\ CloseLife(r)' /\ EventLife(r)'
<1>1. RowLife(r)'  BY SameEndings DEF Life, RowLife
<1>2. StartLife(r)'  BY DEF Life, StartLife, HomeUp, Nobody, Works, Active
<1>3. TaskLife(r)'  BY DEF Life, TaskLife, HomeUp, Nobody, Works, Active
<1>4. CloseLife(r)'
  <2> SUFFICES ASSUME NEW p \in Closers, Works(p, r) PROVE CloserLife(p, r)'
    BY DEF CloseLife, Works, Active
  <2>1. CloserLife(p, r)  BY DEF Life, CloseLife
  <2> QED  BY <2>1, SameEndings DEF CloserLife, Blind, Only, Works, Active, HomeUp
<1>5. EventLife(r)'  BY SameEndings DEF Life, EventLife
<1> QED  BY <1>1, <1>2, <1>3, <1>4, <1>5

LEMMA SweepSelectLife == ASSUME Inv, Lives, NEW w \in Workers, SweepSelect(w) PROVE Lives'
<1>1. /\ \A r \in Runs : sweep'[w][r] = IF Reconcilable(row[r]) THEN row[r] ELSE NoRow
      /\ \A v \in Workers \ {w} : sweep'[v] = sweep[v]
  BY DEF SweepSelect, Inv, RestOK
<1>2. ASSUME NEW r \in Runs PROVE Life(r)'
  <2>1. SweepLife(r)'
    <3>1. \A v \in Workers : ~Read(v, r)  BY NothingRead DEF SweepSelect
    <3> QED  BY <1>1, <3>1 DEF SweepLife, Read, NoRow, SweepSelect
  <2> QED  BY <2>1, SameParts DEF SweepSelect, Lives, Life
<1>3. GatewayLife'
  BY <1>1 DEF Lives, GatewayLife, SweepSelect, ConnFree
<1> QED  BY <1>2, <1>3 DEF Lives

LEMMA SweepFailsLife == ASSUME Alone, Inv, Lives, NEW w \in Workers, SweepFails(w) PROVE Lives'
  BY NoFault DEF SweepFails

\* The row of a stale run, and its events, after recovery.
LEMMA Recovered ==
  ASSUME NEW x \in Row, Reconcilable(x)
  PROVE  LET y == ReconcileRun(x, x) IN
           /\ y.status = ReconciledStatus(x) /\ y.owner = NoWorker /\ y.lease = "none"
           /\ y.hint = NoHint /\ y.cancelRequested = x.cancelRequested
           /\ x.status \in {"pending", "running"} /\ y.status \in Terminal
           /\ x.lease = "live" => x.owner = NoWorker
  BY ReconciledTerminal DEF ReconcileRun, Row, Reconcilable, Claimable, Incomplete, Unowned

LEMMA RecoveryEvents ==
  ASSUME Inv, NEW r \in Runs, NEW x \in Row, Endings(r) = {},
         log'[r] = log[r] \o ReconcileEvents(x)
  PROVE  /\ Endings(r)' = {Len(log[r]) + 1}
         /\ log'[r][Len(log[r]) + 1] = ReconciledStatus(x)
         /\ \A i \in DOMAIN log'[r] : log'[r][i] = "claimed"
                                        => i \in DOMAIN log[r] /\ log[r][i] = "claimed"
         /\ \A i \in DOMAIN log[r] : i \in DOMAIN log'[r] /\ log'[r][i] = log[r][i]
<1>1. log[r] \in Seq(EventKinds)  BY DEF Inv, RestOK
<1>2. ReconciledStatus(x) \in Terminal  BY ReconciledTerminal
<1>3. ~IsTerminal("released") /\ IsTerminal(ReconciledStatus(x)) /\ ReconciledStatus(x) # "claimed"
  BY <1>2 DEF IsTerminal, Terminal
<1>4. CASE x.owner = NoWorker
  <2>1. log'[r] = Append(log[r], ReconciledStatus(x))
    BY <1>1, <1>2, <1>4 DEF ReconcileEvents, EventKinds
  <2> QED  BY <1>1, <1>2, <1>3, <2>1 DEF Endings
<1>5. CASE x.owner # NoWorker
  <2>1. log'[r] = Append(Append(log[r], ReconciledStatus(x)), "released")
    BY <1>1, <1>2, <1>5 DEF ReconcileEvents, EventKinds
  <2> QED  BY <1>1, <1>2, <1>3, <2>1 DEF Endings
<1> QED  BY <1>4, <1>5

LEMMA SweepCommitLife == ASSUME Inv, Lives, NEW w \in Workers, SweepCommit(w) PROVE Lives'
<1>0. \A r \in Runs : Life(r) /\ row[r] \in Row  BY DEF Lives, Inv, RowsOK
<1>1. /\ \A r \in Runs : /\ row'[r] = IF Read(w, r) THEN ReconcileRun(row[r], sweep[w][r]) ELSE row[r]
                         /\ log'[r] = IF Read(w, r) THEN log[r] \o ReconcileEvents(sweep[w][r])
                                                    ELSE log[r]
      /\ sweep'[w] = NoRows /\ \A v \in Workers \ {w} : sweep'[v] = sweep[v]
      /\ UNCHANGED <<worker, home, spawn, task, hb, reg, close, faults>>
  BY DEF SweepCommit, Inv, RestOK
<1>2. \A v \in Workers, r \in Runs : ~(sweep'[v][r].status # Absent)
  <2>1. \A v \in Workers \ {w} : sweep[v] = NoRows
    BY DEF SweepCommit, Lives, GatewayLife
  <2> QED  BY <1>1, <2>1 DEF NoRows, NoRow
<1>3. ASSUME NEW r \in Runs PROVE Life(r)'
  <2>0. SweepLife(r)'  BY <1>2 DEF SweepLife, Read
  <2>1. CASE ~Read(w, r)
    <3>1. Untouched(r)  BY <1>1, <2>1 DEF Untouched, Works, Active
    <3>2. Endings(r)' = Endings(r)  BY <3>1 DEF Untouched, Endings
    <3>3. RowLife(r)'  BY <1>0, <3>1, <3>2 DEF Life, RowLife, Untouched
    <3>4. StartLife(r)'
      BY <1>0, <1>1, <3>1 DEF Life, StartLife, Untouched, HomeUp, Nobody
    <3>5. TaskLife(r)'
      BY <1>0, <1>1, <3>1 DEF Life, TaskLife, Untouched, HomeUp, Nobody
    <3>6. CloseLife(r)'
      <4> SUFFICES ASSUME NEW p \in Closers, Works(p, r)' PROVE CloserLife(p, r)'
        BY DEF CloseLife
      <4>1. CloserLife(p, r)  BY <1>0, <3>1 DEF Life, CloseLife, Untouched
      <4> QED  BY <1>1, <3>1, <3>2, <4>1 DEF CloserLife, Untouched, Only, HomeUp
    <3>7. EventLife(r)'  BY <1>0, <3>1, <3>2 DEF Life, EventLife, Untouched
    <3> QED  BY <2>0, <3>3, <3>4, <3>5, <3>6, <3>7 DEF Life
  <2>2. CASE Read(w, r)
    <3>1. /\ Reconcilable(row[r]) /\ row'[r] = ReconcileRun(row[r], row[r])
          /\ log'[r] = log[r] \o ReconcileEvents(row[r])
      BY <1>0, <1>1, <2>2 DEF Life, SweepLife
    <3>2. /\ row[r].status \in {"pending", "running"} /\ row[r].lease # "live"
          /\ row'[r].status = ReconciledStatus(row[r]) /\ row'[r].status \in Terminal
          /\ row'[r].owner = NoWorker /\ row'[r].lease = "none" /\ row'[r].hint = NoHint
          /\ row'[r].cancelRequested = row[r].cancelRequested
      BY <1>0, <3>1, Recovered DEF Life, RowLife
    <3>3. ~IsTerminal(row[r].status)  BY <3>2 DEF IsTerminal, Terminal
    <3>4. Endings(r) = {}  BY <1>0, <3>3 DEF Life, RowLife
    <3>5. /\ Endings(r)' = {Len(log[r]) + 1}
          /\ log'[r][Len(log[r]) + 1] = ReconciledStatus(row[r])
          /\ \A i \in DOMAIN log'[r] : log'[r][i] = "claimed"
                                         => i \in DOMAIN log[r] /\ log[r][i] = "claimed"
      BY <1>0, <3>1, <3>4, RecoveryEvents
    <3>6. IsTerminal(row'[r].status) /\ row'[r].status # Absent /\ row'[r].status # "running"
      BY <3>2 DEF IsTerminal, Terminal, Absent
    <3>7. ReconciledStatus(row[r]) = CASE row[r].hint # NoHint -> row[r].hint
                                       [] row[r].hint = NoHint /\ row[r].cancelRequested -> "cancelled"
                                       [] OTHER -> "interrupted"
      BY DEF ReconciledStatus
    <3>8. spawn[r] \in {"created", "failIntent"} => row'[r].status = "interrupted"
      BY <1>0, <3>2, <3>7 DEF Life, RowLife
    <3>9. spawn[r] = "failStatus" => row'[r].status = "failed"
      BY <1>0, <3>2, <3>7 DEF Life, RowLife, NoHint
    <3>10. spawn[r] # "failEvent" /\ spawn[r] # "claimed" /\ spawn[r] # "idle"
      BY <1>0, <3>2 DEF Life, RowLife, Absent
    <3>11. RowLife(r)'
      BY <1>0, <1>1, <3>2, <3>5, <3>6, <3>8, <3>9, <3>10 DEF Life, RowLife
    <3>12. StartLife(r)'
      BY <1>0, <1>1, <3>2 DEF Life, StartLife, HomeUp, Nobody, Works, Active
    <3>13. TaskLife(r)'
      BY <1>0, <1>1, <3>2, <3>6 DEF Life, TaskLife, HomeUp
    <3>14. CloseLife(r)'
      <4> SUFFICES ASSUME NEW p \in Closers, Works(p, r) PROVE CloserLife(p, r)'
        BY <1>1 DEF CloseLife, Works, Active
      <4>1. CloserLife(p, r)  BY <1>0 DEF Life, CloseLife
      <4>2. ~Blind(close[p]) /\ close[p].pc # "event"  BY <3>2, <3>3, <4>1 DEF CloserLife
      <4> QED  BY <1>1, <3>6, <4>1, <4>2 DEF CloserLife, HomeUp, Blind
    <3>15. EventLife(r)'  BY <3>2, <3>5 DEF EventLife
    <3> QED  BY <2>0, <3>11, <3>12, <3>13, <3>14, <3>15 DEF Life
  <2> QED  BY <2>1, <2>2
<1>4. GatewayLife'
  BY <1>1 DEF Lives, GatewayLife, SweepCommit
<1> QED  BY <1>3, <1>4 DEF Lives

\* A gateway starts when none is up, and no run has a home that never was up.
LEMMA StartWorkerLife == ASSUME Alone, Inv, Lives, NEW w \in Workers, StartWorker(w) PROVE Lives'
<1>1. \A v \in Workers : worker[v] # "up"
  <2>1. IsFiniteSet(Up) /\ Cardinality(Up) < 1
    BY FS_Subset DEF Alone, StartWorker, Up
  <2>2. Cardinality(Up) \in Nat  BY <2>1, FS_CardinalityType
  <2>3. Cardinality(Up) = 0  BY <2>1, <2>2
  <2> QED  BY <2>1, <2>3, FS_EmptySet DEF Up
<1>2. worker'[w] = "up" /\ \A v \in Workers \ {w} : worker'[v] = worker[v]
  BY DEF StartWorker, Inv, RestOK
<1>3. GatewayLife'  BY <1>1, <1>2 DEF Lives, GatewayLife, StartWorker
<1>4. ASSUME NEW r \in Runs PROVE Life(r)'
  <2>0. Life(r) /\ UNCHANGED <<sweep, row, log, home, spawn, task, hb, reg, close>>
    BY DEF Lives, StartWorker
  <2>1. spawn[r] # "idle" => worker'[home[r]] = worker[home[r]] /\ (HomeUp(r)' <=> HomeUp(r))
    <3> SUFFICES ASSUME spawn[r] # "idle" PROVE worker'[home[r]] = worker[home[r]]
      BY <2>0 DEF HomeUp
    <3>1. home[r] \in Workers /\ worker[home[r]] # "new"
      BY <2>0, HasHome DEF Inv, Life, StartLife
    <3> QED  BY <1>2, <3>1 DEF StartWorker
  <2>2. spawn[r] = "idle" => hb[r] = "none" /\ reg[r] = Absent /\ task[r] = "none" /\ Nobody(r)
    BY <2>0, Unstarted
  <2>3. RowLife(r)'  BY <2>0, SameEndings DEF Life, RowLife
  <2>4. StartLife(r)'
    BY <2>0, <2>1 DEF Life, StartLife, Nobody, Works, Active, Building
  <2>5. TaskLife(r)'
    BY <2>0, <2>1, <2>2 DEF Life, TaskLife, Nobody, Works, Active
  <2>6. CloseLife(r)'
    <3> SUFFICES ASSUME NEW p \in Closers, Works(p, r) PROVE CloserLife(p, r)'
      BY <2>0 DEF CloseLife, Works, Active
    <3>1. CloserLife(p, r) /\ spawn[r] # "idle"  BY <2>0, <2>2 DEF Life, CloseLife, Nobody
    <3> QED  BY <2>0, <2>1, <3>1, SameEndings DEF CloserLife, Blind, Only, Works, Active
  <2>7. EventLife(r)'  BY <2>0, SameEndings DEF Life, EventLife
  <2>8. SweepLife(r)'  BY <2>0 DEF Life, SweepLife, Read
  <2> QED  BY <2>3, <2>4, <2>5, <2>6, <2>7, <2>8 DEF Life
<1> QED  BY <1>3, <1>4 DEF Lives

LEMMA CrashLife == ASSUME Inv, Lives, NEW w \in Workers, Crash(w) PROVE Lives'
<1>1. /\ worker'[w] = "down" /\ \A v \in Workers \ {w} : worker'[v] = worker[v]
      /\ sweep'[w] = NoRows /\ \A v \in Workers \ {w} : sweep'[v] = sweep[v]
      /\ UNCHANGED <<row, log, home, faults>>
  BY DEF Crash, Inv, RestOK
<1>2. GatewayLife'  BY <1>1 DEF Lives, GatewayLife
<1>3. ASSUME NEW r \in Runs PROVE Life(r)'
  <2>0. Life(r)  BY DEF Lives
  <2>1. /\ spawn'[r] = IF home[r] = w /\ spawn[r] # "done" THEN "dropped" ELSE spawn[r]
        /\ task'[r] = IF home[r] = w /\ task[r] \in {"executing", "closing"} THEN "aborted" ELSE task[r]
        /\ hb'[r] = IF home[r] = w /\ hb[r] = "beating" THEN "stopped" ELSE hb[r]
        /\ reg'[r] = IF home[r] = w THEN Absent ELSE reg[r]
        /\ \A p \in Closers : close'[p] = IF Active(p) /\ close[p].at = w THEN Done ELSE close[p]
    BY DEF Crash
  <2>2. SweepLife(r)'
    BY <1>1, <2>0 DEF Life, SweepLife, Read, NoRows, NoRow
  <2>3. CASE home[r] # w
    <3>1. /\ Untouched(r) /\ UNCHANGED home
          /\ spawn[r] # "idle" => worker'[home[r]] = worker[home[r]]
      <4>1. ASSUME NEW p \in Closers, Works(p, r) PROVE close'[p] = close[p]
        BY <2>0, <2>1, <2>3, <4>1 DEF Life, CloseLife, CloserLife
      <4>2. ASSUME NEW p \in Closers PROVE Works(p, r)' <=> Works(p, r)
        BY <2>1, <4>1 DEF Works, Active, Done
      <4>3. spawn[r] # "idle" => worker'[home[r]] = worker[home[r]]
        BY <1>1, <2>3, HasHome DEF Inv
      <4> QED  BY <1>1, <2>1, <2>3, <4>1, <4>2, <4>3 DEF Untouched
    <3>2. Endings(r)' = Endings(r)  BY <1>1, SameEndings
    <3>3. spawn[r] # "idle" => (HomeUp(r)' <=> HomeUp(r))  BY <3>1 DEF HomeUp
    <3>4. spawn[r] = "idle" => hb[r] = "none" /\ reg[r] = Absent /\ task[r] = "none" /\ Nobody(r)
      BY <2>0, Unstarted
    <3>5. RowLife(r)'  BY <2>0, <3>1, <3>2 DEF Life, RowLife, Untouched
    <3>6. StartLife(r)'
      BY <2>0, <3>1, <3>3 DEF Life, StartLife, Untouched, Nobody, Building
    <3>7. TaskLife(r)'
      BY <2>0, <3>1, <3>3, <3>4 DEF Life, TaskLife, Untouched, Nobody
    <3>8. CloseLife(r)'
      <4> SUFFICES ASSUME NEW p \in Closers, Works(p, r)' PROVE CloserLife(p, r)'
        BY DEF CloseLife
      <4>1. CloserLife(p, r) /\ spawn[r] # "idle" /\ close'[p] = close[p]
        BY <2>0, <3>1, <3>4 DEF Life, CloseLife, Nobody, Untouched
      <4> QED  BY <3>1, <3>2, <3>3, <4>1 DEF CloserLife, Untouched, Only
    <3>9. EventLife(r)'  BY <2>0, <3>1, <3>2 DEF Life, EventLife, Untouched
    <3> QED  BY <2>2, <3>5, <3>6, <3>7, <3>8, <3>9 DEF Life
  <2>4. CASE home[r] = w
    <3>1. spawn[r] # "idle" /\ ~HomeUp(r)'
      BY <1>1, <2>0, <2>4, NoWorkerAssumption DEF Life, StartLife, HomeUp
    <3>2. /\ spawn'[r] \in {"done", "dropped"} /\ (spawn'[r] = "done" => spawn[r] = "done")
          /\ task'[r] \notin {"executing", "closing"}
          /\ reg'[r] = Absent /\ (hb'[r] = "none" <=> hb[r] = "none")
      BY <2>1, <2>4
    <3>3. Nobody(r)'
      <4> SUFFICES ASSUME NEW p \in Closers, Works(p, r)' PROVE FALSE  BY DEF Nobody
      <4>1. Works(p, r) /\ ~(Active(p) /\ close[p].at = w)
        BY <2>1 DEF Works, Active, Done
      <4> QED  BY <2>0, <2>4, <4>1 DEF Life, CloseLife, CloserLife, Works
    <3>4. RowLife(r)'
      BY <1>1, <2>0, <3>1, <3>2, SameEndings DEF Life, RowLife, Building
    <3>5. hb[r] = "none" => task'[r] = "none" /\ spawn'[r] = "dropped"
      BY <2>0, <2>1, <3>2 DEF Life, StartLife, Building
    <3>6. StartLife(r)'
      BY <1>1, <2>0, <2>4, <3>2, <3>3, <3>5 DEF Life, StartLife, Building
    <3>7. TaskLife(r)'  BY <3>1, <3>2 DEF TaskLife, Absent
    <3>8. CloseLife(r)'  BY <3>3 DEF CloseLife, Nobody
    <3>9. EventLife(r)'  BY <1>1, <2>0, <3>2, SameEndings DEF Life, EventLife
    <3> QED  BY <2>2, <3>4, <3>6, <3>7, <3>8, <3>9 DEF Life
  <2> QED  BY <2>3, <2>4
<1> QED  BY <1>2, <1>3 DEF Lives

-----------------------------------------------------------------------------
(* Together. *)
LEMMA InitLives == Alone /\ Init => Lives
<1> SUFFICES ASSUME Alone, Init PROVE Lives  OBVIOUS
<1>1. \A v, w \in Workers : worker[v] = "up" /\ worker[w] = "up" => v = w
  <2>1. IsFiniteSet(Up) /\ Cardinality(Up) = 1
    BY FS_Subset DEF Alone, Init, Up
  <2>2. \E x : Up = {x}  BY <2>1, FS_Singleton
  <2> QED  BY <2>2 DEF Up
<1>2. GatewayLife  BY <1>1 DEF Init, GatewayLife
<1>3. ASSUME NEW r \in Runs PROVE Life(r)
  <2>1. Endings(r) = {}  BY DEF Init, Endings
  <2>2. Nobody(r)  BY DEF Init, Nobody, Works, Active, Idle
  <2>3. RowLife(r)  BY <2>1 DEF Init, RowLife, NoRow, Absent, Building
  <2>4. StartLife(r)  BY <2>2 DEF Init, StartLife, Building
  <2>5. TaskLife(r) /\ CloseLife(r) /\ EventLife(r)
    BY <2>1, <2>2 DEF Init, TaskLife, CloseLife, EventLife, Nobody, Absent
  <2>6. SweepLife(r)  BY DEF Init, SweepLife, Read, NoRows, NoRow
  <2> QED  BY <2>3, <2>4, <2>5, <2>6 DEF Life
<1> QED  BY <1>2, <1>3 DEF Lives

LEMMA StutterLives == ASSUME Lives, UNCHANGED vars PROVE Lives'
<1>1. ASSUME NEW r \in Runs PROVE Life(r)'
  <2>1. SweepLife(r)'  BY DEF vars, Lives, Life, SweepLife, Read
  <2> QED  BY <2>1, SameParts DEF vars, Lives, Life
<1>2. GatewayLife'  BY DEF vars, Lives, GatewayLife
<1> QED  BY <1>1, <1>2 DEF Lives

LEMMA NextLives == Alone /\ Inv /\ Lives /\ [Next]_vars => Lives'
<1> SUFFICES ASSUME Alone, Inv, Lives, [Next]_vars PROVE Lives'  OBVIOUS
<1>1. CASE \E r \in Runs : RunStep(r)
  <2> PICK r \in Runs : RunStep(r)  BY <1>1
  <2>1. CASE SpawnStep(r)
    BY <2>1, BuildFailsLife, FailIntentLife, FailStatusLife, FailEventLife, ClaimLife,
       StartTasksLife, RegisterOwnedLife, RunStartedLife DEF SpawnStep
  <2> QED
    BY <2>1, CreateLife, DropSpawnLife, HeartbeatLife, LeaseExpiresLife, AgentReturnsLife,
       AgentPanicsLife DEF RunStep
<1>2. CASE \E c \in Calls : CallStep(c)
  BY <1>2, RespondLife, TimeoutOverDisconnectLife, OutcomeDroppedLife, NoCancel, DropCallLife
  DEF CallStep
<1>3. CASE \E p \in Closers : CloseStep(p)
  BY <1>3, IntentLife, StatusLife, UnownedIntentLife, UnownedStatusLife, TerminalEventLife,
     ReleaseEventLife, CleanupLife, RemoveLife DEF CloseStep
<1>4. CASE \E w \in Workers : WorkerStep(w)
  BY <1>4, SweepSelectLife, SweepCommitLife, SweepFailsLife, StartWorkerLife, CrashLife
  DEF WorkerStep
<1> QED  BY <1>1, <1>2, <1>3, <1>4, StutterLives DEF Next

LEMMA AlwaysLives == ASSUME Alone PROVE Spec => [](Inv /\ Lives)
<1>1. Init => Inv /\ Lives  BY InitInv, InitLives
<1>2. Inv /\ Lives /\ [Next]_vars => (Inv /\ Lives)'  BY NextInv, NextLives
<1> QED  BY <1>1, <1>2, PTL DEF Spec

\* A conversation never goes on in a run that was ended, by recovery or by anybody
\* else: task and lease of a gateway live and die together.
THEOREM NoOrphans == Alone => (Spec => []NoOrphanExecution)
<1> SUFFICES ASSUME Alone PROVE Spec => []NoOrphanExecution  OBVIOUS
<1>1. Lives => NoOrphanExecution  BY DEF Lives, Life, TaskLife, NoOrphanExecution
<1> QED  BY <1>1, AlwaysLives, PTL

\* Finalize, terminate and recovery append at most one terminal event to a started
\* run between them, and it says what the row says.
THEOREM EndsOnce == Alone => (Spec => []OneEnding)
<1> SUFFICES ASSUME Alone PROVE Spec => []OneEnding  OBVIOUS
<1>1. Lives => OneEnding  BY DEF Lives, Life, EventLife, OneEnding, Started
<1> QED  BY <1>1, AlwaysLives, PTL

-----------------------------------------------------------------------------
(* What its own task ends, it ends completely.                              *)

\* A run whose gateway is up and whose handler stayed, and which no response
\* handler has touched.
Calm(r) == /\ \A c \in Calls : close[c] = Idle
           /\ hb[r] # "none" /\ HomeUp(r)
           /\ spawn[r] \in {"spawned", "registered", "done"}

\* How far the run task c has got.
Progress(r, c) ==
  /\ ~c.was
  /\ c.owned => spawn[r] # "spawned" /\ reg[r] # Absent
  /\ c.pc \in {"intent", "status", "unowned"} =>
       row[r].status = "running" /\ row[r].lease = "live"
  /\ c.pc \in {"release", "cleanup", "remove"} => Endings(r) # {}
  /\ c.pc = "remove" => cleaned[r]

Over(r) ==
  /\ IsTerminal(row[r].status) /\ Endings(r) # {} /\ cleaned[r]
  /\ \/ reg[r] = Absent
     \/ spawn[r] = "registered"
     \/ spawn[r] = "done" /\ Overtaken(r)

Own(r) == Calm(r) => /\ task[r] = "closing" => Works(r, r) /\ Progress(r, close[r])
                     /\ task[r] = "ended" => Over(r)
Owns == \A r \in Runs : Own(r)

-----------------------------------------------------------------------------
\* A step that leaves a run alone, up to what only matters to others.
Apart(q) ==
  /\ row'[q] = row[q] /\ log'[q] = log[q] /\ home'[q] = home[q]
  /\ spawn'[q] = spawn[q] /\ task'[q] = task[q] /\ hb'[q] = hb[q] /\ reg'[q] = reg[q]
  /\ close'[q] = close[q] /\ cleaned'[q] = cleaned[q]

StillIdle == \A c \in Calls : close'[c] = Idle => close[c] = Idle

LEMMA ApartOwns == ASSUME NEW q \in Runs, Own(q), Apart(q), StillIdle, HomeUp(q)' => HomeUp(q)
                   PROVE  Own(q)'
<1> SUFFICES ASSUME Calm(q)'
             PROVE  /\ task'[q] = "closing" => Works(q, q)' /\ Progress(q, close[q])'
                    /\ task'[q] = "ended" => Over(q)'
  BY DEF Own
<1>1. Endings(q)' = Endings(q) /\ (Overtaken(q)' <=> Overtaken(q))
  BY DEF Endings, Overtaken, Apart
<1>2. Calm(q)  BY DEF Calm, Apart, StillIdle
<1>3. Works(q, q)' <=> Works(q, q)  BY DEF Works, Active, Apart
<1>4. Progress(q, close[q])' <=> Progress(q, close[q])  BY <1>1 DEF Progress, Apart
<1>5. Over(q)' <=> Over(q)  BY <1>1 DEF Over, Apart
<1> QED  BY <1>2, <1>3, <1>4, <1>5 DEF Own, Apart

\* A step of the run r alone.
LEMMA OneOwns == ASSUME Owns, NEW r \in Runs, \A q \in Runs \ {r} : Apart(q), StillIdle,
                        UNCHANGED worker, Own(r)'
                 PROVE  Owns'
<1> SUFFICES ASSUME NEW q \in Runs \ {r} PROVE Own(q)'  BY DEF Owns
<1>1. HomeUp(q)' => HomeUp(q)  BY DEF HomeUp, Apart
<1> QED  BY <1>1, ApartOwns DEF Owns

\* The run task either executes, and then owns nothing yet, or is gone.
LEMMA OtherTask == ASSUME NEW r \in Runs, task'[r] \notin {"closing", "ended"} PROVE Own(r)'
  BY DEF Own

LEMMA SpawnOwns ==
  ASSUME Inv, Owns, NEW r \in Runs, NEW s, s \notin {"spawned", "registered", "done"},
         spawn' = [spawn EXCEPT ![r] = s],
         \A q \in Runs \ {r} : row'[q] = row[q] /\ log'[q] = log[q] /\ home'[q] = home[q],
         UNCHANGED <<worker, task, hb, reg, close, cleaned>>
  PROVE  Owns'
<1>1. spawn'[r] = s /\ \A q \in Runs \ {r} : Apart(q)  BY DEF Apart, Inv, TasksOK
<1>2. Own(r)'  BY <1>1 DEF Own, Calm
<1> QED  BY <1>1, <1>2, OneOwns DEF StillIdle

LEMMA BuildOwns ==
  ASSUME Alone, Inv, Lives, Owns, NEW r \in Runs,
         \/ \E w \in Workers : Create(r, w)
         \/ BuildFails(r) \/ FailIntent(r) \/ FailStatus(r) \/ FailEvent(r) \/ DropSpawn(r)
  PROVE  Owns'
<1>0. /\ \A x : row' = [row EXCEPT ![r] = x] => \A q \in Runs \ {r} : row'[q] = row[q]
      /\ \A x : log' = [log EXCEPT ![r] = x] => \A q \in Runs \ {r} : log'[q] = log[q]
      /\ \A x : home' = [home EXCEPT ![r] = x] => \A q \in Runs \ {r} : home'[q] = home[q]
  BY DEF Inv, RowsOK, RestOK, TasksOK
<1>1. CASE \E w \in Workers : Create(r, w)  BY <1>0, <1>1, SpawnOwns DEF Create, Logged
<1>2. CASE BuildFails(r)  BY <1>2, SpawnOwns DEF BuildFails
<1>3. CASE FailIntent(r)  BY <1>0, <1>3, NoFault, SpawnOwns DEF FailIntent
<1>4. CASE FailStatus(r)  BY <1>0, <1>4, NoFault, SpawnOwns DEF FailStatus
<1>5. CASE FailEvent(r)  BY <1>0, <1>5, NoFault, SpawnOwns DEF FailEvent, Logged
<1>6. CASE DropSpawn(r)  BY <1>6, SpawnOwns DEF DropSpawn
<1> QED  BY <1>1, <1>2, <1>3, <1>4, <1>5, <1>6

LEMMA ClaimOwns == ASSUME Alone, Inv, Lives, Owns, NEW r \in Runs, Claim(r) PROVE Owns'
<1>0. /\ \A x : row' = [row EXCEPT ![r] = x] => \A q \in Runs \ {r} : row'[q] = row[q]
      /\ \A x : log' = [log EXCEPT ![r] = x] => \A q \in Runs \ {r} : log'[q] = log[q]
  BY DEF Inv, RowsOK, RestOK
<1>1. \E s \in {"claimed", "dropped"} : spawn' = [spawn EXCEPT ![r] = s]
  BY NoFault DEF Claim
<1>2. \A q \in Runs \ {r} : row'[q] = row[q] /\ log'[q] = log[q]
  BY <1>0, NoFault DEF Claim, Logged
<1> QED  BY <1>1, <1>2, SpawnOwns DEF Claim

LEMMA StartTasksOwns == ASSUME Inv, Owns, NEW r \in Runs, StartTasks(r) PROVE Owns'
<1>1. task'[r] = "executing" /\ \A q \in Runs \ {r} : Apart(q)
  BY DEF StartTasks, Apart, Inv, TasksOK
<1> QED  BY <1>1, OtherTask, OneOwns DEF StartTasks, StillIdle

LEMMA AgentPanicsOwns == ASSUME Inv, Owns, NEW r \in Runs, AgentPanics(r) PROVE Owns'
<1>1. task'[r] = "aborted" /\ \A q \in Runs \ {r} : Apart(q)
  BY DEF AgentPanics, Apart, Inv, TasksOK
<1> QED  BY <1>1, OtherTask, OneOwns DEF AgentPanics, StillIdle

\* register_owned may come after the end of the task, and enters it again.
LEMMA RegisterOwnedOwns == ASSUME Inv, Lives, Owns, NEW r \in Runs, RegisterOwned(r) PROVE Owns'
<1>0. /\ Own(r) /\ spawn[r] = "spawned" /\ spawn'[r] = "registered" /\ reg'[r] = "running"
      /\ UNCHANGED <<worker, row, log, home, task, hb, close, cleaned>>
      /\ \A q \in Runs \ {r} : Apart(q)
  BY DEF RegisterOwned, Owns, Apart, Inv, TasksOK
<1>1. Own(r)'
  BY <1>0, SameEndings
  DEF Own, Calm, Works, Active, HomeUp, Progress, Over, Absent
<1> QED  BY <1>0, <1>1, OneOwns DEF StillIdle

LEMMA RunStartedOwns == ASSUME Alone, Inv, Lives, Owns, NEW r \in Runs, RunStarted(r) PROVE Owns'
<1>0. /\ Own(r) /\ spawn[r] = "registered" /\ spawn'[r] = "done"
      /\ UNCHANGED <<worker, row, home, task, hb, reg, close, cleaned>>
      /\ log'[r] = Append(log[r], "started") /\ log[r] \in Seq(EventKinds)
      /\ \A q \in Runs \ {r} : Apart(q)
  BY NoFault DEF RunStarted, Logged, Owns, Apart, Inv, TasksOK, RestOK
<1>1. Endings(r)' = Endings(r)  BY <1>0, PlainEvent
<1>2. Endings(r) # {} => Overtaken(r)'
  <2> SUFFICES ASSUME NEW j \in Endings(r) PROVE Overtaken(r)'  OBVIOUS
  <2> DEFINE i == Len(log[r]) + 1
  <2>1. i \in DOMAIN log'[r] /\ log'[r][i] = "started" /\ j < i
    BY <1>0 DEF Endings
  <2> QED  BY <1>1, <2>1 DEF Overtaken
<1>3. Own(r)'
  BY <1>0, <1>1, <1>2 DEF Own, Calm, Works, Active, HomeUp, Progress, Over
<1> QED  BY <1>0, <1>3, OneOwns DEF StillIdle

\* A lease that is renewed.
LEMMA HeartbeatOwns == ASSUME Alone, Inv, Lives, Owns, NEW r \in Runs, Heartbeat(r) PROVE Owns'
<1>0. /\ Own(r) /\ row[r] \in Row /\ hb[r] = "beating"
      /\ UNCHANGED <<worker, log, home, spawn, task, reg, close, cleaned>>
  BY DEF Heartbeat, Owns, Inv, RowsOK
<1>1. /\ row'[r].status = row[r].status /\ (row[r].lease = "live" => row'[r].lease = "live")
      /\ \A q \in Runs \ {r} : Apart(q)
  BY <1>0, NoFault DEF Heartbeat, HeartbeatRunOwnership, Row, Apart, Inv, RowsOK, TasksOK
<1>2. Own(r)'
  BY <1>0, <1>1, SameEndings DEF Own, Calm, Works, Active, HomeUp, Progress, Over, Overtaken
<1> QED  BY <1>0, <1>1, <1>2, OneOwns DEF StillIdle

LEMMA LeaseExpiresOwns == ASSUME Alone, Inv, Lives, Owns, NEW r \in Runs, LeaseExpires(r) PROVE Owns'
<1>0. /\ Own(r) /\ row[r] \in Row
      /\ UNCHANGED <<worker, log, home, spawn, task, hb, reg, close, cleaned>>
  BY DEF LeaseExpires, Owns, Inv, RowsOK
<1>1. row'[r].status = row[r].status /\ \A q \in Runs \ {r} : Apart(q)
  BY <1>0 DEF LeaseExpires, Row, Apart, Inv, RowsOK, TasksOK
<1>2. ~Works(r, r)
  <2> SUFFICES ASSUME Works(r, r) PROVE FALSE  OBVIOUS
  <2>1. r \in Closers  BY DEF Closers
  <2>2. Attended(r)  BY <2>1, Closer DEF Attended, HomeUp, Works
  <2> QED  BY <2>2 DEF LeaseExpires, Alone
<1>3. Own(r)'
  BY <1>0, <1>1, <1>2, SameEndings DEF Own, Calm, Works, Active, HomeUp, Over, Overtaken
<1> QED  BY <1>0, <1>1, <1>3, OneOwns DEF StillIdle

\* The conversation ends: its run still runs, and nobody has closed it.
LEMMA AgentReturnsOwns ==
  ASSUME Inv, Lives, Owns, NEW r \in Runs, NEW s \in {"completed", "failed"}, AgentReturns(r, s)
  PROVE  Owns'
<1>0. /\ task[r] = "executing" /\ row[r].status = "running" /\ row[r].lease = "live"
      /\ spawn[r] = "spawned" => reg[r] = Absent
      /\ spawn[r] # "spawned" => reg[r] = "running"
      /\ UNCHANGED <<worker, row, log, home, spawn, cleaned>>
      /\ r \in Closers /\ r \notin Calls
  BY CallIsNoRun DEF AgentReturns, Lives, Life, TaskLife, Closers
<1>1. ~IsTerminal(row[r].status) /\ ~IsTerminal("running")  BY <1>0 DEF IsTerminal, Terminal
<1>2. /\ task' = [task EXCEPT ![r] = "closing"] /\ (\A q \in Runs \ {r} : hb'[q] = hb[q])
      /\ \E d : /\ close' = [close EXCEPT ![r] = d]
                /\ d.run = r /\ ~d.was /\ d.pc \in {"intent", "unowned"}
                /\ d.pc = "intent" => reg' = [reg EXCEPT ![r] = s] /\ spawn[r] # "spawned"
                /\ d.pc = "unowned" => ~d.owned /\ UNCHANGED reg
  <2>1. CASE FinalizeRegistered(r, r, home[r], s)
    <3> DEFINE k == [pc |-> "intent", run |-> r, at |-> home[r], kind |-> "finalize",
                     want |-> s, was |-> IsTerminal(reg[r]), owned |-> TRUE]
               d == [k EXCEPT !.pc = FirstWrite(k)]
    <3>1. reg[r] = "running" /\ spawn[r] # "spawned"
      BY <1>0, <2>1 DEF FinalizeRegistered, Registered
    <3>2. close' = [close EXCEPT ![r] = d] /\ task' = [task EXCEPT ![r] = "closing"]
          /\ reg' = [reg EXCEPT ![r] = s] /\ hb' = [hb EXCEPT ![r] = "stopped"]
      BY <1>1, <2>1, <3>1 DEF FinalizeRegistered
    <3>3. d.run = r /\ ~d.was /\ d.pc = "intent"
      BY <1>1, <3>1 DEF FirstWrite, RecordsIntent
    <3> HIDE DEF d
    <3>4. \A q \in Runs \ {r} : hb'[q] = hb[q]  BY <3>2 DEF Inv, TasksOK
    <3> QED  BY <3>1, <3>2, <3>3, <3>4
  <2>2. CASE FinalizeUnregistered(r, r, home[r], s)
    <3> DEFINE d == [pc |-> "unowned", run |-> r, at |-> home[r], kind |-> "finalize",
                     want |-> s, was |-> FALSE, owned |-> FALSE]
    <3>1. close' = [close EXCEPT ![r] = d] /\ task' = [task EXCEPT ![r] = "closing"]
          /\ UNCHANGED <<reg, hb>>
      BY <1>1, <2>2 DEF FinalizeUnregistered
    <3>2. d.run = r /\ ~d.was /\ ~d.owned /\ d.pc = "unowned"  OBVIOUS
    <3> HIDE DEF d
    <3> QED  BY <3>1, <3>2
  <2> QED  BY <2>1, <2>2 DEF AgentReturns
<1>3. PICK d : /\ close' = [close EXCEPT ![r] = d]
               /\ d.run = r /\ ~d.was /\ d.pc \in {"intent", "unowned"}
               /\ d.pc = "intent" => reg' = [reg EXCEPT ![r] = s] /\ spawn[r] # "spawned"
               /\ d.pc = "unowned" => ~d.owned /\ UNCHANGED reg
  BY <1>2
<1>4. close'[r] = d /\ task'[r] = "closing" /\ \A q \in Closers \ {r} : close'[q] = close[q]
  BY <1>0, <1>2, <1>3 DEF Inv, TasksOK
<1>5. \A q \in Runs \ {r} : Apart(q)
  BY <1>0, <1>2, <1>3, <1>4 DEF Apart, Inv, TasksOK, Closers
<1>6. d.pc = "intent" => reg'[r] = s /\ s # Absent  BY <1>3 DEF Inv, TasksOK, Absent
<1>7. Works(r, r)' /\ Progress(r, close[r])'
  BY <1>0, <1>3, <1>4, <1>6 DEF Works, Active, Progress
<1>8. Own(r)'  BY <1>4, <1>7 DEF Own
<1>9. StillIdle
  <2> SUFFICES ASSUME NEW c \in Calls PROVE close'[c] = close[c]  BY DEF StillIdle
  <2>1. c \in Closers \ {r}  BY CallIsNoRun
  <2> QED  BY <1>4, <2>1
<1> QED  BY <1>0, <1>5, <1>8, <1>9, OneOwns

-----------------------------------------------------------------------------
\* A step of a closer that moves on, in the slot of the run task.
LEMMA MovesOwn ==
  ASSUME Inv, Lives, Owns, NEW p \in Closers, NEW r \in Runs, Works(p, r), NEW pc \in CloseSteps,
         Goto(p, pc), UNCHANGED <<worker, home, spawn>>,
         \A q \in Runs \ {r} : row'[q] = row[q] /\ log'[q] = log[q] /\ cleaned'[q] = cleaned[q],
         p = r /\ Calm(r) => Progress(r, close[r])'
  PROVE  Owns'
<1>0. /\ Own(r) /\ UNCHANGED <<task, hb, reg>> /\ close'[p].pc = pc
      /\ \A q \in Closers \ {p} : close'[q] = close[q]
      /\ \A q \in Closers, x \in Runs : Works(q, x)' <=> Works(q, x)
      /\ \A q \in Runs \ {r} : ~Works(p, q)
  BY MovesOn DEF Owns, Goto
<1>1. \A q \in Runs : q = p => q = r  BY OwnSlot
<1>2. \A q \in Runs \ {r} : Apart(q)
  BY <1>0, <1>1 DEF Apart, Closers
<1>3. StillIdle
  <2>1. close[p] # Idle  BY DEF Works, Active, Idle
  <2>2. \A c \in Calls : c \in Closers  BY CallIsNoRun
  <2>3. close'[p] # Idle  BY <1>0 DEF CloseSteps, Idle
  <2> QED  BY <1>0, <2>2, <2>3 DEF StillIdle
<1>4. Own(r)'
  <2>1. CASE p = r
    <3>1. task[r] = "closing"  BY <2>1, Closer DEF CloserLife
    <3>2. Calm(r)' => Calm(r)  BY <1>0, <1>3 DEF Calm, StillIdle, HomeUp
    <3> QED  BY <1>0, <2>1, <3>1, <3>2 DEF Own
  <2>2. CASE p # r
    <3>1. p \in Calls  BY <1>1, <2>2 DEF Closers
    <3>2. close'[p] # Idle  BY <1>0 DEF CloseSteps, Idle
    <3> QED  BY <3>1, <3>2 DEF Own, Calm
  <2> QED  BY <2>1, <2>2
<1> QED  BY <1>2, <1>3, <1>4, OneOwns

\* What a closer finds in its own slot.
LEMMA OwnProgress ==
  ASSUME Inv, Lives, Owns, NEW r \in Runs, Works(r, r), Calm(r)
  PROVE  /\ Progress(r, close[r]) /\ CloserLife(r, r) /\ row[r] \in Row
         /\ Fits(row[r], home[r])
<1>1. r \in Closers  BY DEF Closers
<1>2. CloserLife(r, r)  BY <1>1, Closer
<1> QED  BY <1>2 DEF Owns, Own, CloserLife, Inv, RowsOK

\* The run task removes its entry, and is over.
LEMMA RemoveOwns ==
  ASSUME Inv, Lives, Owns, NEW p \in Closers, NEW r \in Runs, Works(p, r), RemoveEntry(p, r, home[r]),
         p = r /\ Calm(r) => IsTerminal(row[r].status) /\ Endings(r) # {} /\ cleaned[r],
         UNCHANGED <<worker, row, log, home, spawn, cleaned>>
  PROVE  Owns'
<1>1. /\ close'[p] = Done /\ \A q \in Closers \ {p, r} : close'[q] = close[q]
      /\ \A q \in Runs \ {r} : task'[q] = task[q] /\ hb'[q] = hb[q] /\ reg'[q] = reg[q]
      /\ p = r => task'[r] = "ended" /\ reg'[r] = Absent /\ (hb'[r] # "none" => hb[r] # "none")
  <2>1. CASE Registered(r, home[r])
    <3>1. hb[r] # "none"  BY Closer
    <3> QED  BY <2>1, <3>1 DEF RemoveEntry, CloseAborted, TaskAborted, Inv, TasksOK, Closers
  <2>2. CASE ~Registered(r, home[r])
    <3>1. reg[r] = Absent  BY <2>2 DEF Registered
    <3> QED  BY <2>2, <3>1 DEF RemoveEntry, Inv, TasksOK, Closers
  <2> QED  BY <2>1, <2>2
<1>2. \A q \in Runs : q = p => q = r  BY OwnSlot
<1>3. \A q \in Runs \ {r} : Apart(q)  BY <1>1, <1>2 DEF Apart, Closers
<1>4. StillIdle
  <2>1. \A c \in Calls : c \in Closers /\ c # r  BY CallIsNoRun
  <2> QED  BY <1>1, <2>1 DEF StillIdle, Done, Idle
<1>5. Own(r)'
  <2>1. CASE p = r
    <3>1. Calm(r)' => Calm(r)  BY <1>1, <1>4, <2>1 DEF Calm, StillIdle, HomeUp
    <3> QED  BY <1>1, <2>1, <3>1, SameEndings DEF Own, Over
  <2>2. CASE p # r
    <3>1. p \in Calls  BY <1>2, <2>2 DEF Closers
    <3> QED  BY <1>1, <3>1 DEF Own, Calm, Done, Idle
  <2> QED  BY <2>1, <2>2
<1> QED  BY <1>3, <1>4, <1>5, OneOwns

\* The run task still owns a row that runs.
LEMMA StillOwned ==
  ASSUME Inv, Lives, Owns, NEW r \in Runs, Works(r, r), Calm(r), close[r].pc \in {"intent", "status"}
  PROVE  OwnedBy(row[r], home[r])
  BY OwnProgress DEF Progress, OwnedBy, Fits, Lives, Life, RowLife, Absent

LEMMA IntentOwns == ASSUME Alone, Inv, Lives, Owns, NEW p \in Closers, Intent(p) PROVE Owns'
<1> PICK r \in Runs : r = close[p].run /\ Works(p, r) /\ close[p].at = home[r] /\ row[r] \in Row
  BY AtWork DEF Intent, CloseSteps
<1>1. CASE OwnedBy(row[r], home[r])
  <2> DEFINE x == RecordRunTerminalIntent(row[r], close[p].want)
  <2>1. row' = [row EXCEPT ![r] = x] /\ Goto(p, "status")
    BY <1>1, NoFault DEF Intent
  <2>2. x.status = row[r].status /\ x.lease = row[r].lease  BY IntentColumns
  <2> HIDE DEF x
  <2>3. row'[r] = x /\ \A q \in Runs \ {r} : row'[q] = row[q]  BY <2>1 DEF Inv, RowsOK
  <2>4. p = r /\ Calm(r) => Progress(r, close[r])'
    <3> SUFFICES ASSUME p = r, Calm(r) PROVE Progress(r, close[r])'  OBVIOUS
    <3>1. Progress(r, close[r]) /\ close[r].pc = "intent"  BY OwnProgress DEF Intent
    <3>2. close'[r].pc = "status" /\ close'[r].was = close[r].was /\ close'[r].owned = close[r].owned
      BY <2>1, MovesOn DEF CloseSteps
    <3> QED  BY <2>1, <2>2, <2>3, <3>1, <3>2 DEF Progress, Intent, Goto
  <2> QED  BY <2>1, <2>3, <2>4, MovesOwn DEF Intent, CloseSteps
<1>2. CASE ~OwnedBy(row[r], home[r])
  <2>1. RemoveEntry(p, r, home[r]) /\ UNCHANGED row  BY <1>2, NoFault DEF Intent
  <2>2. ~(p = r /\ Calm(r))  BY <1>2, StillOwned DEF Intent
  <2> QED  BY <2>1, <2>2, RemoveOwns DEF Intent
<1> QED  BY <1>1, <1>2

\* The status is stored; the event comes next.
LEMMA StoredOwns ==
  ASSUME Inv, Lives, Owns, NEW p \in Closers, NEW r \in Runs, Works(p, r),
         Goto(p, AfterStatus(close[p])), NEW x, row' = [row EXCEPT ![r] = x],
         UNCHANGED <<worker, log, home, spawn, cleaned>>
  PROVE  Owns'
<1> DEFINE pc == AfterStatus(close[p])
<1>1. pc \in CloseSteps /\ pc \in {"event", "cleanup"} /\ (~close[p].was => pc = "event")
  BY AfterStatusStep DEF AfterStatus
<1>2. Goto(p, pc)  OBVIOUS
<1> HIDE DEF pc
<1>3. p = r /\ Calm(r) => Progress(r, close[r])'
  <2> SUFFICES ASSUME p = r, Calm(r) PROVE Progress(r, close[r])'  OBVIOUS
  <2>1. Progress(r, close[r])  BY OwnProgress
  <2>2. close'[r].pc = pc /\ close'[r].was = close[r].was /\ close'[r].owned = close[r].owned
    BY <1>1, <1>2, MovesOn
  <2>3. UNCHANGED reg  BY DEF Goto
  <2> QED  BY <1>1, <2>1, <2>2, <2>3 DEF Progress
<1>4. \A q \in Runs \ {r} : row'[q] = row[q]  BY DEF Inv, RowsOK
<1> QED  BY <1>1, <1>2, <1>3, <1>4, MovesOwn

LEMMA StatusOwns == ASSUME Alone, Inv, Lives, Owns, NEW p \in Closers, Status(p) PROVE Owns'
<1> PICK r \in Runs : r = close[p].run /\ Works(p, r) /\ close[p].at = home[r] /\ row[r] \in Row
  BY AtWork DEF Status, CloseSteps
<1>1. CASE OwnedBy(row[r], home[r])
  BY <1>1, NoFault, StoredOwns DEF Status
<1>2. CASE ~OwnedBy(row[r], home[r])
  <2>1. RemoveEntry(p, r, home[r]) /\ UNCHANGED row  BY <1>2, NoFault DEF Status
  <2>2. ~(p = r /\ Calm(r))  BY <1>2, StillOwned DEF Status
  <2> QED  BY <2>1, <2>2, RemoveOwns DEF Status
<1> QED  BY <1>1, <1>2

LEMMA UnownedStatusOwns ==
  ASSUME Alone, Inv, Lives, Owns, NEW p \in Closers, UnownedStatus(p) PROVE Owns'
<1> PICK r \in Runs : r = close[p].run /\ Works(p, r)
  BY AtWork DEF UnownedStatus, CloseSteps
<1> QED  BY NoFault, StoredOwns DEF UnownedStatus

LEMMA UnownedIntentOwns ==
  ASSUME Alone, Inv, Lives, Owns, NEW p \in Closers, UnownedIntent(p) PROVE Owns'
<1> PICK r \in Runs : r = close[p].run /\ Works(p, r) /\ row[r] \in Row
  BY AtWork DEF UnownedIntent, CloseSteps
<1> DEFINE x == IF RecordsIntent(close[p]) THEN RecordRunTerminalIntent(row[r], close[p].want)
                                            ELSE row[r]
<1>1. row' = [row EXCEPT ![r] = x] /\ Goto(p, "status")
  BY NoFault DEF UnownedIntent
<1>2. x.status = row[r].status /\ x.lease = row[r].lease  BY IntentColumns
<1> HIDE DEF x
<1>3. row'[r] = x /\ \A q \in Runs \ {r} : row'[q] = row[q]  BY <1>1 DEF Inv, RowsOK
<1>4. p = r /\ Calm(r) => Progress(r, close[r])'
  <2> SUFFICES ASSUME p = r, Calm(r) PROVE Progress(r, close[r])'  OBVIOUS
  <2>1. Progress(r, close[r]) /\ close[r].pc = "unowned"  BY OwnProgress DEF UnownedIntent
  <2>2. close'[r].pc = "status" /\ close'[r].was = close[r].was /\ close'[r].owned = close[r].owned
    BY <1>1, MovesOn DEF CloseSteps
  <2> QED  BY <1>1, <1>2, <1>3, <2>1, <2>2 DEF Progress, UnownedIntent, Goto
<1> QED  BY <1>1, <1>3, <1>4, MovesOwn DEF UnownedIntent, CloseSteps

LEMMA TerminalEventOwns ==
  ASSUME Alone, Inv, Lives, Lives', Owns, NEW p \in Closers, TerminalEvent(p) PROVE Owns'
<1> PICK r \in Runs : r = close[p].run /\ Works(p, r) /\ close[p].want \in Hints
  BY AtWork DEF TerminalEvent, CloseSteps
<1> DEFINE pc == IF close[p].owned THEN "release" ELSE "cleanup"
<1>1. log' = [log EXCEPT ![r] = Append(@, close[p].want)] /\ Goto(p, pc)
  BY NoFault DEF TerminalEvent, Logged
<1>2. pc \in CloseSteps /\ pc \in {"release", "cleanup"}  BY DEF CloseSteps
<1> HIDE DEF pc
<1>3. /\ log[r] \in Seq(EventKinds) /\ log'[r] = Append(log[r], close[p].want)
      /\ \A q \in Runs \ {r} : log'[q] = log[q]
  BY <1>1 DEF Inv, RestOK
<1>4. Len(log[r]) + 1 \in Endings(r)'
  BY <1>3 DEF Endings, IsTerminal, Terminal, Hints
<1>5. p = r /\ Calm(r) => Progress(r, close[r])'
  <2> SUFFICES ASSUME p = r, Calm(r) PROVE Progress(r, close[r])'  OBVIOUS
  <2>1. Progress(r, close[r])  BY OwnProgress
  <2>2. close'[r].pc = pc /\ close'[r].was = close[r].was /\ close'[r].owned = close[r].owned
    BY <1>1, <1>2, MovesOn
  <2>3. UNCHANGED <<reg, spawn>>  BY <1>1 DEF Goto, TerminalEvent
  <2> QED  BY <1>2, <1>4, <2>1, <2>2, <2>3 DEF Progress
<1> QED  BY <1>1, <1>2, <1>3, <1>5, MovesOwn DEF TerminalEvent

LEMMA ReleaseEventOwns ==
  ASSUME Alone, Inv, Lives, Owns, NEW p \in Closers, ReleaseEvent(p) PROVE Owns'
<1> PICK r \in Runs : r = close[p].run /\ Works(p, r)
  BY AtWork DEF ReleaseEvent, CloseSteps
<1>1. log' = [log EXCEPT ![r] = Append(@, "released")] /\ Goto(p, "cleanup")
  BY NoFault DEF ReleaseEvent, Logged
<1>2. log'[r] = Append(log[r], "released") /\ \A q \in Runs \ {r} : log'[q] = log[q]
  BY <1>1 DEF Inv, RestOK
<1>3. Endings(r)' = Endings(r)  BY <1>2, PlainEvent
<1>4. p = r /\ Calm(r) => Progress(r, close[r])'
  <2> SUFFICES ASSUME p = r, Calm(r) PROVE Progress(r, close[r])'  OBVIOUS
  <2>1. Progress(r, close[r]) /\ close[r].pc = "release"  BY OwnProgress DEF ReleaseEvent
  <2>2. close'[r].pc = "cleanup" /\ close'[r].was = close[r].was /\ close'[r].owned = close[r].owned
    BY <1>1, MovesOn DEF CloseSteps
  <2>3. UNCHANGED <<reg, spawn>>  BY <1>1 DEF Goto, ReleaseEvent
  <2> QED  BY <1>3, <2>1, <2>2, <2>3 DEF Progress
<1> QED  BY <1>1, <1>2, <1>4, MovesOwn DEF ReleaseEvent, CloseSteps

LEMMA CleanupOwns == ASSUME Inv, Lives, Owns, NEW p \in Closers, Cleanup(p) PROVE Owns'
<1> PICK r \in Runs : r = close[p].run /\ Works(p, r)
  BY AtWork DEF Cleanup, CloseSteps
<1>1. Goto(p, "remove") /\ cleaned' = [cleaned EXCEPT ![r] = TRUE]  BY DEF Cleanup
<1>2. cleaned'[r] = TRUE /\ \A q \in Runs \ {r} : cleaned'[q] = cleaned[q]
  BY <1>1 DEF Inv, RestOK
<1>3. p = r /\ Calm(r) => Progress(r, close[r])'
  <2> SUFFICES ASSUME p = r, Calm(r) PROVE Progress(r, close[r])'  OBVIOUS
  <2>1. Progress(r, close[r]) /\ close[r].pc = "cleanup"  BY OwnProgress DEF Cleanup
  <2>2. close'[r].pc = "remove" /\ close'[r].was = close[r].was /\ close'[r].owned = close[r].owned
    BY <1>1, MovesOn DEF CloseSteps
  <2>3. UNCHANGED <<reg, spawn, log>>  BY <1>1 DEF Goto, Cleanup
  <2> QED  BY <1>2, <2>1, <2>2, <2>3, SameEndings DEF Progress
<1> QED  BY <1>1, <1>2, <1>3, MovesOwn DEF Cleanup, CloseSteps

LEMMA RemoveStepOwns == ASSUME Inv, Lives, Owns, NEW p \in Closers, Remove(p) PROVE Owns'
<1> PICK r \in Runs : r = close[p].run /\ Works(p, r) /\ close[p].at = home[r]
  BY AtWork DEF Remove, CloseSteps
<1>1. p = r /\ Calm(r) => IsTerminal(row[r].status) /\ Endings(r) # {} /\ cleaned[r]
  BY OwnProgress DEF Remove, Progress, CloserLife
<1> QED  BY <1>1, RemoveOwns DEF Remove

-----------------------------------------------------------------------------
\* A response handler that acts is not idle any more; it acts on one run.
LEMMA CallOwns ==
  ASSUME Inv, Owns, NEW c \in Calls, NEW r \in Runs, close'[c] # Idle,
         \A q \in Closers \ {c, r} : close'[q] = close[q],
         \A q \in Runs \ {r} : task'[q] = task[q] /\ hb'[q] = hb[q] /\ reg'[q] = reg[q],
         UNCHANGED <<worker, row, log, home, spawn, cleaned>>
  PROVE  Owns'
<1>1. \A q \in Runs : q # c /\ q \in Closers  BY CallIsNoRun DEF Closers
<1>2. \A q \in Runs \ {r} : Apart(q)  BY <1>1 DEF Apart
<1>3. StillIdle
  <2>1. \A d \in Calls : d # r /\ d \in Closers  BY CallIsNoRun
  <2> QED  BY <2>1 DEF StillIdle
<1>4. Own(r)'  BY DEF Own, Calm
<1> QED  BY <1>2, <1>3, <1>4, OneOwns

LEMMA TerminateRegisteredOwns ==
  ASSUME Inv, Owns, NEW c \in Calls, NEW r \in Runs, NEW w, NEW s,
         TerminateRegistered(c, r, w, s), UNCHANGED <<worker, row, log, home, spawn, cleaned>>
  PROVE  Owns'
<1> DEFINE k == [pc |-> "intent", run |-> r, at |-> w, kind |-> "terminate",
                 want |-> IF IsTerminal(reg[r]) THEN reg[r] ELSE s,
                 was |-> IsTerminal(reg[r]), owned |-> TRUE]
           d == [k EXCEPT !.pc = FirstWrite(k)]
<1>0. c \in Closers /\ r \in Closers /\ c # r  BY CallIsNoRun DEF Closers
<1>1. close' = [CloseAborted(r) EXCEPT ![c] = d]  BY DEF TerminateRegistered
<1>2. d.pc # "idle"  BY DEF FirstWrite
<1> HIDE DEF d
<1>3. d # Idle  BY <1>2 DEF Idle
<1>4. close'[c] # Idle /\ \A q \in Closers \ {c, r} : close'[q] = close[q]
  BY <1>0, <1>1, <1>3 DEF CloseAborted, Inv, TasksOK
<1>5. \A q \in Runs \ {r} : task'[q] = task[q] /\ hb'[q] = hb[q] /\ reg'[q] = reg[q]
  BY DEF TerminateRegistered, TaskAborted, Inv, TasksOK
<1> QED  BY <1>4, <1>5, CallOwns

LEMMA TerminateUnregisteredOwns ==
  ASSUME Inv, Owns, NEW c \in Calls, NEW r \in Runs, NEW w, NEW s,
         TerminateUnregistered(c, r, w, s), UNCHANGED <<worker, row, log, home, spawn, cleaned>>
  PROVE  Owns'
<1>0. c \in Closers  BY CallIsNoRun
<1>1. \E d : close' = [close EXCEPT ![c] = d] /\ d.pc # "idle"
  <2> DEFINE d == [pc |-> "unowned", run |-> r, at |-> w, kind |-> "terminate",
                   want |-> s, was |-> FALSE, owned |-> FALSE]
  <2>1. close' = [close EXCEPT ![c] = Done] \/ close' = [close EXCEPT ![c] = d]
    BY DEF TerminateUnregistered
  <2>2. Done.pc # "idle" /\ d.pc # "idle"  BY DEF Done
  <2> HIDE DEF d
  <2> QED  BY <2>1, <2>2
<1>2. close'[c] # Idle /\ \A q \in Closers \ {c} : close'[q] = close[q]
  BY <1>0, <1>1 DEF Idle, Inv, TasksOK
<1> QED  BY <1>2, CallOwns DEF TerminateUnregistered

LEMMA FinalizeByCallOwns ==
  ASSUME Inv, Owns, NEW c \in Calls, NEW r \in Runs, NEW w, NEW s,
         FinalizeRegistered(c, r, w, s) \/ FinalizeUnregistered(c, r, w, s),
         UNCHANGED <<worker, row, log, home, spawn, cleaned>>
  PROVE  Owns'
<1>0. c \in Closers /\ c # r  BY CallIsNoRun
<1>1. \E d : close' = [close EXCEPT ![c] = d] /\ d.pc # "idle"
  <2>1. CASE FinalizeRegistered(c, r, w, s)
    <3> DEFINE k == [pc |-> "intent", run |-> r, at |-> w, kind |-> "finalize",
                     want |-> s, was |-> IsTerminal(reg[r]), owned |-> TRUE]
               d == [k EXCEPT !.pc = FirstWrite(k)]
    <3>1. d.pc # "idle" /\ Done.pc # "idle"  BY DEF FirstWrite, Done
    <3>2. close' = [close EXCEPT ![c] = d] \/ close' = [close EXCEPT ![c] = Done]
      BY <2>1 DEF FinalizeRegistered
    <3> HIDE DEF d
    <3> QED  BY <3>1, <3>2
  <2>2. CASE FinalizeUnregistered(c, r, w, s)
    <3> DEFINE d == [pc |-> "unowned", run |-> r, at |-> w, kind |-> "finalize",
                     want |-> s, was |-> FALSE, owned |-> FALSE]
    <3>1. close' = [close EXCEPT ![c] = Done] \/ close' = [close EXCEPT ![c] = d]
      BY <2>2 DEF FinalizeUnregistered
    <3>2. Done.pc # "idle" /\ d.pc # "idle"  BY DEF Done
    <3> HIDE DEF d
    <3> QED  BY <3>1, <3>2
  <2> QED  BY <2>1, <2>2
<1>2. close'[c] # Idle /\ \A q \in Closers \ {c} : close'[q] = close[q]
  BY <1>0, <1>1 DEF Idle, Inv, TasksOK
<1>3. \A q \in Runs \ {r} : task'[q] = task[q] /\ hb'[q] = hb[q] /\ reg'[q] = reg[q]
  BY <1>0 DEF FinalizeRegistered, FinalizeUnregistered, Inv, TasksOK
<1> QED  BY <1>2, <1>3, CallOwns

LEMMA GivesUpOwns ==
  ASSUME Inv, Owns, NEW c \in Calls, NEW r \in Runs, close' = [close EXCEPT ![c] = Done],
         UNCHANGED <<worker, row, log, home, spawn, task, hb, reg, cleaned>>
  PROVE  Owns'
<1>0. c \in Closers  BY CallIsNoRun
<1>1. close'[c] # Idle /\ \A q \in Closers \ {c} : close'[q] = close[q]
  BY <1>0 DEF Done, Idle, Inv, TasksOK
<1> QED  BY <1>1, CallOwns

LEMMA CallStepOwns == ASSUME Alone, Inv, Lives, Owns, NEW c \in Calls, CallStep(c) PROVE Owns'
<1>0. c \in Closers  BY CallIsNoRun
<1>1. ASSUME NEW r \in Runs, NEW s, Respond(c, r, s) PROVE Owns'
  BY <1>1, TerminateRegisteredOwns, TerminateUnregisteredOwns DEF Respond
<1>2. CASE TimeoutOverDisconnect(c)
  <2>1. close[c].run \in Runs
    BY <1>0, <1>2, ActiveClosing, ClosingFields DEF TimeoutOverDisconnect, Inv
  <2> QED
    BY <1>2, <2>1, TerminateRegisteredOwns, TerminateUnregisteredOwns DEF TimeoutOverDisconnect
<1>3. ASSUME NEW r \in Runs, OutcomeDropped(c, r) PROVE Owns'
  <2>1. CASE FinalizeRegistered(c, r, home[r], "failed")
             \/ FinalizeUnregistered(c, r, home[r], "failed")
    BY <1>3, <2>1, FinalizeByCallOwns DEF OutcomeDropped
  <2>2. CASE close' = [close EXCEPT ![c] = Done] /\ UNCHANGED <<task, reg, hb>>
    BY <1>3, <2>2, GivesUpOwns DEF OutcomeDropped
  <2> QED  BY <1>3, <2>1, <2>2 DEF OutcomeDropped
<1>4. CASE DropCall(c)
  <2>1. PICK r \in Runs : TRUE
    BY <1>0, <1>4, ActiveClosing, ClosingFields DEF DropCall, Inv
  <2> QED  BY <1>4, <2>1, GivesUpOwns DEF DropCall
<1> QED  BY <1>1, <1>2, <1>3, <1>4, NoCancel DEF CallStep

-----------------------------------------------------------------------------
\* A sweep ends what nobody attends, a gateway comes back, another goes away.
LEMMA SweepCommitOwns == ASSUME Inv, Lives, Owns, NEW w \in Workers, SweepCommit(w) PROVE Owns'
<1>1. ASSUME NEW r \in Runs PROVE Own(r)'
  <2>0. /\ Own(r) /\ Life(r) /\ row[r] \in Row
        /\ UNCHANGED <<worker, home, spawn, task, hb, reg, close, cleaned>>
    BY DEF SweepCommit, Owns, Lives, Inv, RowsOK
  <2>1. CASE ~Read(w, r)
    <3>1. Apart(r) /\ StillIdle /\ (HomeUp(r)' => HomeUp(r))
      BY <2>0, <2>1 DEF SweepCommit, Apart, StillIdle, HomeUp
    <3> QED  BY <2>0, <3>1, ApartOwns
  <2>2. CASE Read(w, r)
    <3>1. /\ Reconcilable(row[r]) /\ row'[r] = ReconcileRun(row[r], row[r])
          /\ log'[r] = log[r] \o ReconcileEvents(row[r])
      BY <2>0, <2>2 DEF SweepCommit, Life, SweepLife
    <3>2. /\ row[r].status \in {"pending", "running"} /\ row[r].lease # "live"
          /\ row'[r].status \in Terminal
      BY <2>0, <3>1, Recovered DEF Life, RowLife
    <3>3. Endings(r) = {}  BY <2>0, <3>2 DEF Life, RowLife, IsTerminal, Terminal
    <3>4. /\ Endings(r)' = {Len(log[r]) + 1}
          /\ \A i \in DOMAIN log[r] : i \in DOMAIN log'[r] /\ log'[r][i] = log[r][i]
      BY <2>0, <3>1, <3>3, RecoveryEvents
    <3>5. Calm(r)' => Calm(r)  BY <2>0 DEF Calm, HomeUp
    <3>6. Calm(r) => task[r] # "ended"  BY <2>0, <3>3 DEF Own, Over
    <3>7. Progress(r, close[r]) => Progress(r, close[r])'
      BY <2>0, <3>2, <3>4 DEF Progress
    <3> QED  BY <2>0, <3>5, <3>6, <3>7 DEF Own, Works, Active
  <2> QED  BY <2>1, <2>2
<1> QED  BY <1>1 DEF Owns

LEMMA CrashOwns == ASSUME Inv, Lives, Owns, NEW w \in Workers, Crash(w) PROVE Owns'
<1>1. StillIdle  BY CallIsNoRun DEF Crash, StillIdle, Done, Idle
<1>2. ASSUME NEW r \in Runs PROVE Own(r)'
  <2>1. CASE home[r] = w
    <3>1. ~HomeUp(r)'  BY <2>1 DEF Crash, HomeUp, Inv, RestOK
    <3> QED  BY <3>1 DEF Own, Calm
  <2>2. CASE home[r] # w
    <3>1. close'[r] = close[r]
      <4>1. r \in Closers  BY DEF Closers
      <4>2. Active(r) => close[r].at = home[r]
        <5> SUFFICES ASSUME Active(r) PROVE close[r].at = home[r]  OBVIOUS
        <5>1. PICK q \in Runs : Works(r, q)
          BY <4>1, ActiveClosing, ClosingFields DEF Works, Inv
        <5> QED  BY <4>1, <5>1, OwnSlot, Closer
      <4> QED  BY <2>2, <4>1, <4>2 DEF Crash
    <3>2. Apart(r)  BY <2>2, <3>1 DEF Crash, Apart
    <3>3. HomeUp(r)' => HomeUp(r)
      BY <2>2 DEF Crash, HomeUp, Inv, RestOK
    <3> QED  BY <1>1, <3>2, <3>3, ApartOwns DEF Owns
  <2> QED  BY <2>1, <2>2
<1> QED  BY <1>2 DEF Owns

\* What no sweep, crash or other run changes stays as it was.
LEMMA SameOwns ==
  ASSUME Owns, UNCHANGED <<row, log, home, spawn, task, hb, reg, close, cleaned>>,
         \A r \in Runs : Calm(r)' => HomeUp(r)
  PROVE  Owns'
<1> SUFFICES ASSUME NEW r \in Runs, Calm(r)' PROVE Own(r)'  BY DEF Owns, Own
<1>1. Apart(r) /\ StillIdle  BY DEF Apart, StillIdle
<1> QED  BY <1>1, ApartOwns DEF Owns

LEMMA StartWorkerOwns == ASSUME Inv, Lives, Owns, NEW w \in Workers, StartWorker(w) PROVE Owns'
<1>1. ASSUME NEW r \in Runs, Calm(r)' PROVE HomeUp(r)
  <2>1. spawn[r] # "idle" /\ home' = home  BY <1>1 DEF Calm, StartWorker
  <2>2. home[r] # w  BY <2>1 DEF StartWorker, Lives, Life, StartLife
  <2> QED  BY <1>1, <2>1, <2>2 DEF Calm, HomeUp, StartWorker, Inv, RestOK
<1> QED  BY <1>1, SameOwns DEF StartWorker

LEMMA WorkerStepOwns ==
  ASSUME Alone, Inv, Lives, Owns, NEW w \in Workers, WorkerStep(w) PROVE Owns'
<1>1. CASE SweepSelect(w) \/ SweepFails(w)
  BY <1>1, SameOwns DEF SweepSelect, SweepFails, Calm, HomeUp
<1> QED  BY <1>1, SweepCommitOwns, CrashOwns, StartWorkerOwns DEF WorkerStep

LEMMA NextOwns == Alone /\ Inv /\ Lives /\ Lives' /\ Owns /\ [Next]_vars => Owns'
<1> SUFFICES ASSUME Alone, Inv, Lives, Lives', Owns, [Next]_vars PROVE Owns'  OBVIOUS
<1>1. CASE \E r \in Runs : RunStep(r)
  <2> PICK r \in Runs : RunStep(r)  BY <1>1
  <2>1. CASE SpawnStep(r)
    BY <2>1, BuildOwns, ClaimOwns, StartTasksOwns, RegisterOwnedOwns, RunStartedOwns DEF SpawnStep
  <2> QED
    BY <2>1, BuildOwns, HeartbeatOwns, LeaseExpiresOwns, AgentReturnsOwns, AgentPanicsOwns
    DEF RunStep
<1>2. CASE \E c \in Calls : CallStep(c)  BY <1>2, CallStepOwns
<1>3. CASE \E p \in Closers : CloseStep(p)
  BY <1>3, IntentOwns, StatusOwns, UnownedIntentOwns, UnownedStatusOwns, TerminalEventOwns,
     ReleaseEventOwns, CleanupOwns, RemoveStepOwns DEF CloseStep
<1>4. CASE \E w \in Workers : WorkerStep(w)  BY <1>4, WorkerStepOwns
<1>5. CASE UNCHANGED vars  BY <1>5, SameOwns DEF vars, Calm, HomeUp
<1> QED  BY <1>1, <1>2, <1>3, <1>4, <1>5 DEF Next

\* A run that no handler has touched, and whose gateway and spawning handler stayed,
\* ends completely with its task: row, event, session and registry entry.
THEOREM LeavesNothing == Alone => (Spec => []EndsCompletely)
<1> SUFFICES ASSUME Alone PROVE Spec => []EndsCompletely  OBVIOUS
<1>1. Init => Owns  BY DEF Init, Owns, Own, Calm
<1>2. Inv /\ Lives /\ (Inv /\ Lives)' /\ Owns /\ [Next]_vars => Owns'  BY NextOwns
<1>3. Inv /\ Lives /\ Owns => EndsCompletely
  <2> SUFFICES ASSUME Inv, Lives, Owns, NEW r \in Runs, LeftToItself(r), task[r] = "ended"
               PROVE  Over(r) /\ (reg[r] = Absent \/ Overtaken(r))
    BY DEF EndsCompletely, Over
  <2>1. hb[r] # "none"  BY DEF Lives, Life, StartLife
  <2>2. Calm(r)  BY <2>1 DEF Calm, LeftToItself, HomeUp
  <2> QED  BY <2>2 DEF Owns, Own, Over, LeftToItself
<1> QED  BY <1>1, <1>2, <1>3, AlwaysLives, PTL DEF Spec

-----------------------------------------------------------------------------
(* The lifecycle.  Create is Accept, a claim that changes the row is Begin, *)
(* the writes of a terminal status are End or, of a run whose runtime could *)
(* not be built, Overrule, and the commit of a sweep is EndMany; no other   *)
(* step can be seen.                                                        *)
Began(r) == \E i \in DOMAIN log[r] : log[r][i] = "claimed"

States == [r \in Runs |-> row[r].status]
Begun == [r \in Runs |-> \E i \in DOMAIN log[r] : log[r][i] = "claimed"]

LEMMA SameBegun == ASSUME \A r \in Runs : Began(r)' <=> Began(r) PROVE Begun' = Begun
  BY DEF Begun, Began

LEMMA Unseen ==
  ASSUME \A r \in Runs : row'[r].status = row[r].status /\ (Began(r)' <=> Began(r))
  PROVE  UNCHANGED Lifecycle!vars
  BY DEF Lifecycle!vars, Began

LEMMA SameBegan == ASSUME NEW r \in Runs, log'[r] = log[r] PROVE Began(r)' <=> Began(r)
  BY DEF Began

LEMMA NotBegin == ASSUME Inv, NEW r \in Runs, NEW k \in EventKinds \ {"claimed"},
                         log'[r] = Append(log[r], k)
                  PROVE  Began(r)' <=> Began(r)
<1>1. log[r] \in Seq(EventKinds)  BY DEF Inv, RestOK
<1> QED  BY <1>1 DEF Began

LEMMA OnlyEvents == ASSUME Inv, NEW r \in Runs, NEW k \in EventKinds \ {"claimed"},
                           Logged(r, k), UNCHANGED row
                    PROVE  UNCHANGED Lifecycle!vars
<1>1. /\ log'[r] = Append(log[r], k) /\ \A q \in Runs \ {r} : log'[q] = log[q]
      /\ \A q \in Runs : row'[q].status = row[q].status
  BY DEF Logged, Inv, RestOK
<1> QED  BY <1>1, NotBegin, SameBegan, Unseen

LEMMA OnlyColumns == ASSUME Inv, NEW r \in Runs, NEW x, x.status = row[r].status,
                            row' = [row EXCEPT ![r] = x], UNCHANGED log
                     PROVE  UNCHANGED Lifecycle!vars
<1>1. \A q \in Runs : row'[q].status = row[q].status /\ log'[q] = log[q]
  BY DEF Inv, RowsOK
<1> QED  BY <1>1, SameBegan, Unseen

\* A step that ends the run r.
LEMMA EndStep == ASSUME Inv, NEW r \in Runs, NEW x, x.status \in Terminal,
                        row[r].status \in {"pending", "running"},
                        row' = [row EXCEPT ![r] = x], UNCHANGED log
                 PROVE  Lifecycle!Next
<1>1. /\ row'[r].status = x.status /\ \A q \in Runs \ {r} : row'[q].status = row[q].status
      /\ \A q \in Runs : Began(q)' <=> Began(q)
  BY SameBegan DEF Inv, RowsOK
<1>2. Begun' = Begun  BY <1>1, SameBegun
<1>3. States' = [States EXCEPT ![r] = x.status]  BY <1>1 DEF States
<1>4. States[r] \in {"pending", "running"}  BY DEF States
<1>5. \E s \in Lifecycle!Ended : States' = [States EXCEPT ![r] = s]
  BY <1>3 DEF Lifecycle!Ended, Terminal
<1>6. Lifecycle!End(r)  BY <1>2, <1>4, <1>5 DEF Lifecycle!End, States, Begun
<1> QED  BY <1>6 DEF Lifecycle!Next

LEMMA CreateSeen == ASSUME Inv, Lives, NEW r \in Runs, NEW w \in Workers, Create(r, w)
                    PROVE  Lifecycle!Next
<1>1. /\ row'[r].status = "pending" /\ row[r].status = "absent"
      /\ \A q \in Runs \ {r} : row'[q].status = row[q].status
  BY DEF Create, Lives, Life, RowLife, Absent, CreateRun, NoRow, Inv, RowsOK
<1>2. \A q \in Runs : Began(q)' <=> Began(q)
  <2>1. log'[r] = Append(log[r], "created") /\ \A q \in Runs \ {r} : log'[q] = log[q]
    BY DEF Create, Logged, Inv, RestOK
  <2>2. "created" \in EventKinds \ {"claimed"}  BY DEF EventKinds
  <2> QED  BY <2>1, <2>2, NotBegin, SameBegan
<1>3. Lifecycle!Accept(r)  BY <1>1, <1>2 DEF Lifecycle!Accept, Began
<1> QED  BY <1>3 DEF Lifecycle!Next

LEMMA ClaimSeen == ASSUME Alone, Inv, Lives, NEW r \in Runs, Claim(r)
                   PROVE  Lifecycle!Next \/ UNCHANGED Lifecycle!vars
<1>1. CASE Claimable(row[r])
  <2>1. /\ row'[r] = ClaimRunOwnership(row[r], home[r]) /\ row[r] \in Row
        /\ \A q \in Runs \ {r} : row'[q] = row[q] /\ log'[q] = log[q]
        /\ log'[r] = Append(log[r], "claimed") /\ log[r] \in Seq(EventKinds)
    BY <1>1, NoFault DEF Claim, Logged, Inv, RowsOK, RestOK
  <2>2. row'[r].status = "running" /\ row[r].status = "pending"
    BY <1>1, <2>1, ClaimColumns
    DEF Claim, Claimable, Incomplete, Lives, Life, RowLife
  <2>3. Began(r)' /\ \A q \in Runs \ {r} : Began(q)' <=> Began(q)
    BY <2>1, SameBegan DEF Began
  <2>4. Lifecycle!Begin(r)  BY <2>1, <2>2, <2>3 DEF Lifecycle!Begin, Began
  <2> QED  BY <2>4 DEF Lifecycle!Next
<1>2. CASE ~Claimable(row[r])
  BY <1>2, NoFault, SameBegan, Unseen DEF Claim
<1> QED  BY <1>1, <1>2

LEMMA FailStatusSeen == ASSUME Alone, Inv, Lives, NEW r \in Runs, FailStatus(r)
                        PROVE  Lifecycle!Next \/ UNCHANGED Lifecycle!vars
<1> DEFINE x == UpdateRunStatus(row[r], "failed")
<1>0. /\ row' = [row EXCEPT ![r] = x] /\ UNCHANGED log /\ row[r] \in Row
      /\ row[r].status \in {"pending", "interrupted", "failed"} /\ ~Began(r)
  BY NoFault DEF FailStatus, Inv, RowsOK, Lives, Life, RowLife, Building, Began
<1>1. x.status = "failed"  BY <1>0, UpdateColumns DEF Hints
<1> HIDE DEF x
<1>2. CASE row[r].status = "pending"
  <2>1. x.status \in Terminal  BY <1>1 DEF Terminal
  <2> QED  BY <1>0, <1>2, <2>1, EndStep
<1>3. CASE row[r].status = "interrupted"
  <2>1. /\ row'[r].status = "failed" /\ \A q \in Runs \ {r} : row'[q].status = row[q].status
        /\ \A q \in Runs : Began(q)' <=> Began(q)
    BY <1>0, <1>1, SameBegan DEF Inv, RowsOK
  <2>2. Lifecycle!Overrule(r)
    BY <1>0, <1>3, <2>1 DEF Lifecycle!Overrule, Began
  <2> QED  BY <2>2 DEF Lifecycle!Next
<1>4. CASE row[r].status = "failed"
  BY <1>0, <1>1, <1>4, OnlyColumns
<1> QED  BY <1>0, <1>2, <1>3, <1>4

LEMMA StatusSeen == ASSUME Alone, Inv, Lives, NEW p \in Closers, Status(p)
                    PROVE  Lifecycle!Next \/ UNCHANGED Lifecycle!vars
<1> PICK r \in Runs : r = close[p].run
  BY AtWork DEF Status, CloseSteps
<1>0. /\ r = close[p].run /\ close[p].at \in Workers /\ close[p].want \in Hints /\ row[r] \in Row
  BY AtWork DEF Status, CloseSteps
<1>1. CASE OwnedBy(row[r], close[p].at)
  <2> DEFINE x == UpdateRunStatus(row[r], close[p].want)
  <2>1. row' = [row EXCEPT ![r] = x] /\ UNCHANGED log
    BY <1>0, <1>1, NoFault DEF Status
  <2>2. x.status \in Terminal  BY <1>0, UpdateColumns DEF Hints, Terminal
  <2>3. row[r].status = "running"  BY <1>0, <1>1, OwnedRuns
  <2> HIDE DEF x
  <2> QED  BY <2>1, <2>2, <2>3, EndStep
<1>2. CASE ~OwnedBy(row[r], close[p].at)
  BY <1>0, <1>2, NoFault, SameBegan, Unseen DEF Status
<1> QED  BY <1>1, <1>2

LEMMA UnownedStatusSeen == ASSUME Alone, Inv, Lives, NEW p \in Closers, UnownedStatus(p)
                           PROVE  Lifecycle!Next
<1> PICK r \in Runs : r = close[p].run
  BY AtWork DEF UnownedStatus, CloseSteps
<1> DEFINE x == UpdateRunStatus(row[r], close[p].want)
<1>0. /\ r = close[p].run /\ close[p].want \in Hints /\ row[r] \in Row /\ Works(p, r)
  BY AtWork DEF UnownedStatus, CloseSteps
<1>1. row' = [row EXCEPT ![r] = x] /\ UNCHANGED log
  BY <1>0, NoFault DEF UnownedStatus
<1>2. x.status \in Terminal  BY <1>0, UpdateColumns DEF Hints, Terminal
<1>3. row[r].status = "running"
  BY <1>0, Closer DEF UnownedStatus, CloserLife, Blind
<1> HIDE DEF x
<1> QED  BY <1>1, <1>2, <1>3, EndStep

LEMMA SweepCommitSeen == ASSUME Inv, Lives, NEW w \in Workers, SweepCommit(w)
                         PROVE  Lifecycle!Next
<1> DEFINE S == {r \in Runs : Read(w, r)}
           f == [r \in S |-> ReconciledStatus(row[r])]
<1>1. ASSUME NEW r \in S
      PROVE  /\ row[r].status \in {"pending", "running"} /\ f[r] \in Terminal
             /\ row'[r].status = f[r] /\ (Began(r)' <=> Began(r))
  <2>1. /\ Reconcilable(row[r]) /\ row[r] \in Row /\ row'[r] = ReconcileRun(row[r], row[r])
        /\ log'[r] = log[r] \o ReconcileEvents(row[r]) /\ Life(r)
    BY DEF SweepCommit, Lives, Life, SweepLife, Inv, RowsOK
  <2>2. /\ row[r].status \in {"pending", "running"} /\ f[r] \in Terminal /\ row'[r].status = f[r]
    BY <2>1, Recovered
  <2>3. Endings(r) = {}  BY <2>1, <2>2 DEF Life, RowLife, IsTerminal, Terminal
  <2>4. Began(r)' => Began(r)  BY <2>1, <2>3, RecoveryEvents DEF Began
  <2>5. Began(r) => Began(r)'
    <3>1. \A i \in DOMAIN log[r] : i \in DOMAIN log'[r] /\ log'[r][i] = log[r][i]
      BY <2>1, <2>3, RecoveryEvents
    <3> QED  BY <3>1 DEF Began
  <2> QED  BY <2>2, <2>4, <2>5
<1>2. \A r \in Runs \ S : row'[r].status = row[r].status /\ (Began(r)' <=> Began(r))
  BY SameBegan DEF SweepCommit
<1>3. f \in [S -> Terminal]  BY <1>1
<1> HIDE DEF f
<1>4. States' = [r \in Runs |-> IF r \in S THEN f[r] ELSE States[r]]
  BY <1>1, <1>2 DEF States
<1>5. Begun' = Begun  BY <1>1, <1>2, SameBegun
<1>6. S \in SUBSET Runs /\ \A r \in S : States[r] \in {"pending", "running"}
  BY <1>1 DEF States
<1> HIDE DEF S
<1>7. Lifecycle!Ended = Terminal  BY DEF Lifecycle!Ended, Terminal
<1>8. Lifecycle!EndMany
  BY <1>3, <1>4, <1>5, <1>6, <1>7 DEF Lifecycle!EndMany, States, Begun
<1> QED  BY <1>8 DEF Lifecycle!Next

LEMMA StepSeen ==
  Alone /\ Inv /\ Lives /\ [Next]_vars => [Lifecycle!Next]_(Lifecycle!vars)
<1> SUFFICES ASSUME Alone, Inv, Lives, [Next]_vars
             PROVE  Lifecycle!Next \/ UNCHANGED Lifecycle!vars
  OBVIOUS
<1>0. UNCHANGED <<row, log>> => UNCHANGED Lifecycle!vars  BY Unseen, SameBegan
<1>1. CASE UNCHANGED vars  BY <1>0, <1>1 DEF vars
<1>2. ASSUME NEW r \in Runs, RunStep(r) PROVE Lifecycle!Next \/ UNCHANGED Lifecycle!vars
  <2>1. row[r] \in Row  BY DEF Inv, RowsOK
  <2>2. CASE FailIntent(r)
    <3>1. RecordRunTerminalIntent(row[r], "failed").status = row[r].status
      BY <2>1, IntentColumns
    <3>2. row' = [row EXCEPT ![r] = RecordRunTerminalIntent(row[r], "failed")] /\ UNCHANGED log
      BY <2>2, NoFault DEF FailIntent
    <3> QED  BY <3>1, <3>2, OnlyColumns
  <2>3. CASE FailEvent(r)
    <3>1. "failed" \in EventKinds \ {"claimed"}  BY DEF EventKinds, Terminal
    <3> QED  BY <2>3, <3>1, NoFault, OnlyEvents DEF FailEvent
  <2>4. CASE RunStarted(r)
    <3>1. "started" \in EventKinds \ {"claimed"}  BY DEF EventKinds, Terminal
    <3> QED  BY <2>4, <3>1, NoFault, OnlyEvents DEF RunStarted
  <2>5. CASE Heartbeat(r)
    <3>1. HeartbeatRunOwnership(row[r]).status = row[r].status
      BY <2>1 DEF HeartbeatRunOwnership, Row
    <3>2. CASE row' = [row EXCEPT ![r] = HeartbeatRunOwnership(@)]
      BY <2>5, <3>1, <3>2, OnlyColumns DEF Heartbeat
    <3> QED  BY <1>0, <2>5, <3>2 DEF Heartbeat
  <2>6. CASE LeaseExpires(r)
    <3>1. [row[r] EXCEPT !.lease = "expired"].status = row[r].status  BY <2>1 DEF Row
    <3>2. row' = [row EXCEPT ![r] = [row[r] EXCEPT !.lease = "expired"]] /\ UNCHANGED log
      BY <2>6 DEF LeaseExpires
    <3> QED  BY <3>1, <3>2, OnlyColumns
  <2>7. CASE \E w \in Workers : Create(r, w)  BY <2>7, CreateSeen
  <2>8. CASE Claim(r)  BY <2>8, ClaimSeen
  <2>9. CASE FailStatus(r)  BY <2>9, FailStatusSeen
  <2>10. CASE BuildFails(r) \/ StartTasks(r) \/ RegisterOwned(r) \/ DropSpawn(r)
              \/ (\E s \in {"completed", "failed"} : AgentReturns(r, s)) \/ AgentPanics(r)
    BY <1>0, <2>10 DEF BuildFails, StartTasks, RegisterOwned, DropSpawn, AgentReturns, AgentPanics
  <2> QED
    BY <1>2, <2>2, <2>3, <2>4, <2>5, <2>6, <2>7, <2>8, <2>9, <2>10 DEF RunStep, SpawnStep
<1>3. ASSUME NEW c \in Calls, CallStep(c) PROVE UNCHANGED Lifecycle!vars
  BY <1>0, <1>3, NoCancel DEF CallStep, Respond, TimeoutOverDisconnect, OutcomeDropped, DropCall
<1>4. ASSUME NEW p \in Closers, CloseStep(p) PROVE Lifecycle!Next \/ UNCHANGED Lifecycle!vars
  <2>0. close[p].pc \in CloseSteps
    BY <1>4 DEF CloseStep, Intent, Status, UnownedIntent, UnownedStatus, TerminalEvent,
            ReleaseEvent, Cleanup, Remove, CloseSteps
  <2> PICK r \in Runs : /\ r = close[p].run /\ close[p].want \in Hints
                        /\ row[r] \in Row /\ row = [row EXCEPT ![r] = row[r]]
    BY <2>0, AtWork
  <2>1. RecordRunTerminalIntent(row[r], close[p].want).status = row[r].status
    BY IntentColumns
  <2>2. CASE Intent(p)
    <3>1. CASE row' = [row EXCEPT ![r] = RecordRunTerminalIntent(row[r], close[p].want)]
      BY <2>1, <2>2, <3>1, OnlyColumns DEF Intent
    <3> QED  BY <1>0, <2>2, <3>1 DEF Intent
  <2>3. CASE UnownedIntent(p)
    <3>1. CASE row' = [row EXCEPT ![r] = RecordRunTerminalIntent(row[r], close[p].want)]
      BY <2>1, <2>3, <3>1, OnlyColumns DEF UnownedIntent
    <3> QED  BY <1>0, <2>3, <3>1 DEF UnownedIntent
  <2>4. CASE TerminalEvent(p)
    <3>1. close[p].want \in EventKinds \ {"claimed"}  BY DEF EventKinds, Terminal, Hints
    <3> QED  BY <1>0, <2>4, <3>1, OnlyEvents DEF TerminalEvent
  <2>5. CASE ReleaseEvent(p)
    <3>1. "released" \in EventKinds \ {"claimed"}  BY DEF EventKinds
    <3> QED  BY <1>0, <2>5, <3>1, OnlyEvents DEF ReleaseEvent
  <2>6. CASE Cleanup(p) \/ Remove(p)  BY <1>0, <2>6 DEF Cleanup, Remove
  <2> QED
    BY <1>4, <2>2, <2>3, <2>4, <2>5, <2>6, StatusSeen, UnownedStatusSeen DEF CloseStep
<1>5. ASSUME NEW w \in Workers, WorkerStep(w) PROVE Lifecycle!Next \/ UNCHANGED Lifecycle!vars
  BY <1>0, <1>5, SweepCommitSeen
  DEF WorkerStep, SweepSelect, SweepFails, StartWorker, Crash
<1> QED  BY <1>1, <1>2, <1>3, <1>4, <1>5 DEF Next

\* The gateway implements the lifecycle a client is promised: a run is accepted once,
\* begins at most once, and ends once, whatever tasks, leases, sweeps and crashes do.
THEOREM KeepsLifecycle == Alone => (Spec => ImplementsLifecycle)
<1> SUFFICES ASSUME Alone PROVE Spec => ImplementsLifecycle  OBVIOUS
<1>1. Init => Lifecycle!Init
  BY DEF Init, Lifecycle!Init, NoRow, Absent
<1>2. Inv /\ Lives /\ [Next]_vars => [Lifecycle!Next]_(Lifecycle!vars)  BY StepSeen
<1> QED  BY <1>1, <1>2, AlwaysLives, PTL DEF Spec, ImplementsLifecycle, Lifecycle!Spec

-----------------------------------------------------------------------------
(* Whoever ends a run ends it with the intent that was recorded last       *)
(* (HintHonoured): what is needed is one gateway at a time and an agent    *)
(* that does not end within the microseconds before it is registered.      *)
(* Store calls may fail, leases run out and agents panic.                  *)

\* The hypotheses of the theorem.
Single == MaxUp = 1 /\ ~Preemptive /\ IsFiniteSet(Workers)

-----------------------------------------------------------------------------
(* The inductive invariant: while an entry is in the registry it says what *)
(* all closers of the run want, and so what was recorded.                  *)
Uncancelled == \A c \in ApiCalls : close[c] = Idle
OneUp ==
  /\ \A v, w \in Workers : worker[v] = "up" /\ worker[w] = "up" => v = w
  /\ \A w \in Workers : worker[w] # "up" => sweep[w] = NoRows

RowMeant(r) ==
  /\ row[r].status = Absent <=> spawn[r] = "idle"
  /\ row[r].status = "running" <=> row[r].owner # NoWorker
  /\ row[r].owner = NoWorker => row[r].lease = "none"
  /\ spawn[r] \in {"idle", "created", "failIntent", "claimed", "spawned"} => row[r].hint = NoHint
  /\ spawn[r] = "failStatus" => row[r].hint \in {NoHint, "failed"}
  /\ spawn[r] = "claimed" => row[r].status \in {"running"} \cup Terminal

EntryMeant(r) ==
  /\ reg[r] # Absent => HomeUp(r)
  /\ spawn[r] = "spawned" => Nobody(r) /\ reg[r] = Absent
  /\ reg[r] = "running" => Nobody(r)
  /\ hb[r] # "none" /\ HomeUp(r) /\ spawn[r] # "spawned" /\ row[r].status = "running" =>
       reg[r] # Absent /\ row[r].hint \in {NoHint, reg[r]}

\* A closer c of r, in the slot p.
CloserMeant(p, r) ==
  LET c == close[p] IN
    /\ p \in Runs => p = r
    /\ p \in Calls => spawn[r] = "done"
    /\ c.at = home[r] /\ HomeUp(r) /\ hb[r] # "none" /\ c.owned
    /\ c.pc \in {"intent", "status", "event", "release", "cleanup", "remove"}
    /\ reg[r] \in {c.want, Absent}
    /\ c.pc \in {"event", "release", "cleanup", "remove"} => IsTerminal(row[r].status)
CloseMeant(r) == \A p \in Closers : Works(p, r) => CloserMeant(p, r)

Meant(r) == RowMeant(r) /\ StartLife(r) /\ EntryMeant(r) /\ CloseMeant(r) /\ SweepLife(r)
Means == OneUp /\ \A r \in Runs : Meant(r)

-----------------------------------------------------------------------------
(* What a step leaves alone. *)
Aside(q) ==
  /\ row'[q] = row[q] /\ home'[q] = home[q]
  /\ spawn'[q] = spawn[q] /\ hb'[q] = hb[q] /\ reg'[q] = reg[q]
  /\ hb[q] = "none" => task'[q] = task[q]
  /\ \A p \in Closers : /\ Works(p, q)' <=> Works(p, q)
                        /\ Works(p, q) => close'[p] = close[p]

LEMMA AsideParts ==
  ASSUME NEW q \in Runs, Meant(q), Aside(q),
         spawn[q] # "idle" => worker'[home[q]] = worker[home[q]]
  PROVE  RowMeant(q)' /\ StartLife(q)' /\ EntryMeant(q)' /\ CloseMeant(q)'
<1>1. (spawn[q] # "idle" => (HomeUp(q)' <=> HomeUp(q))) /\ (Nobody(q)' <=> Nobody(q))
  BY DEF HomeUp, Nobody, Aside
<1>2. RowMeant(q)'  BY DEF Meant, RowMeant, Aside
<1>3. StartLife(q)'  BY <1>1 DEF Meant, StartLife, Aside, Building
<1>4. EntryMeant(q)'
  <2>1. spawn[q] = "idle" => reg[q] = Absent /\ hb[q] = "none"  BY DEF Meant, StartLife
  <2> QED  BY <1>1, <2>1 DEF Meant, EntryMeant, Aside
<1>5. CloseMeant(q)'
  <2> SUFFICES ASSUME NEW p \in Closers, Works(p, q)' PROVE CloserMeant(p, q)'
    BY DEF CloseMeant
  <2>1. close'[p] = close[p] /\ CloserMeant(p, q)  BY DEF Aside, Meant, CloseMeant
  <2>2. spawn[q] # "idle"  BY <2>1 DEF CloserMeant, Meant, StartLife
  <2> QED  BY <1>1, <2>1, <2>2 DEF CloserMeant, Aside
<1> QED  BY <1>2, <1>3, <1>4, <1>5

\* A step of the run r alone.
LEMMA OneMeant ==
  ASSUME Means, NEW r \in Runs, \A q \in Runs \ {r} : Aside(q),
         RowMeant(r)', StartLife(r)', EntryMeant(r)', CloseMeant(r)', SweepLife(r)',
         UNCHANGED <<worker, sweep>>
  PROVE  Means'
<1>1. ASSUME NEW q \in Runs \ {r} PROVE Meant(q)'
  <2>1. Aside(q) /\ Meant(q) /\ home'[q] = home[q]  BY DEF Means, Aside
  <2>2. SweepLife(q)'  BY <2>1 DEF Aside, Meant, SweepLife, Read
  <2> QED  BY <2>1, <2>2, AsideParts DEF Meant
<1>2. Meant(r)'  BY DEF Meant
<1>3. OneUp'  BY DEF Means, OneUp
<1> QED  BY <1>1, <1>2, <1>3 DEF Means

LEMMA StutterMeans == ASSUME Means, UNCHANGED vars PROVE Means'
<1>1. ASSUME NEW r \in Runs PROVE Meant(r)'
  <2>1. Meant(r) /\ Aside(r) /\ UNCHANGED <<home, worker>>
    BY DEF Means, vars, Aside, Works, Active
  <2>2. SweepLife(r)'  BY <2>1 DEF vars, Meant, SweepLife, Read
  <2> QED  BY <2>1, <2>2, AsideParts DEF Meant
<1>2. OneUp'  BY DEF vars, Means, OneUp
<1> QED  BY <1>1, <1>2 DEF Means

\* While a store call is made no sweep holds rows it has read.
LEMMA NoneRead == ASSUME Inv, Means, NEW v \in Workers, ConnFree(v)
                  PROVE  \A w \in Workers, r \in Runs : ~Read(w, r)
<1> SUFFICES ASSUME NEW w \in Workers, NEW r \in Runs PROVE ~Read(w, r)
  OBVIOUS
<1>1. sweep[w] = NoRows  BY DEF Means, OneUp, ConnFree
<1> QED  BY <1>1 DEF Read, NoRows, NoRow

LEMMA NoneUnread == ASSUME Inv, Means, NEW v \in Workers, ConnFree(v), NEW r \in Runs,
                           UNCHANGED sweep
                    PROVE  SweepLife(r)'
  BY NoneRead DEF SweepLife, Read

\* Of a run that was not started, only row, handler and gateway say anything.
LEMMA NotMeantYet ==
  ASSUME NEW r \in Runs, Meant(r), spawn[r] \in {"idle", "claimed"} \cup Building
  PROVE  hb[r] = "none" /\ task[r] = "none" /\ reg[r] = Absent /\ Nobody(r)
  BY DEF Meant, StartLife, Building

LEMMA NoneClosing == ASSUME NEW r \in Runs, hb'[r] = "none", reg'[r] = Absent, Nobody(r)',
                            spawn'[r] # "spawned"
                     PROVE  EntryMeant(r)' /\ CloseMeant(r)'
  BY DEF EntryMeant, CloseMeant, Nobody, Absent

-----------------------------------------------------------------------------
(* The spawning handler. *)
LEMMA CreateMeans == ASSUME Inv, Means, NEW r \in Runs, NEW w \in Workers, Create(r, w)
                     PROVE  Means'
<1>1. \A q \in Runs \ {r} : Aside(q)
  BY DEF Create, Logged, Aside, Works, Active, Inv, RowsOK, RestOK, TasksOK
<1>2. Meant(r)  BY DEF Means
<1>3. /\ row'[r] = CreateRun /\ home'[r] = w /\ spawn'[r] = "created"
      /\ task'[r] = task[r] /\ hb'[r] = hb[r] /\ reg'[r] = reg[r] /\ UNCHANGED <<worker, sweep>>
  BY DEF Create, Inv, RowsOK, RestOK, TasksOK
<1>4. RowMeant(r)'  BY <1>3 DEF RowMeant, CreateRun, NoRow, Absent
<1>5. HomeUp(r)'  BY <1>3 DEF HomeUp, Create, ConnFree
<1>6. Nobody(r)' /\ task[r] = "none" /\ hb[r] = "none" /\ reg[r] = Absent
  BY <1>2, NotMeantYet DEF Create, Nobody, Works, Active
<1>7. StartLife(r)'  BY <1>3, <1>5, <1>6 DEF StartLife, Building, HomeUp
<1>8. SweepLife(r)'  BY <1>3, NoneUnread DEF Create
<1> QED  BY <1>1, <1>3, <1>4, <1>6, <1>7, <1>8, NoneClosing, OneMeant

LEMMA BuilderMeans ==
  ASSUME Inv, Means, NEW r \in Runs, spawn[r] \in Building \cup {"claimed"},
         NEW s \in Building \cup {"claimed", "dropped"}, spawn' = [spawn EXCEPT ![r] = s],
         NEW x \in Row, row' = [row EXCEPT ![r] = x], RowMeant(r)', SweepLife(r)',
         UNCHANGED <<worker, sweep, home, task, hb, reg, close>>
  PROVE  Means'
<1>1. \A q \in Runs \ {r} : Aside(q)
  BY DEF Aside, Works, Active, Inv, RowsOK, TasksOK
<1>2. Meant(r) /\ spawn'[r] = s  BY DEF Means, Inv, TasksOK
<1>3. hb[r] = "none" /\ task[r] = "none" /\ reg[r] = Absent /\ Nobody(r) /\ Nobody(r)'
  BY <1>2, NotMeantYet DEF Nobody, Works, Active
<1>4. StartLife(r)'  BY <1>2, <1>3 DEF Meant, StartLife, Building, HomeUp
<1> QED  BY <1>1, <1>2, <1>3, <1>4, NoneClosing, OneMeant DEF Building

LEMMA SpawnFailsMeans ==
  ASSUME Inv, Means, NEW r \in Runs,
         BuildFails(r) \/ FailIntent(r) \/ FailStatus(r) \/ FailEvent(r)
  PROVE  Means'
<1>0. Meant(r) /\ row[r] \in Row /\ Fits(row[r], home[r]) /\ row = [row EXCEPT ![r] = row[r]]
  BY DEF Means, Inv, RowsOK
<1>1. ASSUME ConnFree(home[r]), UNCHANGED sweep, spawn[r] # "idle" PROVE SweepLife(r)'
  BY <1>1, HasHome, NoneUnread DEF Inv
<1>2. CASE BuildFails(r)
  <2>1. spawn'[r] = "failIntent"  BY <1>2 DEF BuildFails, Inv, TasksOK
  <2>2. RowMeant(r)' /\ SweepLife(r)'
    BY <1>0, <1>2, <2>1 DEF Meant, RowMeant, SweepLife, Read, BuildFails
  <2> QED  BY <1>0, <1>2, <2>2, BuilderMeans DEF BuildFails, Building
<1>3. CASE FailIntent(r)
  <2>1. spawn'[r] = "failStatus" /\ SweepLife(r)'  BY <1>1, <1>3 DEF FailIntent, Inv, TasksOK
  <2>2. CASE row' = [row EXCEPT ![r] = RecordRunTerminalIntent(row[r], "failed")]
    <3>1. RecordRunTerminalIntent(row[r], "failed") \in Row /\ row'[r] = RecordRunTerminalIntent(row[r], "failed")
      BY <1>0, <2>2, IntentFits DEF Fits, Hints, Inv, RowsOK
    <3>2. RowMeant(r)'
      BY <1>0, <1>3, <2>1, <3>1, IntentColumns DEF Meant, RowMeant, FailIntent
    <3> QED  BY <1>3, <2>1, <2>2, <3>1, <3>2, BuilderMeans DEF FailIntent, Building
  <2>3. CASE UNCHANGED row
    <3>1. RowMeant(r)'  BY <1>0, <1>3, <2>1, <2>3 DEF Meant, RowMeant, FailIntent
    <3> QED  BY <1>0, <1>3, <2>1, <2>3, <3>1, BuilderMeans DEF FailIntent, Building
  <2> QED  BY <1>3, <2>2, <2>3 DEF FailIntent
<1>4. CASE FailStatus(r)
  <2>1. spawn'[r] = "failEvent" /\ SweepLife(r)'  BY <1>1, <1>4 DEF FailStatus, Inv, TasksOK
  <2>2. CASE row' = [row EXCEPT ![r] = UpdateRunStatus(row[r], "failed")]
    <3>1. /\ UpdateRunStatus(row[r], "failed") \in Row /\ "failed" \in Hints
          /\ row'[r] = UpdateRunStatus(row[r], "failed")
      BY <1>0, <2>2, UpdateFits DEF Fits, Hints, Inv, RowsOK
    <3>2. RowMeant(r)'
      BY <1>0, <1>4, <2>1, <3>1, UpdateColumns DEF Meant, RowMeant, FailStatus, Absent
    <3> QED  BY <1>4, <2>1, <2>2, <3>1, <3>2, BuilderMeans DEF FailStatus, Building
  <2>3. CASE UNCHANGED row
    <3>1. RowMeant(r)'  BY <1>0, <1>4, <2>1, <2>3 DEF Meant, RowMeant, FailStatus
    <3> QED  BY <1>0, <1>4, <2>1, <2>3, <3>1, BuilderMeans DEF FailStatus, Building
  <2> QED  BY <1>4, <2>2, <2>3 DEF FailStatus
<1>5. CASE FailEvent(r)
  <2>1. spawn'[r] = "dropped"  BY <1>5 DEF FailEvent, Inv, TasksOK
  <2>2. RowMeant(r)' /\ SweepLife(r)'
    BY <1>0, <1>5, <2>1 DEF Meant, RowMeant, SweepLife, Read, FailEvent
  <2> QED  BY <1>0, <1>5, <2>2, BuilderMeans DEF FailEvent, Building
<1> QED  BY <1>2, <1>3, <1>4, <1>5

LEMMA ClaimMeans == ASSUME Inv, Means, NEW r \in Runs, Claim(r) PROVE Means'
<1>0. /\ Meant(r) /\ row[r] \in Row /\ row = [row EXCEPT ![r] = row[r]]
      /\ home[r] \in Workers /\ spawn[r] = "created"
  BY HasHome DEF Means, Claim, Inv, RowsOK
<1>1. SweepLife(r)'  BY <1>0, NoneUnread DEF Claim
<1>2. CASE row' = [row EXCEPT ![r] = ClaimRunOwnership(row[r], home[r])]
           /\ spawn' = [spawn EXCEPT ![r] = "claimed"]
  <2>0. ClaimRunOwnership(row[r], home[r]) \in Row  BY <1>0, ClaimFits DEF Fits
  <2>1. /\ row'[r] = ClaimRunOwnership(row[r], home[r]) /\ spawn'[r] = "claimed"
        /\ row'[r].hint = row[r].hint
    BY <1>0, <1>2 DEF Inv, RowsOK, TasksOK, ClaimRunOwnership, Row
  <2>2. RowMeant(r)'
    BY <1>0, <2>1, NoWorkerAssumption, ClaimColumns DEF Meant, RowMeant, Absent
  <2> QED  BY <1>0, <1>1, <1>2, <2>0, <2>2, BuilderMeans DEF Claim, Building
<1>3. CASE UNCHANGED row /\ spawn' = [spawn EXCEPT ![r] = "dropped"]
  <2>1. spawn'[r] = "dropped"  BY <1>3 DEF Inv, TasksOK
  <2>2. RowMeant(r)'  BY <1>0, <1>3, <2>1 DEF Meant, RowMeant
  <2> QED  BY <1>0, <1>1, <1>3, <2>2, BuilderMeans DEF Claim, Building
<1> QED  BY <1>2, <1>3 DEF Claim

LEMMA StartTasksMeans == ASSUME Inv, Means, NEW r \in Runs, StartTasks(r) PROVE Means'
<1>0. /\ Meant(r) /\ hb'[r] = "beating" /\ spawn'[r] = "spawned" /\ spawn[r] = "claimed"
      /\ UNCHANGED <<row, home, reg, close, worker, sweep>>
  BY DEF Means, StartTasks, Inv, TasksOK
<1>1. \A q \in Runs \ {r} : Aside(q)
  BY DEF StartTasks, Aside, Works, Active, Inv, TasksOK
<1>2. reg[r] = Absent /\ Nobody(r)' /\ HomeUp(r)'
  BY <1>0, NotMeantYet DEF Nobody, Works, Active, HomeUp, StartTasks
<1>3. RowMeant(r)'  BY <1>0 DEF Meant, RowMeant
<1>4. StartLife(r)'  BY <1>0, <1>2 DEF Meant, RowMeant, StartLife, Building, HomeUp
<1>5. EntryMeant(r)' /\ CloseMeant(r)'
  BY <1>0, <1>2 DEF EntryMeant, CloseMeant, Nobody, Absent
<1>6. SweepLife(r)'  BY <1>0 DEF Meant, SweepLife, Read
<1> QED  BY <1>0, <1>1, <1>3, <1>4, <1>5, <1>6, OneMeant

LEMMA RegisterOwnedMeans == ASSUME Inv, Means, NEW r \in Runs, RegisterOwned(r) PROVE Means'
<1>0. /\ Meant(r) /\ reg'[r] = "running" /\ spawn'[r] = "registered" /\ spawn[r] = "spawned"
      /\ UNCHANGED <<row, home, task, hb, close, worker, sweep>>
  BY DEF Means, RegisterOwned, Inv, TasksOK
<1>1. \A q \in Runs \ {r} : Aside(q)
  BY DEF RegisterOwned, Aside, Works, Active, Inv, TasksOK
<1>2. HomeUp(r)' /\ hb[r] # "none" /\ Nobody(r) /\ Nobody(r)'
  BY <1>0 DEF Meant, StartLife, EntryMeant, Building, HomeUp, Nobody, Works, Active
<1>3. RowMeant(r)'  BY <1>0 DEF Meant, RowMeant
<1>4. StartLife(r)'  BY <1>0, <1>2 DEF Meant, StartLife, Building, HomeUp
<1>5. row[r].hint = NoHint  BY <1>0 DEF Meant, RowMeant
<1>6. EntryMeant(r)' /\ CloseMeant(r)'
  BY <1>0, <1>2, <1>5 DEF EntryMeant, CloseMeant, Nobody, Absent
<1>7. SweepLife(r)'  BY <1>0 DEF Meant, SweepLife, Read
<1> QED  BY <1>0, <1>1, <1>3, <1>4, <1>6, <1>7, OneMeant

\* The handler ends, or is dropped.
LEMMA HandlerMeans ==
  ASSUME Inv, Means, NEW r \in Runs, RunStarted(r) \/ DropSpawn(r)
  PROVE  Means'
<1>0. /\ Meant(r) /\ spawn[r] \in Building \cup {"claimed", "registered"}
      /\ spawn'[r] \in {"done", "dropped"} /\ (spawn'[r] = "done" => spawn[r] = "registered")
      /\ \A q \in Runs \ {r} : spawn'[q] = spawn[q]
      /\ UNCHANGED <<row, home, task, hb, reg, close, worker, sweep>>
  BY DEF Means, RunStarted, DropSpawn, Inv, TasksOK, SpawnStates, Building
<1>1. \A q \in Runs \ {r} : Aside(q)
  BY <1>0 DEF Aside, Works, Active
<1>2. RowMeant(r)'  BY <1>0 DEF Meant, RowMeant, Building
<1>3. StartLife(r)'
  BY <1>0 DEF Meant, StartLife, HomeUp, Building, Nobody, Works, Active
<1>4. EntryMeant(r)'
  BY <1>0 DEF Meant, EntryMeant, StartLife, HomeUp, Building, Nobody, Works, Active
<1>5. CloseMeant(r)'
  <2> SUFFICES ASSUME NEW p \in Closers, Works(p, r) PROVE CloserMeant(p, r)'
    BY <1>0 DEF CloseMeant, Works, Active
  <2>1. CloserMeant(p, r)  BY <1>0 DEF Meant, CloseMeant
  <2> QED  BY <1>0, <2>1 DEF CloserMeant, HomeUp, Building
<1>6. SweepLife(r)'  BY <1>0 DEF Meant, SweepLife, Read
<1> QED  BY <1>0, <1>1, <1>2, <1>3, <1>4, <1>5, <1>6, OneMeant

-----------------------------------------------------------------------------
(* The heartbeat and the clock. *)
LEMMA HeartbeatMeans ==
  ASSUME Inv, Means, NEW r \in Runs, Heartbeat(r) \/ LeaseExpires(r)
  PROVE  Means'
<1>0. /\ Meant(r) /\ row[r] \in Row /\ Fits(row[r], home[r])
      /\ \A q \in Runs \ {r} : row'[q] = row[q] /\ hb'[q] = hb[q]
      /\ hb'[r] = "none" <=> hb[r] = "none"
      /\ UNCHANGED <<home, spawn, task, reg, close, worker, sweep>>
  BY DEF Means, Heartbeat, LeaseExpires, Inv, RowsOK, TasksOK
<1>1. /\ row'[r].status = row[r].status /\ row'[r].owner = row[r].owner
      /\ row'[r].hint = row[r].hint
  BY <1>0 DEF Heartbeat, LeaseExpires, HeartbeatRunOwnership, Inv, RowsOK, Row
<1>2. row[r].owner = NoWorker => row'[r].lease = "none"
  <2>1. CASE LeaseExpires(r)  BY <1>0, <2>1 DEF LeaseExpires, Meant, RowMeant
  <2>2. CASE Heartbeat(r)
    <3>1. hb[r] # "none" /\ home[r] # NoWorker
      <4>1. hb[r] # "none"  BY <2>2 DEF Heartbeat
      <4>2. spawn[r] # "idle"  BY <1>0, <4>1 DEF Meant, StartLife
      <4> QED  BY <4>1, <4>2, HasHome, NoWorkerAssumption DEF Inv
    <3>2. ~HeartbeatAccepted(row[r], home[r]) => row'[r] = row[r]
      BY <2>2 DEF Heartbeat
    <3> QED
      BY <1>0, <2>2, <3>1, <3>2 DEF HeartbeatAccepted, OwnedBy, Heartbeat, Meant, RowMeant
  <2> QED  BY <2>1, <2>2
<1>3. \A q \in Runs \ {r} : Aside(q)  BY <1>0 DEF Aside, Works, Active
<1>4. RowMeant(r)'  BY <1>0, <1>1, <1>2 DEF Meant, RowMeant
<1>5. StartLife(r)'
  BY <1>0, <1>1 DEF Meant, StartLife, HomeUp, Nobody, Works, Active
<1>6. EntryMeant(r)'
  BY <1>0, <1>1 DEF Meant, EntryMeant, HomeUp, Nobody, Works, Active
<1>7. CloseMeant(r)'
  BY <1>0, <1>1 DEF Meant, CloseMeant, CloserMeant, HomeUp, Works, Active
<1>8. SweepLife(r)'
  <2>1. CASE LeaseExpires(r)
    <3>1. row[r].lease = "live" /\ row[r].owner # NoWorker
      BY <1>0, <2>1 DEF LeaseExpires, Meant, RowMeant
    <3> QED
      BY <1>0, <3>1 DEF Meant, SweepLife, Read, Reconcilable, Claimable, Unowned
  <2>2. CASE Heartbeat(r)
    <3>1. spawn[r] # "idle"  BY <1>0, <2>2 DEF Heartbeat, Meant, StartLife
    <3> QED  BY <1>0, <2>2, <3>1, HasHome, NoneUnread DEF Heartbeat, Inv
  <2> QED  BY <2>1, <2>2
<1> QED  BY <1>0, <1>3, <1>4, <1>5, <1>6, <1>7, <1>8, OneMeant

-----------------------------------------------------------------------------
(* The closers. *)
LEMMA CloserOf == ASSUME Inv, Means, NEW p \in Closers, NEW r \in Runs, Works(p, r)
                  PROVE  /\ close[p] \in Closing /\ close[p].run = r /\ close[p].at = home[r]
                         /\ home[r] \in Workers /\ HomeUp(r) /\ CloserMeant(p, r) /\ Meant(r)
                         /\ hb[r] # "none" /\ spawn[r] # "spawned" /\ reg[r] # "running"
                         /\ close[p].want \in Hints
                         /\ row[r].status \in {"running"} \cup Terminal
<1>1. Meant(r) /\ CloserMeant(p, r)  BY DEF Means, Meant, CloseMeant
<1>2. close[p] \in Closing  BY ActiveClosing DEF Works, Inv
<1>3. hb[r] # "none" /\ close[p].at = home[r] /\ HomeUp(r)  BY <1>1 DEF CloserMeant
<1>4. spawn[r] # "idle" /\ row[r].status \in {"running"} \cup Terminal
  BY <1>1, <1>3 DEF Meant, StartLife
<1>5. home[r] \in Workers  BY <1>4, HasHome DEF Inv
<1>6. spawn[r] # "spawned" /\ reg[r] # "running"  BY <1>1 DEF Meant, EntryMeant, Nobody
<1> QED  BY <1>1, <1>2, <1>3, <1>4, <1>5, <1>6, ClosingFields DEF Works

LEMMA OwnMeantSlot == ASSUME Means, NEW p \in Runs, NEW q \in Runs, Works(p, q) PROVE p = q
  BY DEF Means, Meant, CloseMeant, CloserMeant, Closers

LEMMA AsideOfOne ==
  ASSUME Inv, Means, NEW r \in Runs, NEW p \in Closers,
         \A q \in Runs \ {r} : ~Works(p, q) /\ ~Works(p, q)',
         \A q \in Closers \ {p, r} : close'[q] = close[q],
         r # p => close'[r] \in {close[r], Done},
         \A q \in Runs \ {r} : task'[q] = task[q] /\ hb'[q] = hb[q] /\ reg'[q] = reg[q]
                                 /\ row'[q] = row[q],
         UNCHANGED <<home, spawn>>
  PROVE  \A q \in Runs \ {r} : Aside(q)
<1> SUFFICES ASSUME NEW q \in Runs \ {r}, NEW x \in Closers
             PROVE  (Works(x, q)' <=> Works(x, q)) /\ (Works(x, q) => close'[x] = close[x])
  BY DEF Aside
<1>1. CASE x = p  BY <1>1
<1>2. CASE x = r /\ x # p
  <2>1. ~Works(r, q)  BY OwnMeantSlot
  <2> QED  BY <1>2, <2>1 DEF Works, Active, Done
<1>3. CASE x \notin {p, r}  BY <1>3 DEF Works, Active
<1> QED  BY <1>1, <1>2, <1>3

\* Closers end; nothing that Means speaks of changes with them.
LEMMA FewerMeans ==
  ASSUME Means, UNCHANGED <<worker, sweep, row, home, spawn, hb, reg>>,
         \A p \in Closers, q \in Runs : Works(p, q)' => Works(p, q) /\ close'[p] = close[p],
         \A q \in Runs : hb[q] = "none" => task'[q] = task[q]
  PROVE  Means'
<1>1. ASSUME NEW r \in Runs PROVE Meant(r)'
  <2>0. Meant(r) /\ (HomeUp(r)' <=> HomeUp(r)) /\ (Nobody(r) => Nobody(r)')
    BY DEF Means, HomeUp, Nobody
  <2>1. RowMeant(r)'  BY <2>0 DEF Meant, RowMeant
  <2>2. StartLife(r)'  BY <2>0 DEF Meant, StartLife
  <2>3. EntryMeant(r)'  BY <2>0 DEF Meant, EntryMeant
  <2>4. CloseMeant(r)'
    <3> SUFFICES ASSUME NEW p \in Closers, Works(p, r)' PROVE CloserMeant(p, r)'
      BY DEF CloseMeant
    <3>1. close'[p] = close[p] /\ CloserMeant(p, r)  BY <2>0 DEF Meant, CloseMeant
    <3> QED  BY <2>0, <3>1 DEF CloserMeant
  <2>5. SweepLife(r)'  BY <2>0 DEF Meant, SweepLife, Read
  <2> QED  BY <2>1, <2>2, <2>3, <2>4, <2>5 DEF Meant
<1>2. OneUp'  BY DEF Means, OneUp
<1> QED  BY <1>1, <1>2 DEF Means

LEMMA GoneMeans ==
  ASSUME Inv, Means, NEW p \in Closers, close' = [close EXCEPT ![p] = Done],
         UNCHANGED <<worker, sweep, row, home, spawn, hb, reg>>,
         \A q \in Runs : hb[q] = "none" => task'[q] = task[q]
  PROVE  Means'
<1>1. \A q \in Closers, r \in Runs : Works(q, r)' => Works(q, r) /\ close'[q] = close[q]
  BY DEF Works, Active, Done, Inv, TasksOK
<1> QED  BY <1>1, FewerMeans

LEMMA AgentPanicsMeans == ASSUME Inv, Means, NEW r \in Runs, AgentPanics(r) PROVE Means'
<1>1. hb[r] # "none"  BY DEF AgentPanics, Means, Meant, StartLife
<1>2. \A q \in Runs : hb[q] = "none" => task'[q] = task[q]
  BY <1>1 DEF AgentPanics, Inv, TasksOK
<1>3. \A p \in Closers, q \in Runs : Works(p, q)' => Works(p, q) /\ close'[p] = close[p]
  BY DEF AgentPanics, Works, Active
<1> QED  BY <1>2, <1>3, FewerMeans DEF AgentPanics

\* A closer moves on, and writes what its entry says or the columns of an end.
LEMMA GoMeans ==
  ASSUME Inv, Means, NEW p \in Closers, NEW r \in Runs, Works(p, r), NEW pc \in CloseSteps,
         Goto(p, pc), NEW x \in Row, row' = [row EXCEPT ![r] = x],
         /\ x.status = "running" <=> x.owner # NoWorker
         /\ x.owner = NoWorker => x.lease = "none"
         /\ x.status \in {"running"} \cup Terminal,
         x.status = "running" => row[r].status = "running" /\ x.hint \in {row[r].hint, close[p].want},
         pc \in {"status", "event", "release", "cleanup", "remove"},
         pc # "status" => x.status # "running",
         SweepLife(r)',
         UNCHANGED <<worker, sweep, home, spawn>>
  PROVE  Means'
<1>0. CloserMeant(p, r) /\ Meant(r) /\ HomeUp(r) /\ hb[r] # "none" /\ home[r] \in Workers
      /\ close[p] \in Closing /\ spawn[r] # "spawned"
  BY CloserOf
<1>1. /\ close'[p] = [close[p] EXCEPT !.pc = pc]
      /\ \A q \in Closers \ {p} : close'[q] = close[q]
      /\ UNCHANGED <<task, hb, reg>>
  BY DEF Goto, Inv, TasksOK
<1>2. /\ close'[p].pc = pc /\ close'[p].run = r /\ close'[p].at = close[p].at
      /\ close'[p].want = close[p].want /\ close'[p].owned = close[p].owned
  BY <1>0, <1>1 DEF Closing, Works
<1>3. \A q \in Closers, y \in Runs : Works(q, y)' <=> Works(q, y)
  <2> SUFFICES ASSUME NEW q \in Closers, NEW y \in Runs PROVE Works(q, y)' <=> Works(q, y)
    OBVIOUS
  <2>1. CASE q = p
    <3>1. Active(p)' /\ Active(p) /\ close[p].run = r
      BY <1>2 DEF Works, Active, CloseSteps
    <3> QED  BY <1>2, <2>1, <3>1 DEF Works
  <2>2. CASE q # p  BY <1>1, <2>2 DEF Works, Active
  <2> QED  BY <2>1, <2>2
<1>4. row'[r] = x /\ \A q \in Runs \ {r} : row'[q] = row[q]  BY DEF Inv, RowsOK
<1>5. \A q \in Runs \ {r} : Aside(q)
  <2>1. \A q \in Runs \ {r} : ~Works(p, q)  BY DEF Works
  <2> QED  BY <1>1, <1>3, <1>4, <2>1, AsideOfOne, CallIsNoRun DEF Closers
<1>6. spawn[r] \notin {"idle", "spawned", "claimed"} \cup Building
  BY <1>0 DEF Meant, StartLife, Building
<1>7. RowMeant(r)'  BY <1>4, <1>6 DEF RowMeant, Absent, Terminal, Building
<1>8. StartLife(r)'
  BY <1>0, <1>1, <1>3, <1>4 DEF Meant, StartLife, HomeUp, Nobody
<1>9. EntryMeant(r)'
  <2>1. x.status = "running" => reg[r] # Absent /\ reg[r] = close[p].want /\ x.hint \in {NoHint, reg[r]}
    BY <1>0, <1>6 DEF Meant, EntryMeant, CloserMeant
  <2> QED
    BY <1>0, <1>1, <1>3, <1>4, <1>6, <2>1 DEF Meant, EntryMeant, HomeUp, Nobody
<1>10. CloseMeant(r)'
  <2> SUFFICES ASSUME NEW q \in Closers, Works(q, r) PROVE CloserMeant(q, r)'
    BY <1>3 DEF CloseMeant
  <2>1. CloserMeant(q, r)  BY <1>0 DEF Meant, CloseMeant
  <2>2. CASE q = p
    BY <1>0, <1>1, <1>2, <1>4, <2>1, <2>2 DEF CloserMeant, HomeUp, IsTerminal
  <2>3. CASE q # p
    <3>1. IsTerminal(row[r].status) => IsTerminal(x.status)
      BY DEF IsTerminal, Terminal
    <3> QED  BY <1>1, <1>4, <2>1, <2>3, <3>1 DEF CloserMeant, HomeUp
  <2> QED  BY <2>2, <2>3
<1> QED  BY <1>5, <1>7, <1>8, <1>9, <1>10, OneMeant

\* remove, of the entry of a run that does not run any more.
LEMMA RemoveMeans ==
  ASSUME Inv, Means, NEW p \in Closers, NEW r \in Runs, Works(p, r),
         row[r].status # "running", RemoveEntry(p, r, home[r]),
         UNCHANGED <<worker, sweep, row, home, spawn>>
  PROVE  Means'
<1>0. /\ CloserMeant(p, r) /\ Meant(r) /\ HomeUp(r) /\ hb[r] # "none" /\ reg[r] # "running"
      /\ spawn[r] # "spawned"
  BY CloserOf
<1>1. /\ close'[p] = Done /\ close'[r] \in {close[r], Done}
      /\ \A q \in Closers \ {p, r} : close'[q] = close[q]
  BY DEF RemoveEntry, CloseAborted, Inv, TasksOK, Closers
<1>2. /\ hb'[r] \in {hb[r], "stopped"} /\ reg'[r] \in {reg[r], Absent}
      /\ \A q \in Runs \ {r} : task'[q] = task[q] /\ hb'[q] = hb[q] /\ reg'[q] = reg[q]
  <2>1. p \in Runs => p = r  BY <1>0 DEF CloserMeant
  <2> QED  BY <2>1 DEF RemoveEntry, TaskAborted, Inv, TasksOK
<1>3. \A q \in Runs \ {r} : Aside(q)
  <2>1. \A q \in Runs \ {r} : ~Works(p, q) /\ ~Works(p, q)'
    BY <1>1 DEF Works, Active, Done
  <2> QED  BY <1>1, <1>2, <2>1, AsideOfOne
<1>4. \A q \in Closers : Works(q, r)' => Works(q, r) /\ close'[q] = close[q]
  <2> SUFFICES ASSUME NEW q \in Closers, Works(q, r)'
               PROVE  Works(q, r) /\ close'[q] = close[q]
    OBVIOUS
  <2>1. close'[q] # Done  BY DEF Works, Active, Done
  <2> QED  BY <1>1, <2>1 DEF Works, Active
<1>5. RowMeant(r)'  BY <1>0 DEF Meant, RowMeant
<1>6. StartLife(r)'  BY <1>0, <1>2 DEF Meant, StartLife, HomeUp
<1>7. EntryMeant(r)'  BY <1>0, <1>2 DEF EntryMeant, HomeUp, Absent
<1>8. CloseMeant(r)'
  <2> SUFFICES ASSUME NEW q \in Closers, Works(q, r)' PROVE CloserMeant(q, r)'
    BY DEF CloseMeant
  <2>1. close'[q] = close[q] /\ CloserMeant(q, r)  BY <1>0, <1>4 DEF Meant, CloseMeant
  <2> QED  BY <1>0, <1>2, <2>1 DEF CloserMeant, HomeUp
<1>9. SweepLife(r)'  BY <1>0 DEF Meant, SweepLife, Read
<1> QED  BY <1>3, <1>5, <1>6, <1>7, <1>8, <1>9, OneMeant

LEMMA ClosingRun == ASSUME Inv, Means, NEW p \in Closers, close[p].pc \in CloseSteps
                    PROVE  \E r \in Runs :
                             /\ close[p].run = r /\ Works(p, r) /\ CloserMeant(p, r) /\ Meant(r)
                             /\ close[p].at = home[r] /\ home[r] \in Workers /\ hb[r] # "none"
                             /\ close[p].want \in Hints /\ row[r] \in Row /\ Fits(row[r], home[r])
                             /\ row[r].status \in {"running"} \cup Terminal
<1>1. Active(p) /\ close[p] \in Closing /\ close[p].run \in Runs  BY AtStep DEF Inv
<1>2. Works(p, close[p].run)  BY <1>1 DEF Works
<1> QED  BY <1>1, <1>2, CloserOf DEF Inv, RowsOK, Fits

LEMMA RunsOwned == ASSUME Inv, Means, NEW r \in Runs, home[r] \in Workers
                   PROVE  OwnedBy(row[r], home[r]) <=> row[r].status = "running"
  BY NoWorkerAssumption DEF Inv, RowsOK, Fits, Means, Meant, RowMeant, OwnedBy, Absent

LEMMA IntentMeans == ASSUME Inv, Means, NEW p \in Closers, Intent(p) PROVE Means'
<1>0. close[p].pc \in CloseSteps /\ "status" \in CloseSteps  BY DEF Intent, CloseSteps
<1>1. PICK r \in Runs : /\ close[p].run = r /\ Works(p, r) /\ CloserMeant(p, r) /\ Meant(r)
                        /\ close[p].at = home[r] /\ home[r] \in Workers /\ hb[r] # "none"
                        /\ close[p].want \in Hints /\ row[r] \in Row /\ Fits(row[r], home[r])
                        /\ row[r].status \in {"running"} \cup Terminal
  BY <1>0, ClosingRun
<1>2. UNCHANGED <<worker, sweep, home, spawn>> /\ ConnFree(home[r])  BY <1>1 DEF Intent
<1>3. SweepLife(r)'  BY <1>1, <1>2, NoneUnread
<1>4. /\ row[r].status = "running" <=> row[r].owner # NoWorker
      /\ row[r].owner = NoWorker => row[r].lease = "none"
  BY <1>1 DEF Meant, RowMeant
<1>5. CASE OwnedBy(row[r], home[r]) /\ Goto(p, "status")
           /\ row' = [row EXCEPT ![r] = RecordRunTerminalIntent(row[r], close[p].want)]
  <2> DEFINE x == RecordRunTerminalIntent(row[r], close[p].want)
  <2>1. x \in Row  BY <1>1, IntentFits DEF Fits
  <2>2. /\ x.status = row[r].status /\ x.owner = row[r].owner /\ x.lease = row[r].lease
        /\ x.hint = close[p].want
    BY <1>1, IntentColumns
  <2>3. row' = [row EXCEPT ![r] = x]  BY <1>5
  <2> HIDE DEF x
  <2>4. /\ x.status = "running" <=> x.owner # NoWorker
        /\ x.owner = NoWorker => x.lease = "none"
        /\ x.status \in {"running"} \cup Terminal
    BY <1>1, <1>4, <2>2
  <2>5. x.status = "running" => row[r].status = "running" /\ x.hint \in {row[r].hint, close[p].want}
    BY <2>2
  <2>6. Goto(p, "status")  BY <1>5
  <2> QED  BY <1>0, <1>1, <1>2, <1>3, <2>1, <2>3, <2>4, <2>5, <2>6, GoMeans
<1>6. CASE ~OwnedBy(row[r], home[r]) /\ RemoveEntry(p, r, home[r]) /\ UNCHANGED row
  <2>1. row[r].status # "running"  BY <1>1, <1>6, RunsOwned
  <2> QED  BY <1>0, <1>1, <1>2, <1>6, <2>1, RemoveMeans
<1>7. CASE Goto(p, "status") /\ UNCHANGED row
  <2>1. row' = [row EXCEPT ![r] = row[r]]  BY <1>7 DEF Inv, RowsOK
  <2> QED  BY <1>0, <1>1, <1>2, <1>3, <1>4, <1>7, <2>1, GoMeans
<1> QED  BY <1>1, <1>5, <1>6, <1>7 DEF Intent

LEMMA StatusMeans == ASSUME Inv, Means, NEW p \in Closers, Status(p) PROVE Means'
<1>0. close[p].pc \in CloseSteps  BY DEF Status, CloseSteps
<1>1. PICK r \in Runs : /\ close[p].run = r /\ Works(p, r) /\ CloserMeant(p, r) /\ Meant(r)
                        /\ close[p].at = home[r] /\ home[r] \in Workers /\ hb[r] # "none"
                        /\ close[p].want \in Hints /\ row[r] \in Row /\ Fits(row[r], home[r])
                        /\ row[r].status \in {"running"} \cup Terminal
  BY <1>0, ClosingRun
<1>2. UNCHANGED <<worker, sweep, home, spawn>> /\ ConnFree(home[r])  BY <1>1 DEF Status
<1>3. SweepLife(r)'  BY <1>1, <1>2, NoneUnread
<1>4. CASE OwnedBy(row[r], home[r]) /\ Goto(p, AfterStatus(close[p]))
           /\ row' = [row EXCEPT ![r] = UpdateRunStatus(row[r], close[p].want)]
  <2> DEFINE x == UpdateRunStatus(row[r], close[p].want)
             pc == AfterStatus(close[p])
  <2>1. x \in Row  BY <1>1, UpdateFits DEF Fits
  <2>2. /\ x.status = close[p].want /\ x.owner = NoWorker /\ x.lease = "none"
    BY <1>1, UpdateColumns
  <2>3. x.status \in Terminal /\ x.status # "running"  BY <1>1, <2>2 DEF Hints, Terminal
  <2>4. row' = [row EXCEPT ![r] = x] /\ Goto(p, pc)  BY <1>4
  <2>5. pc \in {"event", "cleanup"} /\ pc \in CloseSteps  BY DEF AfterStatus, CloseSteps
  <2> HIDE DEF x, pc
  <2> QED  BY <1>0, <1>1, <1>2, <1>3, <2>1, <2>2, <2>3, <2>4, <2>5, GoMeans
<1>5. CASE ~OwnedBy(row[r], home[r]) /\ RemoveEntry(p, r, home[r]) /\ UNCHANGED row
  <2>1. row[r].status # "running"  BY <1>1, <1>5, RunsOwned
  <2> QED  BY <1>0, <1>1, <1>2, <1>5, <2>1, RemoveMeans
<1>6. CASE /\ close' = [close EXCEPT ![p] = Done]
           /\ task' = IF p = r THEN [task EXCEPT ![r] = "ended"] ELSE task
           /\ UNCHANGED <<row, hb, reg>>
  <2>1. \A q \in Runs : hb[q] = "none" => task'[q] = task[q]
    BY <1>1, <1>6 DEF Inv, TasksOK
  <2> QED  BY <1>2, <1>6, <2>1, GoneMeans
<1> QED  BY <1>1, <1>4, <1>5, <1>6 DEF Status

\* What follows once the run has ended.
LEMMA AfterMeans ==
  ASSUME Inv, Means, NEW p \in Closers, TerminalEvent(p) \/ ReleaseEvent(p) \/ Cleanup(p)
  PROVE  Means'
<1>0. close[p].pc \in CloseSteps /\ close[p].pc \in {"event", "release", "cleanup"}
  BY DEF TerminalEvent, ReleaseEvent, Cleanup, CloseSteps
<1>1. PICK r \in Runs : /\ close[p].run = r /\ Works(p, r) /\ CloserMeant(p, r) /\ Meant(r)
                        /\ close[p].at = home[r] /\ home[r] \in Workers /\ hb[r] # "none"
                        /\ close[p].want \in Hints /\ row[r] \in Row /\ Fits(row[r], home[r])
                        /\ row[r].status \in {"running"} \cup Terminal
  BY <1>0, ClosingRun
<1>2. IsTerminal(row[r].status)  BY <1>0, <1>1 DEF CloserMeant
<1>3. row[r].status \in Terminal /\ row[r].status # "running"
      /\ row' = [row EXCEPT ![r] = row[r]] /\ UNCHANGED <<worker, sweep, home, spawn>>
  BY <1>2 DEF IsTerminal, Terminal, TerminalEvent, ReleaseEvent, Cleanup, Inv, RowsOK
<1>4. row[r].owner = NoWorker /\ row[r].lease = "none"
  BY <1>1, <1>3 DEF Meant, RowMeant
<1>5. SweepLife(r)'  BY <1>1, <1>3 DEF Meant, SweepLife, Read, TerminalEvent, ReleaseEvent, Cleanup
<1>6. PICK pc \in {"release", "cleanup", "remove"} : Goto(p, pc)
  BY DEF TerminalEvent, ReleaseEvent, Cleanup
<1>7. pc \in CloseSteps  BY DEF CloseSteps
<1> QED  BY <1>1, <1>3, <1>4, <1>5, <1>6, <1>7, GoMeans

LEMMA RemoveStepMeans == ASSUME Inv, Means, NEW p \in Closers, Remove(p) PROVE Means'
<1>0. close[p].pc \in CloseSteps /\ close[p].pc = "remove"  BY DEF Remove, CloseSteps
<1>1. PICK r \in Runs : /\ close[p].run = r /\ Works(p, r) /\ CloserMeant(p, r) /\ Meant(r)
                        /\ close[p].at = home[r] /\ home[r] \in Workers /\ hb[r] # "none"
                        /\ close[p].want \in Hints /\ row[r] \in Row /\ Fits(row[r], home[r])
                        /\ row[r].status \in {"running"} \cup Terminal
  BY <1>0, ClosingRun
<1>2. row[r].status # "running"
  BY <1>0, <1>1 DEF CloserMeant, IsTerminal, Terminal
<1> QED  BY <1>1, <1>2, RemoveMeans DEF Remove

\* A closer that knows its entry writes nothing unconditionally.
LEMMA NoUnowned == ASSUME Inv, Means, NEW p \in Closers
                   PROVE  ~UnownedIntent(p) /\ ~UnownedStatus(p)
<1>1. ASSUME close[p].pc \in CloseSteps
      PROVE  close[p].owned /\ close[p].pc \in {"intent", "status", "event", "release", "cleanup", "remove"}
  BY <1>1, ClosingRun DEF CloserMeant
<1> QED  BY <1>1 DEF UnownedIntent, UnownedStatus, CloseSteps

LEMMA DropCallMeans == ASSUME Inv, Means, NEW c \in Calls, DropCall(c) PROVE Means'
  BY GoneMeans, CallIsNoRun DEF DropCall

-----------------------------------------------------------------------------
(* A run is closed: by terminate, by finalize. *)
\* The entry takes the closer's status; the slot is the call's or the task's.
LEMMA EnterMeans ==
  ASSUME Inv, Means, NEW p \in Closers, NEW r \in Runs, NEW d \in Closing, NEW s \in Hints,
         \A q \in Runs \ {r} : ~Works(p, q),
         p \in Runs => p = r,
         p \in Calls => spawn[r] = "done",
         spawn[r] # "spawned", reg[r] # Absent,
         IsTerminal(reg[r]) => reg[r] = s,
         d.pc \in {"intent", "status"} /\ d.run = r /\ d.at = home[r] /\ d.owned /\ d.want = s,
         close'[p] = d, r # p => close'[r] \in {close[r], Done},
         \A q \in Closers \ {p, r} : close'[q] = close[q],
         reg'[r] = s, hb'[r] \in {hb[r], "stopped"},
         \A q \in Runs \ {r} : task'[q] = task[q] /\ hb'[q] = hb[q] /\ reg'[q] = reg[q],
         UNCHANGED <<worker, sweep, row, home, spawn>>
  PROVE  Means'
<1>0. Meant(r) /\ HomeUp(r) /\ hb[r] # "none" /\ r \in Closers
  BY DEF Means, Meant, EntryMeant, StartLife, Closers
<1>1. \A q \in Runs \ {r} : Aside(q)
  <2>1. \A q \in Runs \ {r} : ~Works(p, q)'  BY DEF Works
  <2> QED  BY <2>1, AsideOfOne
<1>2. s # Absent /\ s # "running" /\ IsTerminal(s)
  BY DEF Hints, Absent, IsTerminal, Terminal
<1>3. RowMeant(r)'  BY <1>0 DEF Meant, RowMeant
<1>4. StartLife(r)'  BY <1>0 DEF Meant, StartLife, HomeUp
<1>5. EntryMeant(r)'
  <2>1. row[r].status = "running" => row[r].hint \in {NoHint, s}
    <3> SUFFICES ASSUME row[r].status = "running", row[r].hint # NoHint
                 PROVE  row[r].hint = s
      OBVIOUS
    <3>1. row[r].hint = reg[r] /\ row[r].hint \in Hints
      BY <1>0 DEF Meant, EntryMeant, Inv, RowsOK, Row
    <3> QED  BY <3>1 DEF Hints, IsTerminal, Terminal
  <2> QED  BY <1>0, <1>2, <2>1 DEF EntryMeant, HomeUp
<1>6. CloseMeant(r)'
  <2> SUFFICES ASSUME NEW q \in Closers, Works(q, r)' PROVE CloserMeant(q, r)'
    BY DEF CloseMeant
  <2>1. CASE q = p
    BY <1>0, <2>1 DEF CloserMeant, HomeUp
  <2>2. CASE q # p
    <3>1. close'[q] # Done  BY DEF Works, Active, Done
    <3>2. close'[q] = close[q] /\ Works(q, r)  BY <2>2, <3>1 DEF Works, Active
    <3>3. CloserMeant(q, r) /\ reg[r] # "running"  BY <3>2, CloserOf
    <3>4. reg[r] = s
      BY <3>3 DEF Inv, TasksOK, IsTerminal, Terminal, Hints
    <3> QED  BY <1>0, <3>2, <3>3, <3>4 DEF CloserMeant, HomeUp
  <2> QED  BY <2>1, <2>2
<1>7. SweepLife(r)'  BY <1>0 DEF Meant, SweepLife, Read
<1> QED  BY <1>1, <1>3, <1>4, <1>5, <1>6, <1>7, OneMeant

LEMMA TerminateMeans ==
  ASSUME Inv, Means, NEW c \in Calls, NEW r \in Runs, NEW s \in Hints, spawn[r] = "done",
         \A q \in Runs \ {r} : ~Works(c, q),
         TerminateRegistered(c, r, home[r], s),
         UNCHANGED <<worker, sweep, row, home, spawn>>
  PROVE  Means'
<1> DEFINE kept == IF IsTerminal(reg[r]) THEN reg[r] ELSE s
           k == [pc |-> "intent", run |-> r, at |-> home[r], kind |-> "terminate",
                 want |-> kept, was |-> IsTerminal(reg[r]), owned |-> TRUE]
           d == [k EXCEPT !.pc = FirstWrite(k)]
<1>0. c \in Closers /\ c \notin Runs /\ r \in Closers  BY CallIsNoRun DEF Closers
<1>1. /\ d.pc \in {"intent", "status"} /\ d.run = r /\ d.at = home[r] /\ d.owned = TRUE
      /\ d.want = kept
  BY DEF FirstWrite
<1>2. kept \in Hints /\ reg[r] # Absent /\ (IsTerminal(reg[r]) => reg[r] = kept)
  BY DEF Inv, TasksOK, TerminateRegistered, Registered, IsTerminal, Terminal, Absent
<1>3. TasksOK'
  <2>1. home[r] \in Workers  BY HasHome DEF Inv
  <2> QED  BY <1>0, <2>1, TerminateRegisteredOK DEF Inv
<1>4. close' = [CloseAborted(r) EXCEPT ![c] = d]  BY DEF TerminateRegistered
<1>5. reg' = [reg EXCEPT ![r] = kept]  BY DEF TerminateRegistered
<1> HIDE DEF d, kept
<1>6. /\ close'[c] = d /\ close'[r] \in {close[r], Done}
      /\ \A q \in Closers \ {c, r} : close'[q] = close[q]
  BY <1>0, <1>4 DEF CloseAborted, Inv, TasksOK
<1>7. /\ hb'[r] = "stopped" /\ reg'[r] = kept
      /\ \A q \in Runs \ {r} : task'[q] = task[q] /\ hb'[q] = hb[q] /\ reg'[q] = reg[q]
  BY <1>5 DEF TerminateRegistered, TaskAborted, Inv, TasksOK
<1>8. d \in Closing
  <2>1. close'[c] \in Closing \cup {Idle, Done}  BY <1>0, <1>3 DEF TasksOK
  <2> QED  BY <1>1, <1>6, <2>1 DEF Idle, Done
<1> QED  BY <1>0, <1>1, <1>2, <1>6, <1>7, <1>8, EnterMeans

\* An entry that is gone while its gateway is up was that of an ended run.
LEMMA GoneMeansEnded ==
  ASSUME Means, NEW r \in Runs, ~Registered(r, home[r]), HomeUp(r), hb[r] # "none",
         spawn[r] # "spawned"
  PROVE  IsTerminal(row[r].status)
  BY DEF Means, Meant, EntryMeant, StartLife, Registered, IsTerminal

LEMMA TerminateUnregisteredMeans ==
  ASSUME Inv, Means, NEW c \in Calls, NEW r \in Runs, NEW s, spawn[r] = "done",
         TerminateUnregistered(c, r, home[r], s),
         UNCHANGED <<worker, sweep, row, home, spawn>>
  PROVE  Means'
<1>1. HomeUp(r) /\ hb[r] # "none"
  BY DEF TerminateUnregistered, ConnFree, HomeUp, Means, Meant, StartLife, Building
<1>2. IsTerminal(row[r].status)  BY <1>1, GoneMeansEnded DEF TerminateUnregistered
<1>3. close' = [close EXCEPT ![c] = Done]  BY <1>2 DEF TerminateUnregistered
<1> QED  BY <1>3, GoneMeans, CallIsNoRun DEF TerminateUnregistered

LEMMA RespondMeans ==
  ASSUME Inv, Means, NEW c \in Responders, NEW r \in Runs, NEW s \in {"timed_out", "cancelled"},
         Respond(c, r, s)
  PROVE  Means'
<1>1. c \in Calls /\ s \in Hints  BY DEF Calls, Hints
<1>2. \A q \in Runs : ~Works(c, q)  BY DEF Respond, Works, Active, Idle
<1> QED
  BY <1>1, <1>2, TerminateMeans, TerminateUnregisteredMeans DEF Respond

LEMMA TimeoutOverDisconnectMeans ==
  ASSUME Inv, Means, NEW c \in Calls, TimeoutOverDisconnect(c) PROVE Means'
<1>0. c \in Closers  BY CallIsNoRun
<1>1. close[c].pc \in CloseSteps
  BY <1>0, ActiveClosing, ClosingFields DEF TimeoutOverDisconnect, Inv
<1>2. PICK r \in Runs : /\ close[c].run = r /\ Works(c, r) /\ CloserMeant(c, r)
                        /\ close[c].at = home[r]
  BY <1>0, <1>1, ClosingRun
<1>3. spawn[r] = "done"  BY <1>2 DEF CloserMeant
<1>4. \A q \in Runs \ {r} : ~Works(c, q)  BY <1>2 DEF Works
<1>5. "timed_out" \in Hints  BY DEF Hints
<1>6. \/ TerminateRegistered(c, r, home[r], "timed_out")
      \/ TerminateUnregistered(c, r, home[r], "timed_out")
  BY <1>2 DEF TimeoutOverDisconnect
<1>7. UNCHANGED <<worker, sweep, row, home, spawn>>
  BY DEF TimeoutOverDisconnect
<1> QED
  BY <1>3, <1>4, <1>5, <1>6, <1>7, TerminateMeans, TerminateUnregisteredMeans

LEMMA FinalizeMeans ==
  ASSUME Inv, Means, NEW p \in Closers, NEW r \in Runs, NEW s \in Hints,
         FinalizeRegistered(p, r, home[r], s), spawn[r] # "spawned",
         p = r \/ (p \in Calls /\ spawn[r] = "done"),
         \A q \in Runs \ {r} : ~Works(p, q),
         UNCHANGED <<worker, sweep, row, home, spawn>>
  PROVE  Means'
<1> DEFINE k == [pc |-> "intent", run |-> r, at |-> home[r], kind |-> "finalize",
                 want |-> s, was |-> IsTerminal(reg[r]), owned |-> TRUE]
           d == [k EXCEPT !.pc = FirstWrite(k)]
<1>0. /\ (p \in Calls => p \notin Runs) /\ reg[r] # Absent /\ hb[r] # "none"
      /\ spawn[r] # "idle" /\ home[r] \in Workers
  BY CallIsNoRun, SpawnedHome DEF Means, Meant, StartLife, FinalizeRegistered, Registered, Inv
<1>1. /\ d.pc \in {"intent", "status"} /\ d.run = r /\ d.at = home[r] /\ d.owned = TRUE
      /\ d.want = s
  BY DEF FirstWrite
<1>2. CASE IsTerminal(reg[r]) /\ reg[r] # s
  <2>1. /\ close' = [close EXCEPT ![p] = Done] /\ UNCHANGED <<reg, hb>>
        /\ \A q \in Runs \ {r} : task'[q] = task[q]
    BY <1>2 DEF FinalizeRegistered, Inv, TasksOK
  <2> QED  BY <1>0, <2>1, GoneMeans
<1>3. CASE ~(IsTerminal(reg[r]) /\ reg[r] # s)
  <2>1. close' = [close EXCEPT ![p] = d] /\ reg' = [reg EXCEPT ![r] = s]
    BY <1>3 DEF FinalizeRegistered
  <2>2. /\ task' = IF p = r THEN [task EXCEPT ![r] = "closing"] ELSE task
        /\ hb' = IF IsTerminal(reg[r]) THEN hb ELSE [hb EXCEPT ![r] = "stopped"]
    BY <1>3 DEF FinalizeRegistered
  <2>3. TasksOK'
    <3>1. p \in Runs => spawn[p] # "idle"  BY <1>0
    <3> QED  BY <1>0, <3>1, FinalizeRegisteredOK DEF Inv
  <2> HIDE DEF d
  <2>4. close'[p] = d /\ \A q \in Closers \ {p} : close'[q] = close[q]
    BY <2>1 DEF Inv, TasksOK
  <2>5. /\ hb'[r] \in {hb[r], "stopped"} /\ reg'[r] = s
        /\ \A q \in Runs \ {r} : task'[q] = task[q] /\ hb'[q] = hb[q] /\ reg'[q] = reg[q]
    BY <2>1, <2>2 DEF Inv, TasksOK
  <2>6. d \in Closing
    <3>1. close'[p] \in Closing \cup {Idle, Done}  BY <2>3 DEF TasksOK
    <3> QED  BY <1>1, <2>4, <3>1 DEF Idle, Done
  <2>7. r # p => close'[r] = close[r]  BY <2>4 DEF Closers
  <2> QED  BY <1>0, <1>1, <1>3, <2>4, <2>5, <2>6, <2>7, EnterMeans
<1> QED  BY <1>2, <1>3

\* finalize of a run that is not registered any more finds that it has ended.
LEMMA FinalizeUnregisteredMeans ==
  ASSUME Inv, Means, NEW p \in Closers, NEW r \in Runs, NEW s,
         FinalizeUnregistered(p, r, home[r], s), spawn[r] # "spawned", hb[r] # "none",
         UNCHANGED <<worker, sweep, row, home, spawn>>
  PROVE  Means'
<1>1. IsTerminal(row[r].status)
  BY GoneMeansEnded DEF FinalizeUnregistered, ConnFree, HomeUp
<1>2. /\ close' = [close EXCEPT ![p] = Done] /\ UNCHANGED <<reg, hb>>
      /\ \A q \in Runs \ {r} : task'[q] = task[q]
  BY <1>1 DEF FinalizeUnregistered, Inv, TasksOK
<1> QED  BY <1>2, GoneMeans

LEMMA OutcomeDroppedMeans ==
  ASSUME Inv, Means, NEW c \in Calls, NEW r \in Runs, OutcomeDropped(c, r) PROVE Means'
<1>0. c \in Closers /\ "failed" \in Hints  BY CallIsNoRun DEF Hints
<1>1. \A q \in Runs : ~Works(c, q)  BY DEF OutcomeDropped, Works, Active, Idle
<1>2. UNCHANGED <<worker, sweep, row, home, spawn>> /\ spawn[r] = "done" /\ hb[r] # "none"
  BY DEF OutcomeDropped, Means, Meant, StartLife, Building
<1>3. CASE close' = [close EXCEPT ![c] = Done] /\ UNCHANGED <<task, reg, hb>>
  BY <1>0, <1>2, <1>3, GoneMeans
<1>4. CASE FinalizeRegistered(c, r, home[r], "failed")
  BY <1>0, <1>1, <1>2, <1>4, FinalizeMeans
<1>5. CASE FinalizeUnregistered(c, r, home[r], "failed")
  BY <1>0, <1>2, <1>5, FinalizeUnregisteredMeans
<1> QED  BY <1>3, <1>4, <1>5 DEF OutcomeDropped

LEMMA AgentReturnsMeans ==
  ASSUME Single, Inv, Means, NEW r \in Runs, NEW s \in {"completed", "failed"},
         AgentReturns(r, s)
  PROVE  Means'
<1>0. /\ s \in Hints /\ r \in Closers /\ spawn[r] # "spawned" /\ hb[r] # "none"
      /\ UNCHANGED <<worker, sweep, row, home, spawn>>
  BY DEF AgentReturns, Means, Meant, StartLife, Hints, Closers, Single
<1>1. \A q \in Runs \ {r} : ~Works(r, q)  BY OwnMeantSlot
<1> QED
  BY <1>0, <1>1, FinalizeMeans, FinalizeUnregisteredMeans DEF AgentReturns

-----------------------------------------------------------------------------
(* The sweeps, and gateways that come and go. *)
LEMMA SweepingMeans ==
  ASSUME Inv, Means, NEW w \in Workers, SweepSelect(w) \/ SweepFails(w) PROVE Means'
<1>1. /\ worker[w] = "up" /\ \A v \in Workers \ {w} : sweep'[v] = sweep[v]
      /\ UNCHANGED <<worker, row, home, spawn, task, hb, reg, close>>
  BY DEF SweepSelect, SweepFails, ConnFree, Inv, RestOK
<1>2. \A r \in Runs : Read(w, r)' => sweep'[w][r] = row[r] /\ Reconcilable(row[r])
  <2>1. CASE SweepSelect(w)
    <3>1. \A r \in Runs : sweep'[w][r] = IF Reconcilable(row[r]) THEN row[r] ELSE NoRow
      BY <2>1 DEF SweepSelect, Inv, RestOK
    <3> QED  BY <3>1 DEF Read, NoRow
  <2>2. CASE SweepFails(w)
    <3>1. sweep'[w] = NoRows  BY <2>2 DEF SweepFails, Inv, RestOK
    <3> QED  BY <3>1 DEF Read, NoRows, NoRow
  <2> QED  BY <2>1, <2>2
<1>3. ASSUME NEW r \in Runs PROVE Meant(r)'
  <2>1. Meant(r) /\ Aside(r)  BY <1>1 DEF Means, Aside, Works, Active
  <2>2. SweepLife(r)'  BY <1>1, <1>2, <2>1 DEF Meant, SweepLife, Read
  <2> QED  BY <1>1, <2>1, <2>2, AsideParts DEF Meant
<1>4. OneUp'  BY <1>1 DEF Means, OneUp
<1> QED  BY <1>3, <1>4 DEF Means

LEMMA SweepCommitMeans == ASSUME Inv, Means, NEW w \in Workers, SweepCommit(w) PROVE Means'
<1>1. /\ \A r \in Runs : row'[r] = IF Read(w, r) THEN ReconcileRun(row[r], sweep[w][r]) ELSE row[r]
      /\ sweep'[w] = NoRows /\ \A v \in Workers \ {w} : sweep'[v] = sweep[v]
      /\ UNCHANGED <<worker, home, spawn, task, hb, reg, close>>
  BY DEF SweepCommit, Inv, RestOK
<1>2. \A v \in Workers, r \in Runs : ~Read(v, r)'
  <2>1. \A v \in Workers \ {w} : sweep[v] = NoRows
    BY DEF SweepCommit, Means, OneUp
  <2> QED  BY <1>1, <2>1 DEF Read, NoRows, NoRow
<1>3. ASSUME NEW r \in Runs PROVE Meant(r)'
  <2>0. Meant(r) /\ row[r] \in Row /\ SweepLife(r)'
    BY <1>2 DEF Means, Inv, RowsOK, SweepLife
  <2>1. CASE ~Read(w, r)
    <3>1. Aside(r)  BY <1>1, <2>1 DEF Aside, Works, Active
    <3> QED  BY <1>1, <2>0, <3>1, AsideParts DEF Meant
  <2>2. CASE Read(w, r)
    <3>1. /\ Reconcilable(row[r]) /\ row'[r] = ReconcileRun(row[r], row[r])
      BY <1>1, <2>0, <2>2 DEF Meant, SweepLife
    <3>2. /\ row[r].status \in {"pending", "running"} /\ row'[r].status \in Terminal
          /\ row'[r].owner = NoWorker /\ row'[r].lease = "none" /\ row'[r].hint = NoHint
      BY <2>0, <3>1, Recovered
    <3>3. IsTerminal(row'[r].status) /\ row'[r].status # Absent /\ row'[r].status # "running"
          /\ row[r].status # Absent
      BY <3>2 DEF IsTerminal, Terminal, Absent
    <3>4. RowMeant(r)'  BY <1>1, <2>0, <3>2, <3>3 DEF Meant, RowMeant
    <3>5. StartLife(r)'
      BY <1>1, <2>0, <3>2 DEF Meant, StartLife, HomeUp, Nobody, Works, Active
    <3>6. EntryMeant(r)'
      BY <1>1, <2>0, <3>3 DEF Meant, EntryMeant, HomeUp, Nobody, Works, Active
    <3>7. CloseMeant(r)'
      <4> SUFFICES ASSUME NEW p \in Closers, Works(p, r) PROVE CloserMeant(p, r)'
        BY <1>1 DEF CloseMeant, Works, Active
      <4>1. CloserMeant(p, r)  BY <2>0 DEF Meant, CloseMeant
      <4> QED  BY <1>1, <3>3, <4>1 DEF CloserMeant, HomeUp
    <3> QED  BY <2>0, <3>4, <3>5, <3>6, <3>7 DEF Meant
  <2> QED  BY <2>1, <2>2
<1>4. OneUp'  BY <1>1 DEF Means, OneUp
<1> QED  BY <1>3, <1>4 DEF Means

LEMMA StartWorkerMeans ==
  ASSUME Single, Inv, Means, NEW w \in Workers, StartWorker(w) PROVE Means'
<1>1. \A v \in Workers : worker[v] # "up"
  <2>1. IsFiniteSet(Up) /\ Cardinality(Up) < 1
    BY FS_Subset DEF Single, StartWorker, Up
  <2>2. Cardinality(Up) \in Nat  BY <2>1, FS_CardinalityType
  <2>3. Cardinality(Up) = 0  BY <2>1, <2>2
  <2> QED  BY <2>1, <2>3, FS_EmptySet DEF Up
<1>2. /\ worker'[w] = "up" /\ \A v \in Workers \ {w} : worker'[v] = worker[v]
      /\ UNCHANGED <<sweep, row, home, spawn, task, hb, reg, close>>
  BY DEF StartWorker, Inv, RestOK
<1>3. OneUp'  BY <1>1, <1>2 DEF Means, OneUp
<1>4. ASSUME NEW r \in Runs PROVE Meant(r)'
  <2>1. Meant(r) /\ Aside(r)  BY <1>2 DEF Means, Aside, Works, Active
  <2>2. SweepLife(r)'  BY <1>2, <2>1 DEF Meant, SweepLife, Read
  <2>3. spawn[r] # "idle" => worker'[home[r]] = worker[home[r]]
    <3> SUFFICES ASSUME spawn[r] # "idle" PROVE worker'[home[r]] = worker[home[r]]
      OBVIOUS
    <3>1. home[r] \in Workers /\ worker[home[r]] # "new"
      BY <2>1, HasHome DEF Inv, Meant, StartLife
    <3> QED  BY <1>2, <3>1 DEF StartWorker
  <2> QED  BY <2>1, <2>2, <2>3, AsideParts DEF Meant
<1> QED  BY <1>3, <1>4 DEF Means

LEMMA CrashMeans == ASSUME Inv, Means, NEW w \in Workers, Crash(w) PROVE Means'
<1>1. /\ worker'[w] = "down" /\ \A v \in Workers \ {w} : worker'[v] = worker[v]
      /\ sweep'[w] = NoRows /\ \A v \in Workers \ {w} : sweep'[v] = sweep[v]
      /\ UNCHANGED <<row, home>>
  BY DEF Crash, Inv, RestOK
<1>2. OneUp'  BY <1>1 DEF Means, OneUp
<1>3. ASSUME NEW r \in Runs PROVE Meant(r)'
  <2>0. Meant(r)  BY DEF Means
  <2>1. /\ spawn'[r] = IF home[r] = w /\ spawn[r] # "done" THEN "dropped" ELSE spawn[r]
        /\ task'[r] = IF home[r] = w /\ task[r] \in {"executing", "closing"} THEN "aborted" ELSE task[r]
        /\ hb'[r] = IF home[r] = w /\ hb[r] = "beating" THEN "stopped" ELSE hb[r]
        /\ reg'[r] = IF home[r] = w THEN Absent ELSE reg[r]
        /\ \A p \in Closers : close'[p] = IF Active(p) /\ close[p].at = w THEN Done ELSE close[p]
    BY DEF Crash
  <2>2. SweepLife(r)'
    BY <1>1, <2>0 DEF Meant, SweepLife, Read, NoRows, NoRow
  <2>3. CASE home[r] # w
    <3>1. ASSUME NEW p \in Closers, Works(p, r) PROVE close'[p] = close[p]
      BY <2>0, <2>1, <2>3, <3>1 DEF Meant, CloseMeant, CloserMeant
    <3>2. ASSUME NEW p \in Closers PROVE Works(p, r)' <=> Works(p, r)
      BY <2>1, <3>1 DEF Works, Active, Done
    <3>3. spawn[r] # "idle" => worker'[home[r]] = worker[home[r]]
      BY <1>1, <2>3, HasHome DEF Inv
    <3>4. Aside(r)  BY <1>1, <2>1, <2>3, <3>1, <3>2 DEF Aside
    <3> QED  BY <2>0, <2>2, <3>3, <3>4, AsideParts DEF Meant
  <2>4. CASE home[r] = w
    <3>1. spawn[r] # "idle" /\ ~HomeUp(r)'
      BY <1>1, <2>0, <2>4, NoWorkerAssumption DEF Meant, StartLife, HomeUp
    <3>2. /\ spawn'[r] \in {"done", "dropped"} /\ (spawn'[r] = "done" => spawn[r] = "done")
          /\ reg'[r] = Absent /\ (hb'[r] = "none" <=> hb[r] = "none")
      BY <2>1, <2>4
    <3>3. Nobody(r)'
      <4> SUFFICES ASSUME NEW p \in Closers, Works(p, r)' PROVE FALSE  BY DEF Nobody
      <4>1. Works(p, r) /\ ~(Active(p) /\ close[p].at = w)
        BY <2>1 DEF Works, Active, Done
      <4> QED  BY <2>0, <2>4, <4>1 DEF Meant, CloseMeant, CloserMeant, Works
    <3>4. RowMeant(r)'
      BY <1>1, <2>0, <3>1, <3>2 DEF Meant, RowMeant, Building
    <3>5. hb[r] = "none" => task'[r] = "none" /\ spawn'[r] = "dropped"
      BY <2>0, <2>1, <3>2 DEF Meant, StartLife, Building
    <3>6. StartLife(r)'
      BY <1>1, <2>0, <2>4, <3>2, <3>3, <3>5 DEF Meant, StartLife, Building
    <3>7. EntryMeant(r)'  BY <3>1, <3>2 DEF EntryMeant, Absent
    <3>8. CloseMeant(r)'  BY <3>3 DEF CloseMeant, Nobody
    <3> QED  BY <2>2, <3>4, <3>6, <3>7, <3>8 DEF Meant
  <2> QED  BY <2>3, <2>4
<1> QED  BY <1>2, <1>3 DEF Means

-----------------------------------------------------------------------------
(* Requests to cancel. *)
\* A slot that was taken is never free again.
StaysTaken(c) == close'[c].pc = "idle" => close[c].pc = "idle"

LEMMA IdlePc == ASSUME TasksOK, NEW c \in Closers PROVE close[c] = Idle <=> close[c].pc = "idle"
  BY DEF TasksOK, Closing, CloseSteps, Idle, Done

LEMMA TakenSlot == ASSUME Inv, NEW c \in Closers, NEW p \in Closers, NEW r \in Runs, NEW d,
                          d.pc # "idle",
                          close' \in {close, [close EXCEPT ![p] = d], [CloseAborted(r) EXCEPT ![p] = d]}
                   PROVE  StaysTaken(c)
  BY DEF StaysTaken, CloseAborted, Done, Inv, TasksOK

LEMMA TakenOne == ASSUME Inv, NEW c \in Closers, NEW p \in Closers, NEW d, d.pc # "idle",
                         close' = [close EXCEPT ![p] = d]
                  PROVE  StaysTaken(c)
  BY DEF StaysTaken, Inv, TasksOK

LEMMA TakenDone == ASSUME Inv, NEW c \in Closers, NEW p \in Closers,
                          close' = [close EXCEPT ![p] = Done]
                   PROVE  StaysTaken(c)
  BY DEF StaysTaken, Done, Inv, TasksOK

LEMMA TakenByClose ==
  ASSUME Inv, NEW c \in Closers, NEW p \in Closers, NEW r \in Runs, NEW w, NEW s,
         \/ FinalizeRegistered(p, r, w, s) \/ FinalizeUnregistered(p, r, w, s)
         \/ TerminateRegistered(p, r, w, s) \/ TerminateUnregistered(p, r, w, s)
         \/ RemoveEntry(p, r, w)
  PROVE  StaysTaken(c)
<1>1. CASE FinalizeRegistered(p, r, w, s)
  <2> DEFINE k == [pc |-> "intent", run |-> r, at |-> w, kind |-> "finalize",
                   want |-> s, was |-> IsTerminal(reg[r]), owned |-> TRUE]
             d == [k EXCEPT !.pc = FirstWrite(k)]
  <2>1. d.pc # "idle"  BY DEF FirstWrite
  <2>2. close' \in {[close EXCEPT ![p] = Done], [close EXCEPT ![p] = d]}
    BY <1>1 DEF FinalizeRegistered
  <2> HIDE DEF d
  <2> QED  BY <2>1, <2>2, TakenSlot DEF Done
<1>2. CASE FinalizeUnregistered(p, r, w, s) \/ TerminateUnregistered(p, r, w, s)
  <2>1. PICK d : d.pc # "idle" /\ close' = [close EXCEPT ![p] = d]
    <3>1. Done.pc # "idle"  BY DEF Done
    <3>2. CASE IsTerminal(row[r].status)
      BY <1>2, <3>1, <3>2 DEF FinalizeUnregistered, TerminateUnregistered
    <3>3. CASE ~IsTerminal(row[r].status)
      BY <1>2, <3>3 DEF FinalizeUnregistered, TerminateUnregistered
    <3> QED  BY <3>2, <3>3
  <2> QED  BY <2>1, TakenOne
<1>3. CASE TerminateRegistered(p, r, w, s)
  <2> DEFINE kept == IF IsTerminal(reg[r]) THEN reg[r] ELSE s
             k == [pc |-> "intent", run |-> r, at |-> w, kind |-> "terminate",
                   want |-> kept, was |-> IsTerminal(reg[r]), owned |-> TRUE]
             d == [k EXCEPT !.pc = FirstWrite(k)]
  <2>1. d.pc # "idle"  BY DEF FirstWrite
  <2>2. close' = [CloseAborted(r) EXCEPT ![p] = d]  BY <1>3 DEF TerminateRegistered
  <2> HIDE DEF d
  <2> QED  BY <2>1, <2>2, TakenSlot
<1>4. CASE RemoveEntry(p, r, w)
  <2>1. Done.pc # "idle"  BY DEF Done
  <2>2. close' \in {[close EXCEPT ![p] = Done], [CloseAborted(r) EXCEPT ![p] = Done]}
    BY <1>4 DEF RemoveEntry
  <2> QED  BY <2>1, <2>2, TakenSlot
<1> QED  BY <1>1, <1>2, <1>3, <1>4

LEMMA TakenByGoto == ASSUME Inv, NEW c \in Closers, NEW p \in Closers, NEW pc \in CloseSteps,
                            close' = [close EXCEPT ![p].pc = pc]
                     PROVE  StaysTaken(c)
<1>1. close[p] \in Closing \cup {Idle, Done}  BY DEF Inv, TasksOK
<1>2. [close[p] EXCEPT !.pc = pc].pc = pc  BY <1>1 DEF Closing, Idle, Done
<1> QED  BY <1>2 DEF StaysTaken, CloseSteps, Inv, TasksOK

LEMMA RunTakes == ASSUME Inv, NEW c \in Closers, NEW r \in Runs, RunStep(r) PROVE StaysTaken(c)
<1>1. ASSUME NEW s, AgentReturns(r, s) PROVE StaysTaken(c)
  BY <1>1, TakenByClose DEF AgentReturns, Closers
<1>2. ASSUME UNCHANGED close PROVE StaysTaken(c)  BY <1>2 DEF StaysTaken
<1> QED
  BY <1>1, <1>2 DEF RunStep, SpawnStep, Create, BuildFails, FailIntent, FailStatus, FailEvent,
    Claim, StartTasks, RegisterOwned, RunStarted, DropSpawn, Heartbeat, LeaseExpires, AgentPanics

LEMMA CallTakes == ASSUME Inv, NEW c \in Closers, NEW p \in Calls, CallStep(p) PROVE StaysTaken(c)
<1>0. p \in Closers  BY CallIsNoRun
<1>1. ASSUME NEW r \in Runs, NEW s, Respond(p, r, s) PROVE StaysTaken(c)
  BY <1>0, <1>1, TakenByClose DEF Respond
<1>2. CASE TimeoutOverDisconnect(p)
  <2>1. close[p].run \in Runs
    BY <1>0, <1>2, ActiveClosing, ClosingFields DEF TimeoutOverDisconnect, Inv
  <2> QED  BY <1>0, <1>2, <2>1, TakenByClose DEF TimeoutOverDisconnect
<1>3. ASSUME NEW r \in Runs, OutcomeDropped(p, r) PROVE StaysTaken(c)
  BY <1>0, <1>3, TakenByClose, TakenDone DEF OutcomeDropped
<1>4. ASSUME NEW r \in Runs, NEW w \in Workers, CancelRead(p, r, w) PROVE StaysTaken(c)
  <2>1. CASE IsTerminal(row[r].status)  BY <1>0, <1>4, <2>1, TakenDone DEF CancelRead
  <2>2. CASE ~IsTerminal(row[r].status)  BY <1>0, <1>4, <2>2, TakenOne DEF CancelRead
  <2> QED  BY <2>1, <2>2
<1>5. CASE CancelRoute(p)
  <2>1. close[p].pc \in CloseSteps /\ "cancelIntent" \in CloseSteps
    BY <1>5 DEF CancelRoute, CloseSteps
  <2>2. close[p].run \in Runs  BY <1>0, <2>1, AtStep DEF Inv
  <2> QED  BY <1>0, <1>5, <2>1, <2>2, TakenByClose, TakenByGoto DEF CancelRoute
<1>6. CASE CancelIntent(p)
  <2>1. close[p].pc \in CloseSteps /\ "cancelStatus" \in CloseSteps
    BY <1>6 DEF CancelIntent, CloseSteps
  <2>2. close[p].run \in Runs  BY <1>0, <2>1, AtStep DEF Inv
  <2> QED  BY <1>0, <1>6, <2>1, <2>2, TakenDone, TakenByGoto DEF CancelIntent
<1>7. CASE CancelStatus(p) \/ DropCall(p)
  BY <1>0, <1>7, TakenDone DEF CancelStatus, DropCall
<1> QED  BY <1>1, <1>2, <1>3, <1>4, <1>5, <1>6, <1>7 DEF CallStep, CancelStep

LEMMA CloseTakes == ASSUME Inv, NEW c \in Closers, NEW p \in Closers, CloseStep(p)
                    PROVE  StaysTaken(c)
<1>0. close[p].pc \in CloseSteps
  BY DEF CloseStep, Intent, Status, UnownedIntent, UnownedStatus, TerminalEvent, ReleaseEvent,
    Cleanup, Remove, CloseSteps
<1>1. close[p].run \in Runs  BY <1>0, AtStep DEF Inv
<1>2. ASSUME NEW pc \in CloseSteps, Goto(p, pc) PROVE StaysTaken(c)
  BY <1>2, TakenByGoto DEF Goto
<1>3. /\ {"status", "release", "cleanup", "remove"} \subseteq CloseSteps
      /\ AfterStatus(close[p]) \in CloseSteps
  BY AfterStatusStep DEF CloseSteps
<1>4. CASE Intent(p)  BY <1>1, <1>2, <1>3, <1>4, TakenByClose DEF Intent
<1>5. CASE Status(p)
  BY <1>1, <1>2, <1>3, <1>5, TakenByClose, TakenDone DEF Status
<1>6. CASE UnownedIntent(p) \/ UnownedStatus(p)
  BY <1>2, <1>3, <1>6 DEF UnownedIntent, UnownedStatus
<1>7. CASE TerminalEvent(p) \/ ReleaseEvent(p) \/ Cleanup(p)
  BY <1>2, <1>3, <1>7 DEF TerminalEvent, ReleaseEvent, Cleanup
<1>8. CASE Remove(p)  BY <1>1, <1>8, TakenByClose DEF Remove
<1> QED  BY <1>4, <1>5, <1>6, <1>7, <1>8 DEF CloseStep

LEMMA NeverIdle == Inv /\ Inv' /\ [Next]_vars /\ Uncancelled' => Uncancelled
<1> SUFFICES ASSUME Inv, Inv', [Next]_vars, NEW c \in ApiCalls, close'[c] = Idle
             PROVE  close[c] = Idle
  BY DEF Uncancelled
<1>1. c \in Closers  BY DEF Closers, Calls
<1>2. StaysTaken(c)
  <2>1. ASSUME NEW w \in Workers, WorkerStep(w) PROVE StaysTaken(c)
    <3>1. close'[c] \in {close[c], Done}
      BY <1>1, <2>1 DEF WorkerStep, SweepSelect, SweepCommit, SweepFails, StartWorker, Crash
    <3> QED  BY <3>1 DEF StaysTaken, Done
  <2>2. ASSUME UNCHANGED vars PROVE StaysTaken(c)  BY <2>2 DEF vars, StaysTaken
  <2> QED  BY <1>1, <2>1, <2>2, RunTakes, CallTakes, CloseTakes DEF Next
<1> QED  BY <1>1, <1>2, IdlePc DEF StaysTaken, Idle, Inv

\* No request to cancel is at work, and none begins.
LEMMA NoCancelMeans ==
  ASSUME Inv, Means, Uncancelled', NEW c \in Calls
  PROVE  ~CancelStep(c) /\ ~\E r \in Runs, w \in Workers : CancelRead(c, r, w)
<1>0. c \in Closers  BY CallIsNoRun
<1>1. ~CancelStep(c)
  <2> SUFFICES ASSUME CancelStep(c) PROVE FALSE  OBVIOUS
  <2>1. close[c].pc \in CloseSteps /\ close[c].pc \in {"route", "cancelIntent", "cancelStatus"}
    BY DEF CancelStep, CancelRoute, CancelIntent, CancelStatus, CloseSteps
  <2> QED  BY <1>0, <2>1, ClosingRun DEF CloserMeant
<1>2. ASSUME NEW r \in Runs, NEW w \in Workers, CancelRead(c, r, w) PROVE FALSE
  <2>1. close'[c] = Idle /\ close'[c].pc = "idle"
    BY <1>2 DEF CancelRead, Uncancelled, Idle
  <2>2. CASE IsTerminal(row[r].status)
    BY <1>0, <1>2, <2>1, <2>2 DEF CancelRead, Inv, TasksOK, Done
  <2>3. CASE ~IsTerminal(row[r].status)
    BY <1>0, <1>2, <2>1, <2>3 DEF CancelRead, Inv, TasksOK
  <2> QED  BY <2>2, <2>3
<1> QED  BY <1>1, <1>2

-----------------------------------------------------------------------------
(* Together. *)
LEMMA InitMeans == Single /\ Init => Means
<1> SUFFICES ASSUME Single, Init PROVE Means  OBVIOUS
<1>1. \A v, w \in Workers : worker[v] = "up" /\ worker[w] = "up" => v = w
  <2>1. IsFiniteSet(Up) /\ Cardinality(Up) = 1
    BY FS_Subset DEF Single, Init, Up
  <2>2. \E x : Up = {x}  BY <2>1, FS_Singleton
  <2> QED  BY <2>2 DEF Up
<1>2. OneUp  BY <1>1 DEF Init, OneUp
<1>3. ASSUME NEW r \in Runs PROVE Meant(r)
  <2>1. Nobody(r)  BY DEF Init, Nobody, Works, Active, Idle
  <2>2. RowMeant(r)  BY DEF Init, RowMeant, NoRow, Absent
  <2>3. StartLife(r)  BY <2>1 DEF Init, StartLife, Building
  <2>4. EntryMeant(r) /\ CloseMeant(r)
    BY <2>1 DEF Init, EntryMeant, CloseMeant, Nobody, Absent
  <2>5. SweepLife(r)  BY DEF Init, SweepLife, Read, NoRows, NoRow
  <2> QED  BY <2>2, <2>3, <2>4, <2>5 DEF Meant
<1> QED  BY <1>2, <1>3 DEF Means

LEMMA NextMeans == Single /\ Inv /\ Means /\ Uncancelled' /\ [Next]_vars => Means'
<1> SUFFICES ASSUME Single, Inv, Means, Uncancelled', [Next]_vars PROVE Means'  OBVIOUS
<1>1. CASE \E r \in Runs : RunStep(r)
  <2> PICK r \in Runs : RunStep(r)  BY <1>1
  <2>1. CASE SpawnStep(r)
    BY <2>1, SpawnFailsMeans, ClaimMeans, StartTasksMeans, RegisterOwnedMeans, HandlerMeans
    DEF SpawnStep
  <2> QED
    BY <2>1, CreateMeans, HandlerMeans, HeartbeatMeans, AgentReturnsMeans, AgentPanicsMeans
    DEF RunStep
<1>2. CASE \E c \in Calls : CallStep(c)
  BY <1>2, RespondMeans, TimeoutOverDisconnectMeans, OutcomeDroppedMeans, NoCancelMeans,
     DropCallMeans
  DEF CallStep
<1>3. CASE \E p \in Closers : CloseStep(p)
  BY <1>3, IntentMeans, StatusMeans, NoUnowned, AfterMeans, RemoveStepMeans DEF CloseStep
<1>4. CASE \E w \in Workers : WorkerStep(w)
  BY <1>4, SweepingMeans, SweepCommitMeans, StartWorkerMeans, CrashMeans DEF WorkerStep
<1> QED  BY <1>1, <1>2, <1>3, <1>4, StutterMeans DEF Next

\* What ends a run ends it as its hint says.
Decided(r) ==
  Incomplete(row[r]) /\ IsTerminal(row'[r].status) /\ row[r].hint # NoHint
    => row'[r].status = row[r].hint

LEMMA ClosersDecide == ASSUME Inv, Means, NEW p \in Closers, CloseStep(p), NEW r \in Runs
                       PROVE  Decided(r)
<1> SUFFICES ASSUME Incomplete(row[r]), IsTerminal(row'[r].status), row[r].hint # NoHint
             PROVE  row'[r].status = row[r].hint
  BY DEF Decided
<1>0. row[r] \in Row /\ ~IsTerminal(row[r].status)
  BY DEF Inv, RowsOK, Incomplete, IsTerminal, Terminal
<1>1. CASE Status(p)
  <2>0. close[p].pc \in CloseSteps  BY <1>1 DEF Status, CloseSteps
  <2>1. PICK q \in Runs : /\ close[p].run = q /\ Works(p, q) /\ CloserMeant(p, q) /\ Meant(q)
                          /\ close[p].at = home[q] /\ home[q] \in Workers /\ hb[q] # "none"
                          /\ close[p].want \in Hints
    BY <2>0, ClosingRun
  <2>2. /\ r = q /\ OwnedBy(row[r], home[r])
        /\ row' = [row EXCEPT ![r] = UpdateRunStatus(row[r], close[p].want)]
    BY <1>0, <1>1, <2>1 DEF Status, Inv, RowsOK
  <2>3. row[r].status = "running" /\ HomeUp(r) /\ spawn[r] # "spawned"
    BY <2>1, <2>2, RunsOwned, CloserOf
  <2>4. row[r].hint = close[p].want
    BY <2>1, <2>2, <2>3 DEF Meant, EntryMeant, CloserMeant
  <2>5. row'[r].status = close[p].want
    BY <1>0, <2>1, <2>2, UpdateColumns DEF Inv, RowsOK
  <2> QED  BY <2>4, <2>5
<1>2. CASE ~Status(p)
  <2>1. row'[r].status = row[r].status
    <3>1. ASSUME NEW q, NEW s, row' = [row EXCEPT ![q] = RecordRunTerminalIntent(row[q], s)]
          PROVE  row'[r].status = row[r].status
      BY <1>0, <3>1, IntentColumns DEF Inv, RowsOK
    <3> QED
      BY <1>2, <3>1, NoUnowned DEF CloseStep, Intent, TerminalEvent, ReleaseEvent, Cleanup, Remove
  <2> QED  BY <1>0, <2>1
<1> QED  BY <1>1, <1>2

LEMMA SweepsDecide == ASSUME Inv, Means, NEW w \in Workers, WorkerStep(w), NEW r \in Runs
                      PROVE  Decided(r)
<1>0. Meant(r) /\ row[r] \in Row  BY DEF Means, Inv, RowsOK
<1>1. CASE SweepCommit(w) /\ Read(w, r)
  <2>1. row'[r] = ReconcileRun(row[r], row[r]) /\ Reconcilable(row[r])
    BY <1>0, <1>1 DEF SweepCommit, Meant, SweepLife
  <2>2. row'[r].status = ReconciledStatus(row[r])  BY <1>0, <2>1, Recovered
  <2> QED  BY <2>2 DEF Decided, ReconciledStatus
<1>2. CASE ~(SweepCommit(w) /\ Read(w, r))
  <2>1. row'[r] = row[r]
    BY <1>2 DEF WorkerStep, SweepSelect, SweepCommit, SweepFails, StartWorker, Crash
  <2> QED  BY <2>1 DEF Decided, Incomplete, IsTerminal, Terminal
<1> QED  BY <1>1, <1>2

LEMMA RunsDecide == ASSUME Inv, Means, NEW q \in Runs, RunStep(q), NEW r \in Runs
                    PROVE  Decided(r)
<1> SUFFICES ASSUME Incomplete(row[r]), IsTerminal(row'[r].status), row[r].hint # NoHint
             PROVE  row'[r].status = row[r].hint
  BY DEF Decided
<1>0. row[r] \in Row /\ Meant(r) /\ ~IsTerminal(row[r].status)
  BY DEF Inv, RowsOK, Means, Incomplete, IsTerminal, Terminal
<1>1. CASE FailStatus(q)
  <2>1. r = q /\ row'[r] = UpdateRunStatus(row[r], "failed") /\ "failed" \in Hints
    BY <1>0, <1>1 DEF FailStatus, Inv, RowsOK, Hints
  <2>2. row'[r].status = "failed"  BY <1>0, <2>1, UpdateColumns
  <2> QED  BY <1>0, <1>1, <2>1, <2>2 DEF Meant, RowMeant, FailStatus
<1>2. CASE ~FailStatus(q)
  <2>1. ASSUME NEW x, row' = [row EXCEPT ![q] = x], ~IsTerminal(x.status) PROVE FALSE
    BY <1>0, <2>1 DEF Inv, RowsOK
  <2>2. row' # row  BY <1>0
  <2>3. CASE \E w \in Workers : Create(q, w)
    <3>1. ~IsTerminal(CreateRun.status)  BY DEF CreateRun, NoRow, IsTerminal, Terminal
    <3> QED  BY <2>1, <2>3, <3>1 DEF Create
  <2>4. row[q] \in Row  BY DEF Inv, RowsOK
  <2>5. CASE FailIntent(q)
    <3>1. row' = [row EXCEPT ![q] = RecordRunTerminalIntent(row[q], "failed")]
      BY <2>2, <2>5 DEF FailIntent
    <3>2. RecordRunTerminalIntent(row[q], "failed").status = row[q].status
      BY <2>4, IntentColumns
    <3> QED  BY <1>0, <2>1, <3>1, <3>2 DEF Inv, RowsOK
  <2>6. CASE Claim(q)
    <3>1. row' = [row EXCEPT ![q] = ClaimRunOwnership(row[q], home[q])]
      BY <2>2, <2>6 DEF Claim
    <3>2. ~IsTerminal(ClaimRunOwnership(row[q], home[q]).status)
      BY <2>4, ClaimColumns DEF IsTerminal, Terminal
    <3> QED  BY <2>1, <3>1, <3>2
  <2>7. CASE Heartbeat(q) \/ LeaseExpires(q)
    <3>1. row'[r].status = row[r].status
      BY <1>0, <2>4, <2>7 DEF Heartbeat, LeaseExpires, HeartbeatRunOwnership, Inv, RowsOK, Row
    <3> QED  BY <1>0, <3>1
  <2> QED
    BY <1>2, <2>2, <2>3, <2>5, <2>6, <2>7 DEF RunStep, SpawnStep, BuildFails, FailEvent,
      StartTasks, RegisterOwned, RunStarted, DropSpawn, AgentReturns, AgentPanics
<1> QED  BY <1>1, <1>2

\* A request to cancel that has not read the row yet writes nothing.
LEMMA CallsDecide == ASSUME Inv, Means, NEW c \in Calls, CallStep(c), NEW r \in Runs
                     PROVE  Decided(r)
<1>0. c \in Closers  BY CallIsNoRun
<1>1. ~CancelIntent(c) /\ ~CancelStatus(c)
  <2>1. ASSUME CancelIntent(c) \/ CancelStatus(c) PROVE FALSE
    <3>1. close[c].pc \in CloseSteps /\ close[c].pc \in {"cancelIntent", "cancelStatus"}
      BY <2>1 DEF CancelIntent, CancelStatus, CloseSteps
    <3> QED  BY <1>0, <3>1, ClosingRun DEF CloserMeant
  <2> QED  BY <2>1
<1>2. row' = row
  BY <1>1 DEF CallStep, CancelStep, Respond, TimeoutOverDisconnect, OutcomeDropped, CancelRead,
    CancelRoute, DropCall
<1> QED  BY <1>2 DEF Decided, Incomplete, IsTerminal, Terminal

LEMMA AlwaysMeans == ASSUME Single PROVE Spec => [](Inv /\ (Uncancelled => Means))
<1>1. Init => (Uncancelled => Means)  BY InitMeans
<1>2. Inv /\ Inv' /\ (Uncancelled => Means) /\ [Next]_vars => (Uncancelled => Means)'
  BY NeverIdle, NextMeans
<1> QED  BY <1>1, <1>2, InitInv, NextInv, PTL DEF Spec

\* Whoever ends a run - its own task, a response handler, the spawning handler
\* or a sweep after a crash - stores the terminal intent that was recorded last,
\* as long as no request to cancel is at work.
THEOREM IntentDecides == Single => (Spec => HintHonoured)
<1> SUFFICES ASSUME Single PROVE Spec => HintHonoured  OBVIOUS
<1>1. Inv /\ (Uncancelled => Means) /\ [Next]_vars =>
        [\A r \in Runs :
           ((\A c \in ApiCalls : close[c] = Idle)
              /\ Incomplete(row[r]) /\ IsTerminal(row'[r].status) /\ row[r].hint # NoHint)
             => row'[r].status = row[r].hint]_vars
  <2> SUFFICES ASSUME Inv, Uncancelled => Means, Next, NEW r \in Runs, Uncancelled
               PROVE  Decided(r)
    BY DEF Uncancelled, Decided
  <2> QED
    BY RunsDecide, CallsDecide, ClosersDecide, SweepsDecide DEF Next
<1> QED  BY <1>1, AlwaysMeans, PTL DEF Spec, HintHonoured
=============================================================================
