----------------------------- MODULE ManagedRun -----------------------------
(***************************************************************************)
(* The life of managed runs in the API gateway                             *)
(* (hermes-gateway/src/api_server.rs and runner.rs, hermes-managed).       *)
(*                                                                         *)
(* Several gateway processes may share one state database.  Each has its   *)
(* own in-memory RunRegistry.  A run is carried by                         *)
(*   - the spawning handler (spawn_managed_run_with_version),              *)
(*   - the run task it starts, which ends in finalize_managed_run,         *)
(*   - the heartbeat task that renews the lease,                           *)
(*   - response handlers that time out or lose their client, and cancel    *)
(*     requests: both end in terminate_managed_run,                        *)
(*   - the recovery sweep of every gateway (reconcile_incomplete_runs).    *)
(*                                                                         *)
(* Grain: the code between two `.await`s is one step.  An event appended   *)
(* right after a write of the row is a step of its own where another actor *)
(* can come between, which is everywhere but at creation and claim.        *)
(*                                                                         *)
(* Definitions whose name starts with Bad are the mistakes the properties  *)
(* are tried against; no action uses them.                                 *)
(***************************************************************************)
EXTENDS Naturals, Sequences, FiniteSets

CONSTANTS Workers,   \* boot-scoped worker ids: one per gateway process start
          NoWorker   \* owner columns NULL

ASSUME NoWorkerAssumption == NoWorker \notin Workers

-----------------------------------------------------------------------------
(* The `runs` table of the managed store (hermes-managed/src/store.rs).  A *)
(* row is a record; every SQL statement that touches the lifecycle of a    *)
(* run is an operator from the row before it to the row after it, and its  *)
(* WHERE clause is an operator of its own.                                 *)
(*                                                                         *)
(* owner_worker_id and owner_claim_token are always written and cleared    *)
(* together, and a run is claimed by at most one spawn, whose token is a   *)
(* fresh uuid: comparing the pair is comparing the worker.  `owner` stands *)
(* for both columns.  A timestamp is kept only where it decides something: *)
(* `lease` says whether owner_lease_expires_at is NULL, still ahead of the *)
(* clock, or not, and `cancelRequested` whether cancel_requested_at is set.*)

\* ManagedRunStatus.
Terminal == {"completed", "failed", "cancelled", "timed_out", "interrupted"}
RunStatus == {"pending", "running"} \cup Terminal
IsTerminal(s) == s \in Terminal

\* What terminal_status_hint may hold.
NoHint == "no_hint"
Hints == {"completed", "failed", "cancelled", "timed_out"}

Absent == "absent"          \* no row with this id
Leases == {"none", "live", "expired"}

Row == [status : RunStatus \cup {Absent},
        owner : Workers \cup {NoWorker},
        lease : Leases,
        hint : Hints \cup {NoHint},
        cancelRequested : BOOLEAN]

NoRow == [status |-> Absent, owner |-> NoWorker, lease |-> "none",
          hint |-> NoHint, cancelRequested |-> FALSE]

\* create_run, with the status the spawn path gives a new run.
CreateRun == [NoRow EXCEPT !.status = "pending"]

\* The ownership half of the WHERE of claim_run_ownership, which
\* reconcile_incomplete_runs repeats.
Unowned(row) == row.owner = NoWorker \/ row.lease \in {"none", "expired"}

Incomplete(row) == row.status \in {"pending", "running"}

Claimable(row) == Incomplete(row) /\ Unowned(row)

ClaimRunOwnership(row, w) ==
  [row EXCEPT !.status = "running", !.owner = w, !.lease = "live"]

BadOwnedBy(row, w) == row.status # Absent
\* The compare-and-set on (owner_worker_id, owner_claim_token).
OwnedBy(row, w) == row.status # Absent /\ row.owner = w

HeartbeatAccepted(row, w) == OwnedBy(row, w) /\ row.status = "running"
HeartbeatRunOwnership(row) == [row EXCEPT !.lease = "live"]

\* record_run_terminal_intent and its _if_owned form write the same columns.
RecordRunTerminalIntent(row, s) ==
  [row EXCEPT !.hint = s,
              !.cancelRequested = @ \/ s = "cancelled"]

BadUpdateRunStatus(row, s) == [row EXCEPT !.status = s, !.hint = NoHint]
\* update_run_status and its _if_owned form write the same columns: the hint
\* always goes, the owner columns go when the new status is terminal.
UpdateRunStatus(row, s) ==
  [row EXCEPT !.status = s,
              !.hint = NoHint,
              !.owner = IF IsTerminal(s) THEN NoWorker ELSE @,
              !.lease = IF IsTerminal(s) THEN "none" ELSE @]

BadReconcilableEnded(row) == row.status # Absent /\ Unowned(row)
BadReconcilableLive(row) == Incomplete(row)
BadReconcilableOwned(row) == Incomplete(row) /\ row.lease = "expired"
\* The WHERE of reconcile_incomplete_runs is the WHERE of the claim.
Reconcilable(row) == Claimable(row)

BadReconciledStatusNoDefault(read) == read.hint
BadReconciledStatusNoHint(read) ==
  IF read.cancelRequested THEN "cancelled" ELSE "interrupted"
\* reconcile_incomplete_run: the status a stale run gets, from the row the
\* SELECT returned.
ReconciledStatus(read) ==
  CASE read.hint # NoHint -> read.hint
    [] read.hint = NoHint /\ read.cancelRequested -> "cancelled"
    [] OTHER -> "interrupted"

\* The UPDATE of reconcile_incomplete_runs: WHERE id = ?, nothing rechecked.
ReconcileRun(row, read) ==
  [row EXCEPT !.status = ReconciledStatus(read),
              !.hint = NoHint,
              !.owner = NoWorker,
              !.lease = "none"]

-----------------------------------------------------------------------------
(* The gateways.                                                           *)

CONSTANTS Runs,        \* run ids
          Responders,  \* response handlers of /v1/chat/completions
          ApiCalls,    \* POST /v1/runs/{id}/cancel requests
          MaxUp,       \* gateways alive at once on one state.db
          MaxCrashes,  \* bound: gateway crashes
          MaxFaults,   \* bound: store calls that return Err
          MaxDrops,    \* bound: handler futures dropped by a client disconnect
          Panics,      \* TRUE: the agent's conversation may panic
          Prompt,      \* TRUE: no handler or heartbeat stalls for a lease's length
          Preemptive   \* TRUE: the run task may overtake register_owned

ASSUME ManagedRunAssumption ==
  /\ Runs \cap Responders = {} /\ Runs \cap ApiCalls = {}
  /\ Responders \cap ApiCalls = {}
  /\ MaxUp \in Nat \ {0}
  /\ MaxCrashes \in Nat /\ MaxFaults \in Nat /\ MaxDrops \in Nat
  /\ Panics \in BOOLEAN /\ Prompt \in BOOLEAN /\ Preemptive \in BOOLEAN

VARIABLES
  worker,   \* worker[w]: "new", "up" or "down"
  sweep,    \* sweep[w]: the rows a reconcile has read and not yet written,
            \* NoRow for the runs its SELECT did not return
  row,      \* row[r]: the row of the runs table
  log,      \* log[r]: lifecycle events of the run_events table, oldest first
  home,     \* home[r]: the worker that spawned r
  spawn,    \* spawn[r]: how far the spawning handler got
  task,     \* task[r]: the run task
  hb,       \* hb[r]: the heartbeat task
  reg,      \* reg[r]: the status in the home worker's RunRegistry, or Absent
  close,    \* close[p]: a finalize or a terminate in progress
  cleaned,  \* cleaned[r]: cleanup_session(r) was called
  faults, drops

vars == <<worker, sweep, row, log, home, spawn, task, hb, reg, close, cleaned,
          faults, drops>>

Calls == Responders \cup ApiCalls
Closers == Runs \cup Calls      \* the run task of r closes as r

-----------------------------------------------------------------------------
SpawnStates == {"idle", "created", "failIntent", "failStatus", "failEvent",
                "claimed", "spawned", "registered", "done", "dropped"}
TaskStates == {"none", "executing", "closing", "ended", "aborted"}
CloseSteps == {"route", "cancelIntent", "cancelStatus", "unowned", "intent",
               "status", "event", "release", "cleanup", "remove"}

NoRows == [r \in Runs |-> NoRow]     \* no reconcile in progress
Read(w, r) == sweep[w][r].status # Absent

Idle == [pc |-> "idle"]
Done == [pc |-> "done"]
Closing == [pc : CloseSteps, run : Runs, at : Workers,
            kind : {"finalize", "terminate"}, want : Hints,
            was : BOOLEAN, owned : BOOLEAN]
Active(p) == close[p].pc \notin {"idle", "done"}

Up == {w \in Workers : worker[w] = "up"}
Down == {w \in Workers : worker[w] = "down"}

\* One connection thread serves all store calls of a process, in order.
ConnFree(w) == worker[w] = "up" /\ sweep[w] = NoRows

Logged(r, kind) == log' = [log EXCEPT ![r] = Append(@, kind)]
Fault == faults < MaxFaults /\ faults' = faults + 1

Registered(r, w) == home[r] = w /\ reg[r] # Absent

\* JoinHandle::abort takes effect at the task's next await: there is none
\* between the end of cleanup_session and the end of the task.
Abortable(r) == \/ task[r] = "executing"
                \/ task[r] = "closing" /\ close[r].pc # "remove"
TaskAborted(r) == IF Abortable(r) THEN [task EXCEPT ![r] = "aborted"] ELSE task
CloseAborted(r) == IF Abortable(r) THEN [close EXCEPT ![r] = Done] ELSE close

Init ==
  /\ worker \in [Workers -> {"new", "up"}] /\ Cardinality(Up) = 1
  /\ sweep = [w \in Workers |-> NoRows]
  /\ row = [r \in Runs |-> NoRow]
  /\ log = [r \in Runs |-> <<>>]
  /\ home = [r \in Runs |-> NoWorker]
  /\ spawn = [r \in Runs |-> "idle"]
  /\ task = [r \in Runs |-> "none"]
  /\ hb = [r \in Runs |-> "none"]
  /\ reg = [r \in Runs |-> Absent]
  /\ close = [p \in Closers |-> Idle]
  /\ cleaned = [r \in Runs |-> FALSE]
  /\ faults = 0 /\ drops = 0

-----------------------------------------------------------------------------
(***************************************************************************)
(* spawn_managed_run_with_version                                          *)
(***************************************************************************)
\* create_run and the run.created event.
Create(r, w) ==
  /\ spawn[r] = "idle" /\ ConnFree(w)
  /\ row' = [row EXCEPT ![r] = CreateRun]
  /\ Logged(r, "created")
  /\ home' = [home EXCEPT ![r] = w]
  /\ spawn' = [spawn EXCEPT ![r] = "created"]
  /\ UNCHANGED <<worker, sweep, task, hb, reg, close, cleaned, faults, drops>>

\* build_managed_runtime fails: fail_managed_run_before_start, whose three
\* store calls are unconditional and ignore errors.
BuildFails(r) ==
  /\ spawn[r] = "created" /\ worker[home[r]] = "up"
  /\ spawn' = [spawn EXCEPT ![r] = "failIntent"]
  /\ UNCHANGED <<worker, sweep, row, log, home, task, hb, reg, close, cleaned,
                 faults, drops>>

FailIntent(r) ==
  /\ spawn[r] = "failIntent" /\ ConnFree(home[r])
  /\ \/ row' = [row EXCEPT ![r] = RecordRunTerminalIntent(@, "failed")]
        /\ UNCHANGED faults
     \/ Fault /\ UNCHANGED row
  /\ spawn' = [spawn EXCEPT ![r] = "failStatus"]
  /\ UNCHANGED <<worker, sweep, log, home, task, hb, reg, close, cleaned, drops>>

FailStatus(r) ==
  /\ spawn[r] = "failStatus" /\ ConnFree(home[r])
  /\ \/ row' = [row EXCEPT ![r] = UpdateRunStatus(@, "failed")]
        /\ UNCHANGED faults
     \/ Fault /\ UNCHANGED row
  /\ spawn' = [spawn EXCEPT ![r] = "failEvent"]
  /\ UNCHANGED <<worker, sweep, log, home, task, hb, reg, close, cleaned, drops>>

FailEvent(r) ==
  /\ spawn[r] = "failEvent" /\ ConnFree(home[r])
  /\ \/ Logged(r, "failed") /\ UNCHANGED faults
     \/ Fault /\ UNCHANGED log
  /\ spawn' = [spawn EXCEPT ![r] = "dropped"]
  /\ UNCHANGED <<worker, sweep, row, home, task, hb, reg, close, cleaned, drops>>

\* claim_run_ownership and, when it changed a row, run.ownership_claimed; no
\* row changed is a 409, an error a 500, and neither writes anything more.
Claim(r) ==
  /\ spawn[r] = "created" /\ ConnFree(home[r])
  /\ \/ /\ Claimable(row[r])
        /\ row' = [row EXCEPT ![r] = ClaimRunOwnership(@, home[r])]
        /\ Logged(r, "claimed")
        /\ spawn' = [spawn EXCEPT ![r] = "claimed"]
        /\ UNCHANGED faults
     \/ /\ ~Claimable(row[r])
        /\ spawn' = [spawn EXCEPT ![r] = "dropped"]
        /\ UNCHANGED <<row, log, faults>>
     \/ /\ Fault
        /\ spawn' = [spawn EXCEPT ![r] = "dropped"]
        /\ UNCHANGED <<row, log>>
  /\ UNCHANGED <<worker, sweep, home, task, hb, reg, close, cleaned, drops>>

\* The two tokio::spawns.
StartTasks(r) ==
  /\ spawn[r] = "claimed" /\ worker[home[r]] = "up"
  /\ task' = [task EXCEPT ![r] = "executing"]
  /\ hb' = [hb EXCEPT ![r] = "beating"]
  /\ spawn' = [spawn EXCEPT ![r] = "spawned"]
  /\ UNCHANGED <<worker, sweep, row, log, home, reg, close, cleaned, faults,
                 drops>>

\* register_owned follows without an await.
RegisterOwned(r) ==
  /\ spawn[r] = "spawned" /\ worker[home[r]] = "up"
  /\ reg' = [reg EXCEPT ![r] = "running"]
  /\ spawn' = [spawn EXCEPT ![r] = "registered"]
  /\ UNCHANGED <<worker, sweep, row, log, home, task, hb, close, cleaned, faults,
                 drops>>

RunStarted(r) ==
  /\ spawn[r] = "registered" /\ ConnFree(home[r])
  /\ \/ Logged(r, "started") /\ UNCHANGED faults
     \/ Fault /\ UNCHANGED log
  /\ spawn' = [spawn EXCEPT ![r] = "done"]
  /\ UNCHANGED <<worker, sweep, row, home, task, hb, reg, close, cleaned, drops>>

\* The client goes away and the server drops the handler's future, at an await.
DropSpawn(r) ==
  /\ spawn[r] \notin {"idle", "spawned", "done", "dropped"}
  /\ drops < MaxDrops /\ drops' = drops + 1
  /\ spawn' = [spawn EXCEPT ![r] = "dropped"]
  /\ UNCHANGED <<worker, sweep, row, log, home, task, hb, reg, close, cleaned,
                 faults>>

-----------------------------------------------------------------------------
(***************************************************************************)
(* The heartbeat task, and the clock that runs against it.                 *)
(***************************************************************************)
\* The loop ends on Ok(false) and on Err alike.
Heartbeat(r) ==
  /\ hb[r] = "beating" /\ ConnFree(home[r])
  /\ \/ /\ HeartbeatAccepted(row[r], home[r])
        /\ row' = [row EXCEPT ![r] = HeartbeatRunOwnership(@)]
        /\ UNCHANGED <<hb, faults>>
     \/ /\ ~HeartbeatAccepted(row[r], home[r])
        /\ hb' = [hb EXCEPT ![r] = "stopped"]
        /\ UNCHANGED <<row, faults>>
     \/ /\ Fault
        /\ hb' = [hb EXCEPT ![r] = "stopped"]
        /\ UNCHANGED row
  /\ UNCHANGED <<worker, sweep, log, home, spawn, task, reg, close, cleaned,
                 drops>>

\* Somebody in the home process is about to renew the lease or to end the run.
Attended(r) ==
  /\ worker[home[r]] = "up"
  /\ \/ hb[r] = "beating"
     \/ spawn[r] \in {"claimed", "spawned"}
     \/ \E p \in Closers : Active(p) /\ close[p].run = r /\ close[p].at = home[r]

\* 45 seconds without a renewal.  Prompt is the timing assumption the 10s
\* heartbeat is chosen for: what is attended is renewed or ended in time.
LeaseExpires(r) ==
  /\ row[r].lease = "live"
  /\ Prompt => ~Attended(r)
  /\ row' = [row EXCEPT ![r].lease = "expired"]
  /\ UNCHANGED <<worker, sweep, log, home, spawn, task, hb, reg, close, cleaned,
                 faults, drops>>

-----------------------------------------------------------------------------
(***************************************************************************)
(* finalize_managed_run and terminate_managed_run.  They differ in how they*)
(* begin and in the statuses they record an intent for.                    *)
(***************************************************************************)
RecordsIntent(c) ==
  IF c.kind = "finalize" THEN c.want \in {"completed", "failed"}
                         ELSE c.want \in {"cancelled", "failed", "timed_out"}

FirstWrite(c) == IF RecordsIntent(c) THEN "intent" ELSE "status"

\* update_status: a terminal entry stays; otherwise the heartbeat is aborted.
FinalizeRegistered(p, r, w, s) ==
  /\ Registered(r, w)
  /\ IF IsTerminal(reg[r]) /\ reg[r] # s
     THEN /\ close' = [close EXCEPT ![p] = Done]
          /\ task' = IF p = r THEN [task EXCEPT ![r] = "ended"] ELSE task
          /\ UNCHANGED <<reg, hb>>
     ELSE LET c == [pc |-> "intent", run |-> r, at |-> w, kind |-> "finalize",
                    want |-> s, was |-> IsTerminal(reg[r]), owned |-> TRUE]
          IN /\ close' = [close EXCEPT ![p] = [c EXCEPT !.pc = FirstWrite(c)]]
             /\ task' = IF p = r THEN [task EXCEPT ![r] = "closing"] ELSE task
             /\ reg' = [reg EXCEPT ![r] = s]
             /\ hb' = IF IsTerminal(reg[r]) THEN hb ELSE [hb EXCEPT ![r] = "stopped"]

\* No registry entry: run_is_terminal asks the store, and a run that is not
\* terminal there is written unconditionally.  A failed read counts as not
\* terminal.
FinalizeUnregistered(p, r, w, s) ==
  /\ ~Registered(r, w) /\ ConnFree(w)
  /\ IF IsTerminal(row[r].status)
     THEN /\ close' = [close EXCEPT ![p] = Done]
          /\ task' = IF p = r THEN [task EXCEPT ![r] = "ended"] ELSE task
     ELSE /\ close' = [close EXCEPT ![p] =
                [pc |-> "unowned", run |-> r, at |-> w, kind |-> "finalize",
                 want |-> s, was |-> FALSE, owned |-> FALSE]]
          /\ task' = IF p = r THEN [task EXCEPT ![r] = "closing"] ELSE task
  /\ UNCHANGED <<reg, hb>>

\* The agent's conversation returns; the run task finalizes.
AgentReturns(r, s) ==
  /\ task[r] = "executing"
  /\ Preemptive \/ spawn[r] # "spawned"
  /\ \/ FinalizeRegistered(r, r, home[r], s)
     \/ FinalizeUnregistered(r, r, home[r], s)
  /\ UNCHANGED <<worker, sweep, row, log, home, spawn, cleaned, faults, drops>>

\* A panic ends the run task alone: the registry entry and the heartbeat stay.
AgentPanics(r) ==
  /\ Panics /\ task[r] = "executing"
  /\ task' = [task EXCEPT ![r] = "aborted"]
  /\ UNCHANGED <<worker, sweep, row, log, home, spawn, hb, reg, close, cleaned,
                 faults, drops>>

\* terminate_run aborts both tasks and keeps a status that is already
\* terminal, which is then the one that is written.
TerminateRegistered(c, r, w, s) ==
  /\ Registered(r, w)
  /\ LET kept == IF IsTerminal(reg[r]) THEN reg[r] ELSE s
         k == [pc |-> "intent", run |-> r, at |-> w, kind |-> "terminate",
               want |-> kept, was |-> IsTerminal(reg[r]), owned |-> TRUE]
     IN /\ reg' = [reg EXCEPT ![r] = kept]
        /\ close' = [CloseAborted(r) EXCEPT ![c] = [k EXCEPT !.pc = FirstWrite(k)]]
  /\ task' = TaskAborted(r)
  /\ hb' = [hb EXCEPT ![r] = "stopped"]

TerminateUnregistered(c, r, w, s) ==
  /\ ~Registered(r, w) /\ ConnFree(w)
  /\ close' = [close EXCEPT ![c] =
       IF IsTerminal(row[r].status) THEN Done
       ELSE [pc |-> "unowned", run |-> r, at |-> w, kind |-> "terminate",
             want |-> s, was |-> FALSE, owned |-> FALSE]]
  /\ UNCHANGED <<task, hb, reg>>

\* handle_managed_oai_chat: the request times out, or a streaming client goes
\* away, while the outcome is still awaited.  One response handler per run.
Respond(c, r, s) ==
  /\ close[c] = Idle /\ spawn[r] = "done"
  /\ task[r] \in {"executing", "closing"}
  /\ \A d \in Responders : Active(d) => close[d].run # r
  /\ worker[home[r]] = "up"
  /\ \/ TerminateRegistered(c, r, home[r], s)
     \/ TerminateUnregistered(c, r, home[r], s)
  /\ UNCHANGED <<worker, sweep, row, log, home, spawn, cleaned, faults, drops>>

\* The termination after a disconnect runs inside the stream's timeout: the
\* timeout drops it and terminates again.
TimeoutOverDisconnect(c) ==
  /\ c \in Responders /\ Active(c) /\ close[c].pc # "remove"
  /\ close[c].want = "cancelled" /\ ~close[c].was
  /\ LET r == close[c].run  w == close[c].at
     IN \/ TerminateRegistered(c, r, w, "timed_out")
        \/ TerminateUnregistered(c, r, w, "timed_out")
  /\ UNCHANGED <<worker, sweep, row, log, home, spawn, cleaned, faults, drops>>

\* The non-streaming handler finds the outcome channel closed: it reads the
\* row and finalizes a run that has no terminal status yet as failed.
OutcomeDropped(c, r) ==
  /\ c \in Responders /\ close[c] = Idle /\ spawn[r] = "done"
  /\ task[r] = "aborted" /\ ConnFree(home[r])
  /\ \A d \in Responders : Active(d) => close[d].run # r
  /\ IF IsTerminal(row[r].status) /\ row[r].status # "completed"
     THEN close' = [close EXCEPT ![c] = Done] /\ UNCHANGED <<task, reg, hb>>
     ELSE \/ FinalizeRegistered(c, r, home[r], "failed")
          \/ FinalizeUnregistered(c, r, home[r], "failed")
  /\ UNCHANGED <<worker, sweep, row, log, home, spawn, cleaned, faults, drops>>

\* handle_managed_run_cancel reads the row first ...
CancelRead(c, r, w) ==
  /\ c \in ApiCalls /\ close[c] = Idle /\ ConnFree(w)
  /\ row[r].status # Absent
  /\ close' = [close EXCEPT ![c] =
       IF IsTerminal(row[r].status) THEN Done
       ELSE [pc |-> "route", run |-> r, at |-> w, kind |-> "terminate",
             want |-> "cancelled", was |-> FALSE, owned |-> FALSE]]
  /\ UNCHANGED <<worker, sweep, row, log, home, spawn, task, hb, reg, cleaned,
                 faults, drops>>

\* ... then, after it has loaded the summary, looks the run up in its own
\* registry: present, it terminates it; absent, it writes the row itself.
CancelRoute(c) ==
  /\ close[c].pc = "route" /\ worker[close[c].at] = "up"
  /\ LET r == close[c].run  w == close[c].at
     IN \/ TerminateRegistered(c, r, w, "cancelled")
        \/ /\ ~Registered(r, w)
           /\ close' = [close EXCEPT ![c].pc = "cancelIntent"]
           /\ UNCHANGED <<task, hb, reg>>
  /\ UNCHANGED <<worker, sweep, row, log, home, spawn, cleaned, faults, drops>>

CancelIntent(c) ==
  /\ close[c].pc = "cancelIntent" /\ ConnFree(close[c].at)
  /\ \/ /\ row' = [row EXCEPT ![close[c].run] = RecordRunTerminalIntent(@, "cancelled")]
        /\ close' = [close EXCEPT ![c].pc = "cancelStatus"]
        /\ UNCHANGED faults
     \/ Fault /\ close' = [close EXCEPT ![c] = Done] /\ UNCHANGED row
  /\ UNCHANGED <<worker, sweep, log, home, spawn, task, hb, reg, cleaned, drops>>

CancelStatus(c) ==
  /\ close[c].pc = "cancelStatus" /\ ConnFree(close[c].at)
  /\ \/ /\ row' = [row EXCEPT ![close[c].run] = UpdateRunStatus(@, "cancelled")]
        /\ UNCHANGED faults
     \/ Fault /\ UNCHANGED row
  /\ close' = [close EXCEPT ![c] = Done]
  /\ UNCHANGED <<worker, sweep, log, home, spawn, task, hb, reg, cleaned, drops>>

-----------------------------------------------------------------------------
\* RunRegistry::remove aborts what the entry owns; a task that removes its own
\* entry has no await left.
RemoveEntry(p, r, w) ==
  IF Registered(r, w)
  THEN /\ reg' = [reg EXCEPT ![r] = Absent]
       /\ hb' = [hb EXCEPT ![r] = "stopped"]
       /\ IF p = r THEN /\ task' = [task EXCEPT ![r] = "ended"]
                        /\ close' = [close EXCEPT ![p] = Done]
                   ELSE /\ task' = TaskAborted(r)
                        /\ close' = [CloseAborted(r) EXCEPT ![p] = Done]
  ELSE /\ close' = [close EXCEPT ![p] = Done]
       /\ task' = IF p = r THEN [task EXCEPT ![r] = "ended"] ELSE task
       /\ UNCHANGED <<reg, hb>>

Goto(p, pc) ==
  close' = [close EXCEPT ![p].pc = pc] /\ UNCHANGED <<task, hb, reg>>

\* record_run_terminal_intent_if_owned: an error is only logged, a failed
\* compare-and-set drops the registry entry and returns.
Intent(p) ==
  /\ close[p].pc = "intent" /\ ConnFree(close[p].at)
  /\ LET c == close[p]  r == c.run
     IN \/ /\ OwnedBy(row[r], c.at)
           /\ row' = [row EXCEPT ![r] = RecordRunTerminalIntent(@, c.want)]
           /\ Goto(p, "status") /\ UNCHANGED faults
        \/ /\ ~OwnedBy(row[r], c.at)
           /\ RemoveEntry(p, r, c.at)
           /\ UNCHANGED <<row, faults>>
        \/ Fault /\ Goto(p, "status") /\ UNCHANGED row
  /\ UNCHANGED <<worker, sweep, log, home, spawn, cleaned, drops>>

BadAfterStatus(c) == "cleanup"
\* After the status is stored: the event, unless the run was terminal before.
AfterStatus(c) == IF c.was THEN "cleanup" ELSE "event"

\* update_run_status_if_owned: an error returns and leaves the registry entry.
Status(p) ==
  /\ close[p].pc = "status" /\ close[p].owned /\ ConnFree(close[p].at)
  /\ LET c == close[p]  r == c.run
     IN \/ /\ OwnedBy(row[r], c.at)
           /\ row' = [row EXCEPT ![r] = UpdateRunStatus(@, c.want)]
           /\ Goto(p, AfterStatus(c)) /\ UNCHANGED faults
        \/ /\ ~OwnedBy(row[r], c.at)
           /\ RemoveEntry(p, r, c.at)
           /\ UNCHANGED <<row, faults>>
        \/ /\ Fault
           /\ close' = [close EXCEPT ![p] = Done]
           /\ task' = IF p = r THEN [task EXCEPT ![r] = "ended"] ELSE task
           /\ UNCHANGED <<row, hb, reg>>
  /\ UNCHANGED <<worker, sweep, log, home, spawn, cleaned, drops>>

\* The unowned branch: record_run_terminal_intent, then update_run_status,
\* both unconditional and with their errors ignored.
UnownedIntent(p) ==
  /\ close[p].pc = "unowned" /\ ConnFree(close[p].at)
  /\ LET c == close[p]
     IN \/ /\ row' = [row EXCEPT ![c.run] =
                        IF RecordsIntent(c) THEN RecordRunTerminalIntent(@, c.want) ELSE @]
           /\ UNCHANGED faults
        \/ Fault /\ UNCHANGED row
  /\ Goto(p, "status")
  /\ UNCHANGED <<worker, sweep, log, home, spawn, cleaned, drops>>

UnownedStatus(p) ==
  /\ close[p].pc = "status" /\ ~close[p].owned /\ ConnFree(close[p].at)
  /\ LET c == close[p]
     IN \/ row' = [row EXCEPT ![c.run] = UpdateRunStatus(@, c.want)] /\ UNCHANGED faults
        \/ Fault /\ UNCHANGED row
  /\ Goto(p, AfterStatus(close[p]))
  /\ UNCHANGED <<worker, sweep, log, home, spawn, cleaned, drops>>

\* append_terminal_run_event, then run.ownership_released when the run was owned.
TerminalEvent(p) ==
  /\ close[p].pc = "event" /\ ConnFree(close[p].at)
  /\ \/ Logged(close[p].run, close[p].want) /\ UNCHANGED faults
     \/ Fault /\ UNCHANGED log
  /\ Goto(p, IF close[p].owned THEN "release" ELSE "cleanup")
  /\ UNCHANGED <<worker, sweep, row, home, spawn, cleaned, drops>>

ReleaseEvent(p) ==
  /\ close[p].pc = "release" /\ ConnFree(close[p].at)
  /\ \/ Logged(close[p].run, "released") /\ UNCHANGED faults
     \/ Fault /\ UNCHANGED log
  /\ Goto(p, "cleanup")
  /\ UNCHANGED <<worker, sweep, row, home, spawn, cleaned, drops>>

BadCleanup(p) ==
  /\ close[p].pc = "cleanup" /\ worker[close[p].at] = "up"
  /\ cleaned' = [cleaned EXCEPT ![close[p].run] = TRUE]
  /\ close' = [close EXCEPT ![p] = Done]
  /\ task' = IF p \in Runs THEN [task EXCEPT ![p] = "ended"] ELSE task
  /\ UNCHANGED <<worker, sweep, row, log, home, spawn, hb, reg, faults, drops>>

\* session_cleanup::cleanup_session.
Cleanup(p) ==
  /\ close[p].pc = "cleanup" /\ worker[close[p].at] = "up"
  /\ cleaned' = [cleaned EXCEPT ![close[p].run] = TRUE]
  /\ Goto(p, "remove")
  /\ UNCHANGED <<worker, sweep, row, log, home, spawn, faults, drops>>

Remove(p) ==
  /\ close[p].pc = "remove" /\ worker[close[p].at] = "up"
  /\ RemoveEntry(p, close[p].run, close[p].at)
  /\ UNCHANGED <<worker, sweep, row, log, home, spawn, cleaned, faults, drops>>

\* A handler is dropped when its client goes away; a stream's is a task of its
\* own, and only a stream terminates as cancelled.
DropCall(c) ==
  /\ Active(c) /\ (c \in Responders => close[c].want # "cancelled")
  /\ drops < MaxDrops /\ drops' = drops + 1
  /\ close' = [close EXCEPT ![c] = Done]
  /\ UNCHANGED <<worker, sweep, row, log, home, spawn, task, hb, reg, cleaned,
                 faults>>

-----------------------------------------------------------------------------
(***************************************************************************)
(* reconcile_incomplete_runs, at startup and every 15 seconds: a SELECT,   *)
(* then one transaction that writes every row the SELECT returned.         *)
(***************************************************************************)
SweepSelect(w) ==
  /\ ConnFree(w)
  /\ \E r \in Runs : Reconcilable(row[r])
  /\ sweep' = [sweep EXCEPT ![w] =
                 [r \in Runs |-> IF Reconcilable(row[r]) THEN row[r] ELSE NoRow]]
  /\ UNCHANGED <<worker, row, log, home, spawn, task, hb, reg, close, cleaned,
                 faults, drops>>

ReconcileEvents(read) ==
  IF read.owner = NoWorker THEN <<ReconciledStatus(read)>>
  ELSE <<ReconciledStatus(read), "released">>

SweepCommit(w) ==
  /\ worker[w] = "up" /\ sweep[w] # NoRows
  /\ row' = [r \in Runs |-> IF Read(w, r) THEN ReconcileRun(row[r], sweep[w][r])
                                          ELSE row[r]]
  /\ log' = [r \in Runs |-> IF Read(w, r) THEN log[r] \o ReconcileEvents(sweep[w][r])
                                          ELSE log[r]]
  /\ sweep' = [sweep EXCEPT ![w] = NoRows]
  /\ UNCHANGED <<worker, home, spawn, task, hb, reg, close, cleaned, faults,
                 drops>>

\* The transaction fails and rolls back; the sweep logs and goes on.
SweepFails(w) ==
  /\ worker[w] = "up" /\ sweep[w] # NoRows /\ Fault
  /\ sweep' = [sweep EXCEPT ![w] = NoRows]
  /\ UNCHANGED <<worker, row, log, home, spawn, task, hb, reg, close, cleaned,
                 drops>>

-----------------------------------------------------------------------------
(***************************************************************************)
(* Gateways come and go.  A restarted gateway has a new worker id.         *)
(***************************************************************************)
StartWorker(w) ==
  /\ worker[w] = "new" /\ Cardinality(Up) < MaxUp
  /\ worker' = [worker EXCEPT ![w] = "up"]
  /\ UNCHANGED <<sweep, row, log, home, spawn, task, hb, reg, close, cleaned,
                 faults, drops>>

\* Everything in the memory of the process is gone.
Crash(w) ==
  /\ worker[w] = "up" /\ Cardinality(Down) < MaxCrashes
  /\ worker' = [worker EXCEPT ![w] = "down"]
  /\ sweep' = [sweep EXCEPT ![w] = NoRows]
  /\ spawn' = [r \in Runs |-> IF home[r] = w /\ spawn[r] # "done"
                              THEN "dropped" ELSE spawn[r]]
  /\ task' = [r \in Runs |-> IF home[r] = w /\ task[r] \in {"executing", "closing"}
                             THEN "aborted" ELSE task[r]]
  /\ hb' = [r \in Runs |-> IF home[r] = w /\ hb[r] = "beating" THEN "stopped" ELSE hb[r]]
  /\ reg' = [r \in Runs |-> IF home[r] = w THEN Absent ELSE reg[r]]
  /\ close' = [p \in Closers |-> IF Active(p) /\ close[p].at = w THEN Done ELSE close[p]]
  /\ UNCHANGED <<row, log, home, cleaned, faults, drops>>

-----------------------------------------------------------------------------
SpawnStep(r) == \/ BuildFails(r) \/ FailIntent(r) \/ FailStatus(r) \/ FailEvent(r)
                \/ Claim(r) \/ StartTasks(r) \/ RegisterOwned(r) \/ RunStarted(r)

CloseStep(p) == \/ Intent(p) \/ Status(p) \/ UnownedIntent(p) \/ UnownedStatus(p)
                \/ TerminalEvent(p) \/ ReleaseEvent(p) \/ Cleanup(p) \/ Remove(p)

CancelStep(c) == CancelRoute(c) \/ CancelIntent(c) \/ CancelStatus(c)

RunStep(r) == \/ \E w \in Workers : Create(r, w)
              \/ SpawnStep(r) \/ DropSpawn(r)
              \/ Heartbeat(r) \/ LeaseExpires(r)
              \/ \E s \in {"completed", "failed"} : AgentReturns(r, s)
              \/ AgentPanics(r)

CallStep(c) == \/ \E r \in Runs, s \in {"timed_out", "cancelled"} :
                    c \in Responders /\ Respond(c, r, s)
               \/ TimeoutOverDisconnect(c)
               \/ \E r \in Runs : OutcomeDropped(c, r)
               \/ \E r \in Runs, w \in Workers : CancelRead(c, r, w)
               \/ CancelStep(c) \/ DropCall(c)

WorkerStep(w) == \/ SweepSelect(w) \/ SweepCommit(w) \/ SweepFails(w)
                 \/ StartWorker(w) \/ Crash(w)

Next == \/ \E r \in Runs : RunStep(r)
        \/ \E c \in Calls : CallStep(c)
        \/ \E p \in Closers : CloseStep(p)
        \/ \E w \in Workers : WorkerStep(w)

Spec == Init /\ [][Next]_vars

(***************************************************************************)
(* The tokio runtime runs every task that can go on, an agent's            *)
(* conversation ends (its iterations are budgeted), the clock advances,    *)
(* every live gateway sweeps, and a gateway is started again.  Nothing is  *)
(* assumed of clients, of crashes or of failing store calls.               *)
(***************************************************************************)
Fairness ==
  /\ \A r \in Runs : /\ WF_vars(SpawnStep(r)) /\ WF_vars(LeaseExpires(r))
                     /\ WF_vars(\E s \in {"completed", "failed"} : AgentReturns(r, s))
  /\ \A c \in Calls : WF_vars(CancelStep(c))
  /\ \A p \in Closers : WF_vars(CloseStep(p))
  /\ \A w \in Workers : /\ WF_vars(SweepSelect(w)) /\ WF_vars(SweepCommit(w))
                        /\ WF_vars(StartWorker(w))

FairSpec == Spec /\ Fairness

-----------------------------------------------------------------------------
(***************************************************************************)
(* Properties.                                                             *)
(***************************************************************************)
EventKinds == {"created", "claimed", "started", "released"} \cup Terminal

\* Every variable stays in its set: among others, recovery never stores a
\* status that is not one, and a registry entry is never pending.
TypeOK ==
  /\ worker \in [Workers -> {"new", "up", "down"}]
  /\ sweep \in [Workers -> [Runs -> Row]]
  /\ row \in [Runs -> Row]
  /\ log \in [Runs -> Seq(EventKinds)]
  /\ home \in [Runs -> Workers \cup {NoWorker}]
  /\ spawn \in [Runs -> SpawnStates]
  /\ task \in [Runs -> TaskStates]
  /\ hb \in [Runs -> {"none", "beating", "stopped"}]
  /\ reg \in [Runs -> {Absent, "running"} \cup Hints]
  /\ close \in [Closers -> Closing \cup {Idle, Done}]
  /\ cleaned \in [Runs -> BOOLEAN]
  /\ faults \in 0..MaxFaults /\ drops \in 0..MaxDrops

Endings(r) == {i \in DOMAIN log[r] : IsTerminal(log[r][i])}   \* the terminal events
Started(r) == hb[r] # "none"      \* the run task and the heartbeat were spawned
Quiet(r) ==                       \* nobody is about to do anything more for r
  /\ spawn[r] \in {"done", "dropped"}
  /\ task[r] \in {"none", "ended", "aborted"}
  /\ \A p \in Closers : Active(p) => close[p].run # r

\* The owner columns are filled only on a running row, with a lease, and only
\* by the gateway that spawned the run: claim, terminal updates, recovery and
\* cancellation never leave an owner on a run that has ended, whichever of
\* them come between the steps of another.
OwnerIsHome ==
  \A r \in Runs : row[r].owner # NoWorker =>
    row[r].status = "running" /\ row[r].owner = home[r] /\ row[r].lease # "none"

\* The claim token fences: the terminal updates of finalize and terminate name
\* no status in their WHERE clause, and yet a row they change was running.
FencedWriter ==
  [][\A p \in Closers : Status(p) =>
       \A r \in Runs : row'[r] # row[r] => row[r].status = "running"]_vars

\* A run that was started is told to have ended at most once, and as what its
\* row says: whatever order finalize, terminate, recovery and a response
\* handler come in, no two of them append their terminal event, and none of
\* them an event that contradicts the status another has stored.
OneEnding ==
  \A r \in Runs : Started(r) =>
    \A i, j \in Endings(r) : i = j /\ row[r].status = log[r][i]

\* As long as no cancel request is at work (one writes whatever it wants),
\* whoever ends a run, with whatever crashes in between, ends it with the
\* status of the terminal intent that was recorded last.
HintHonoured ==
  [][\A r \in Runs :
       ((\A c \in ApiCalls : close[c] = Idle)
          /\ Incomplete(row[r]) /\ IsTerminal(row'[r].status) /\ row[r].hint # NoHint)
         => row'[r].status = row[r].hint]_vars

\* An agent never goes on with a run that has already been ended: no recovery,
\* and so no replay, while the conversation is still executing.
NoOrphanExecution ==
  \A r \in Runs : task[r] = "executing" => row[r].status = "running"

\* A run that was left to itself, whatever befell other runs and other
\* gateways, ends completely: when its task is over the row is terminal, the
\* event is stored, the session cleaned up and the registry entry gone, except
\* that a run which is over before register_owned is entered after its end.
Overtaken(r) ==
  \E i \in DOMAIN log[r] : log[r][i] = "started" /\ \E j \in Endings(r) : j < i
LeftToItself(r) ==
  /\ faults = 0 /\ worker[home[r]] = "up" /\ spawn[r] = "done"
  /\ \A c \in Calls : close[c] = Idle
EndsCompletely ==
  \A r \in Runs : Quiet(r) /\ LeftToItself(r) /\ task[r] = "ended" =>
    /\ IsTerminal(row[r].status) /\ Endings(r) # {}
    /\ cleaned[r] /\ (reg[r] = Absent \/ Overtaken(r))

\* Every accepted run ends, through crashes, failing store calls and dropped
\* handlers: what its own gateway does not end, a sweep ends.
EveryRunEnds ==
  \A r \in Runs : row[r].status = "pending" ~> IsTerminal(row[r].status)

\* The gateways implement the lifecycle a client is promised.
Lifecycle == INSTANCE RunLifecycle WITH
  state <- [r \in Runs |-> row[r].status],
  began <- [r \in Runs |-> \E i \in DOMAIN log[r] : log[r][i] = "claimed"]
ImplementsLifecycle == Lifecycle!Spec

----------------------------------------------------------------------------
(* Promises of the documents and tests that the code keeps in part: the    *)
(* README names, for each, the constants under which TLC finds it broken.  *)

\* A stored terminal status stays.  The one exception is a run whose runtime
\* cannot be built: fail_managed_run_before_start writes unconditionally.
StoredTerminalIsFinal ==
  [][\A r \in Runs : IsTerminal(row[r].status) /\ spawn[r] # "failStatus"
                       => row'[r].status = row[r].status]_vars

\* Recovery leaves a run alone whose lease is live when it writes.
LiveLeaseUntouched ==
  [][\A w \in Workers : SweepCommit(w) =>
       \A r \in Runs : Read(w, r) => row[r].lease # "live"]_vars

\* While a gateway executes a run that it owns, it renews the lease.
ActiveRunHeartbeats ==
  \A r \in Runs : task[r] = "executing" /\ row[r].owner = home[r]
                     => hb[r] = "beating"

\* A run that everybody has left and that has ended has its terminal event.
QuietRunHasEvent ==
  \A r \in Runs : Quiet(r) /\ IsTerminal(row[r].status) => Endings(r) # {}
=============================================================================
