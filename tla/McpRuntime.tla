----------------------------- MODULE McpRuntime -----------------------------
(***************************************************************************)
(* The runtimes that hermes-mcp keeps for MCP servers.  A runtime connects *)
(* the configured servers, spawning a process group for a stdio server and *)
(* opening a session on an HTTP one, and writes down each in state.db under*)
(* a worker lease.  A runtime that dies leaves them behind; the sweeps of  *)
(* the others find the rows whose owner has no lease, or one that is over, *)
(* end the resource and delete the row.                                    *)
(*                                                                         *)
(* Time is counted in heartbeat intervals and a lease is what remains of   *)
(* it.  Every runtime has a process of its own here.                       *)
(***************************************************************************)
EXTENDS Naturals, Sequences, FiniteSets, SequencesExt

CONSTANTS Workers,     \* runtimes: a worker id is never used twice
          Steady,      \* those that neither die nor are given up
          Stdio, Http, \* servers
          Configured,  \* the enabled servers in the configuration of each runtime
          Listing,     \* the servers with the tools capability
          LeaseTime,   \* MCP_RUNTIME_WORKER_LEASE_SECS, in intervals
          Batch,       \* MCP_RUNTIME_RECOVERY_BATCH_SIZE
          Punctual,    \* a live runtime renews its lease before it is over
          MaxFaults,   \* bound: failing calls and deaths
          NoLease

ASSUME McpRuntimeAssumption ==
  /\ Steady \subseteq Workers /\ Configured \in [Workers -> SUBSET (Stdio \cup Http)]
  /\ Stdio \cap Http = {} /\ Listing \subseteq Stdio \cup Http
  /\ LeaseTime \in Nat /\ LeaseTime > 1 /\ Batch \in Nat \ {0}
  /\ Punctual \in BOOLEAN /\ MaxFaults \in Nat /\ NoLease \notin Nat

Servers == Stdio \cup Http
Resources == Workers \X Servers

VARIABLES pc,       \* where a runtime stands
          durable,  \* it has a lease, and writes down what it opens
          conn,     \* how far the connection of a runtime to a server is
          res,      \* the process group, or the session on the server
          rows,     \* the manifests of state.db, oldest first
          lease,    \* mcp_runtime_workers: what remains of the lease
          beat,     \* the heartbeat is due
          pass,     \* the sweep a runtime is in
          tasks,    \* what a shutdown left to spawned tasks
          used,     \* somebody uses the registry the runtime was built for
          lost,     \* what the code cannot find again
          faults
owned == <<pc, durable, conn, used>>
timed == <<lease, beat>>
vars == <<owned, res, rows, timed, pass, tasks, lost, faults>>

NoPass == [stage |-> "none", listed |-> FALSE, todo |-> <<>>, hit |-> FALSE]
FirstPass == [NoPass EXCEPT !.stage = "stdio"]
Live == {"connect", "serve"}
Fault == faults < MaxFaults /\ faults' = faults + 1
Recorded(r) == r \in ToSet(rows)

----------------------------------------------------------------------------
(* McpRuntimeStore: the statements.                                        *)

UpsertLease(w) == lease' = [lease EXCEPT ![w] = LeaseTime]
DeleteLease(w) == lease' = [lease EXCEPT ![w] = NoLease]
InsertRow(r) == rows' = Append(rows, r)
PlaceOf(r) == CHOOSE i \in DOMAIN rows : rows[i] = r
DeleteRow(r) == rows' = IF Recorded(r) THEN RemoveAt(rows, PlaceOf(r)) ELSE rows

\* WHERE w.worker_id IS NULL OR w.lease_expires_at <= now.
BadStaleEarly(r) == lease[r[1]] = NoLease \/ lease[r[1]] <= 1
Stale(r) == lease[r[1]] = NoLease \/ lease[r[1]] = 0

\* ORDER BY created_at LIMIT: the list of the first places.
Oldest(P) ==
  LET n == IF Cardinality(P) < Batch THEN Cardinality(P) ELSE Batch
  IN  {l \in [1..n -> P] : /\ \A i, j \in 1..n : i < j => l[i] < l[j]
                          /\ \A p \in P : (\E i \in 1..n : l[i] = p) \/ \A i \in 1..n : l[i] < p}
StalePlaces(kind) == {i \in DOMAIN rows :
                        Stale(rows[i]) /\ rows[i][2] \in (IF kind = "stdio" THEN Stdio ELSE Http)}
StaleRows(kind) == {[i \in DOMAIN l |-> rows[l[i]]] : l \in Oldest(StalePlaces(kind))}

----------------------------------------------------------------------------
(* The sweeps, at startup and after every heartbeat: the stale stdio rows, *)
(* then the stale HTTP ones.                                               *)

SweepRest == UNCHANGED <<owned, timed, tasks, lost>>
NextStage(w) == pass' = [pass EXCEPT ![w] = IF @.stage = "stdio"
                  THEN [NoPass EXCEPT !.stage = "http"] ELSE NoPass]
Leave(w) == pass' = [pass EXCEPT ![w].todo = Tail(@), ![w].hit = FALSE]

\* list_stale_*_runtime_manifests; when it fails the sweep of that kind is over.
ListStale(w) ==
  /\ pass[w].stage # "none" /\ ~pass[w].listed
  /\ \/ \E l \in StaleRows(pass[w].stage) : pass' = [pass EXCEPT ![w].listed = TRUE, ![w].todo = l]
        /\ UNCHANGED faults
     \/ Fault /\ NextStage(w)
  /\ UNCHANGED <<res, rows>> /\ SweepRest

\* runtime_http_recovery_configs: a session is deleted by its server's name.
Reachable(w, s) == s \in Stdio \cup Configured[w]

\* kill_stdio_process_group, cleanup_http_session: a failure leaves the row, and so
\* does a server that is not configured here.
EndStale(w) ==
  LET r == Head(pass[w].todo)
  IN /\ pass[w].todo # <<>> /\ ~pass[w].hit
     /\ \/ /\ Reachable(w, r[2]) /\ pass' = [pass EXCEPT ![w].hit = TRUE]
           /\ res' = [res EXCEPT ![r] = IF @ = "live" THEN "gone" ELSE @]
           /\ UNCHANGED faults
        \/ /\ Reachable(w, r[2]) => Fault
           /\ ~Reachable(w, r[2]) => UNCHANGED faults
           /\ Leave(w) /\ UNCHANGED res
     /\ UNCHANGED rows /\ SweepRest

\* A row is deleted only after what it names has been ended.
Struck(w) == pass[w].hit
DropStale(w) ==
  /\ pass[w].todo # <<>> /\ Struck(w)
  /\ \/ DeleteRow(Head(pass[w].todo)) /\ UNCHANGED faults
     \/ Fault /\ UNCHANGED rows
  /\ Leave(w) /\ UNCHANGED res /\ SweepRest

EndStage(w) == /\ pass[w].listed /\ pass[w].todo = <<>>
               /\ NextStage(w) /\ UNCHANGED <<res, rows, faults>> /\ SweepRest

Sweep(w) == ListStale(w) \/ EndStale(w) \/ DropStale(w) \/ EndStage(w)

----------------------------------------------------------------------------
(* populate_registry_with_options: sweep, register the lease, connect one  *)
(* server after the other, and only then start the heartbeat.              *)

Start(w) ==
  /\ pc[w] = "new" /\ pc' = [pc EXCEPT ![w] = "sweep"]
  /\ pass' = [pass EXCEPT ![w] = FirstPass]
  /\ used' = [used EXCEPT ![w] = TRUE]
  /\ UNCHANGED <<durable, conn, res, rows, timed, tasks, lost, faults>>

\* build_mcp_runtime_persistence: without the lease nothing is written down.
Register(w) ==
  /\ pc[w] = "sweep" /\ pass[w].stage = "none"
  /\ pc' = [pc EXCEPT ![w] = "connect"]
  /\ \/ UpsertLease(w) /\ durable' = [durable EXCEPT ![w] = TRUE] /\ UNCHANGED faults
     \/ Fault /\ UNCHANGED <<lease, durable>>
  /\ UNCHANGED <<conn, used, res, rows, beat, pass, tasks, lost>>

\* spawn, or the initialize request.  The answer of the latter may be lost.
Open(w, s) ==
  /\ pc[w] = "connect" /\ s \in Configured[w] /\ conn[w, s] = "no"
  /\ \A t \in Servers : conn[w, t] \notin {"open", "named"}
  /\ \/ /\ res' = [res EXCEPT ![<<w, s>>] = "live"]
        /\ conn' = [conn EXCEPT ![<<w, s>>] = "open"]
        /\ lost' = IF durable[w] THEN lost ELSE lost \cup {<<w, s>>}
        /\ UNCHANGED faults
     \/ Fault /\ conn' = [conn EXCEPT ![<<w, s>>] = "off"]
        /\ \/ UNCHANGED <<res, lost>>
           \/ /\ s \in Http /\ res' = [res EXCEPT ![<<w, s>>] = "live"]
              /\ lost' = lost \cup {<<w, s>>}
  /\ UNCHANGED <<pc, durable, used, rows, timed, pass, tasks>>

\* persist_*_runtime_manifest: a failure is only logged.
Record(w, s) ==
  /\ conn[w, s] = "open" /\ pc[w] = "connect"
  /\ conn' = [conn EXCEPT ![<<w, s>>] = "named"]
  /\ \/ /\ IF durable[w] THEN InsertRow(<<w, s>>) ELSE UNCHANGED rows
        /\ UNCHANGED <<faults, lost>>
     \/ durable[w] /\ Fault /\ lost' = lost \cup {<<w, s>>} /\ UNCHANGED rows
  /\ UNCHANGED <<pc, durable, used, res, timed, pass, tasks>>

\* The rest of initialize.  When it fails the stdio client is shut down; the
\* HTTP one is dropped, and its session stays with its row.
Settle(w, s) ==
  /\ conn[w, s] = "named" /\ pc[w] = "connect"
  /\ \/ conn' = [conn EXCEPT ![<<w, s>>] = "kept"] /\ UNCHANGED <<res, tasks, faults>>
     \/ /\ Fault /\ conn' = [conn EXCEPT ![<<w, s>>] = "off"]
        /\ IF s \in Stdio
           THEN /\ res' = [res EXCEPT ![<<w, s>>] = "gone"]
                /\ tasks' = IF Recorded(<<w, s>>) THEN tasks \cup {<<"row", w, s>>} ELSE tasks
           ELSE UNCHANGED <<res, tasks>>
  /\ UNCHANGED <<pc, durable, used, rows, timed, pass, lost>>

\* set_toolset_owner: McpRuntimeOwner::new starts the background tasks.
Serve(w) ==
  /\ pc[w] = "connect" /\ \A s \in Configured[w] : conn[w, s] \in {"kept", "off"}
  /\ pc' = [pc EXCEPT ![w] = "serve"] /\ beat' = [beat EXCEPT ![w] = FALSE]
  /\ UNCHANGED <<durable, conn, used, res, rows, lease, pass, tasks, lost, faults>>

BadRenewOnly(w) ==
  /\ pc[w] = "serve" /\ durable[w] /\ beat[w] /\ pass[w].stage = "none"
  /\ beat' = [beat EXCEPT ![w] = FALSE] /\ UNCHANGED pass
  /\ \/ UpsertLease(w) /\ UNCHANGED faults
     \/ Fault /\ (Punctual => lease[w] > 2) /\ UNCHANGED lease
  /\ UNCHANGED <<owned, res, rows, tasks, lost>>
\* One round of the heartbeat task.  A failed renewal does not stop it.
Renew(w) ==
  /\ pc[w] = "serve" /\ durable[w] /\ beat[w] /\ pass[w].stage = "none"
  /\ beat' = [beat EXCEPT ![w] = FALSE] /\ pass' = [pass EXCEPT ![w] = FirstPass]
  /\ \/ UpsertLease(w) /\ UNCHANGED faults
     \/ Fault /\ (Punctual => lease[w] > 2) /\ UNCHANGED lease
  /\ UNCHANGED <<owned, res, rows, tasks, lost>>

----------------------------------------------------------------------------
(* The end of a runtime.                                                   *)

\* Arc<ToolRegistry> is held by its users and by each refresh task, which the
\* owner kept in that registry would abort when it is dropped.
RefreshTasks(w) == {s \in Listing : conn[w, s] = "kept"}

Over(w) == /\ pc' = [pc EXCEPT ![w] = "over"]
           /\ pass' = [pass EXCEPT ![w] = NoPass]

\* Drop of McpRuntimeOwner and McpRuntimeLeaseOwner: process groups are killed
\* at once, the rest is left to spawned tasks.
Shutdown(w) ==
  LET kept == {s \in Servers : conn[w, s] = "kept"}
  IN /\ res' = [r \in Resources |-> IF r[1] = w /\ r[2] \in kept \cap Stdio
                                    THEN "gone" ELSE res[r]]
     /\ tasks' = tasks \cup {<<"row", w, s>> : s \in {t \in kept \cap Stdio : Recorded(<<w, t>>)}}
                       \cup {<<"session", w, s>> : s \in kept \cap Http}
                       \cup IF durable[w] THEN {<<"lease", w>>} ELSE {}
     /\ Over(w)

\* The last user of the registry lets it go.
Release(w) ==
  /\ pc[w] = "serve" /\ used[w] /\ w \notin Steady
  /\ used' = [used EXCEPT ![w] = FALSE]
  /\ IF RefreshTasks(w) = {} THEN Shutdown(w) ELSE UNCHANGED <<res, tasks, pc, pass>>
  /\ UNCHANGED <<durable, conn, rows, timed, lost, faults>>

\* The caller of populate_registry_with_options is dropped while it waits:
\* child processes are killed on drop, sessions and the lease stay.
Abandon(w) ==
  /\ pc[w] = "connect" /\ w \notin Steady /\ Fault
  /\ Over(w) /\ used' = [used EXCEPT ![w] = FALSE]
  /\ res' = [r \in Resources |-> IF r[1] = w /\ r[2] \in Stdio /\ res[r] = "live"
                                 THEN "gone" ELSE res[r]]
  /\ lost' = lost \cup {<<w, s>> : s \in {t \in Http : conn[w, t] = "open"}}
  /\ UNCHANGED <<durable, conn, rows, timed, tasks>>

\* The process dies, with the tasks it had spawned.
Crash(w) ==
  /\ w \notin Steady /\ pc[w] # "new" /\ Fault
  /\ pc[w] # "over" \/ \E t \in tasks : t[2] = w
  /\ Over(w) /\ used' = [used EXCEPT ![w] = FALSE]
  /\ tasks' = {t \in tasks : t[2] # w}
  /\ lost' = lost \cup {r \in Resources : r[1] = w /\ conn[r] = "open"}
  /\ UNCHANGED <<durable, conn, res, rows, timed>>

\* The tasks a shutdown spawned.  A session whose DELETE fails loses its row all
\* the same.
LeaseTask(w) ==
  /\ <<"lease", w>> \in tasks /\ tasks' = tasks \ {<<"lease", w>>}
  /\ \/ DeleteLease(w) /\ UNCHANGED faults
     \/ Fault /\ UNCHANGED lease
  /\ UNCHANGED <<owned, res, rows, beat, pass, lost>>

RowTask(w, s) ==
  /\ <<"row", w, s>> \in tasks /\ tasks' = tasks \ {<<"row", w, s>>}
  /\ \/ DeleteRow(<<w, s>>) /\ UNCHANGED faults
     \/ Fault /\ UNCHANGED rows
  /\ UNCHANGED <<owned, res, timed, pass, lost>>

SessionTask(w, s) ==
  /\ <<"session", w, s>> \in tasks
  /\ tasks' = (tasks \ {<<"session", w, s>>})
              \cup IF Recorded(<<w, s>>) THEN {<<"row", w, s>>} ELSE {}
  /\ \/ res' = [res EXCEPT ![<<w, s>>] = "gone"] /\ UNCHANGED <<lost, faults>>
     \/ Fault /\ lost' = lost \cup {<<w, s>>} /\ UNCHANGED res
  /\ UNCHANGED <<owned, rows, timed, pass>>

\* What Punctual assumes: the servers are connected while the lease is fresh and a
\* due renewal is not overtaken by the next interval.
InTime(w) == /\ pc[w] = "connect" => lease[w] > 2
             /\ pc[w] = "serve" => lease[w] > 1

\* An interval goes by.
Tick ==
  /\ Punctual => \A w \in Workers : durable[w] => InTime(w)
  /\ lease' = [w \in Workers |-> IF lease[w] \in {NoLease, 0} THEN lease[w] ELSE lease[w] - 1]
  /\ beat' = [w \in Workers |-> pc[w] = "serve" /\ durable[w]]
  /\ UNCHANGED <<owned, res, rows, pass, tasks, lost, faults>>

----------------------------------------------------------------------------
Init ==
  /\ pc = [w \in Workers |-> "new"] /\ durable = [w \in Workers |-> FALSE]
  /\ conn = [r \in Resources |-> "no"] /\ res = [r \in Resources |-> "none"]
  /\ rows = <<>> /\ lease = [w \in Workers |-> NoLease]
  /\ beat = [w \in Workers |-> FALSE] /\ pass = [w \in Workers |-> NoPass]
  /\ tasks = {} /\ used = [w \in Workers |-> FALSE] /\ lost = {} /\ faults = 0

Connect(w) == \E s \in Servers : Open(w, s) \/ Record(w, s) \/ Settle(w, s)
Task(w) == LeaseTask(w) \/ \E s \in Servers : RowTask(w, s) \/ SessionTask(w, s)
Step(w) == \/ Register(w) \/ Connect(w) \/ Serve(w) \/ Renew(w) \/ Sweep(w) \/ Task(w)
Next == \/ Tick
        \/ \E w \in Workers : Start(w) \/ Step(w) \/ Release(w) \/ Abandon(w) \/ Crash(w)

\* Timers fire, and a task that can run runs.
Fairness == /\ WF_vars(Tick) /\ \A w \in Workers : WF_vars(Step(w))
            /\ \A w \in Steady : WF_vars(Start(w))
Spec == Init /\ [][Next]_vars /\ Fairness

----------------------------------------------------------------------------
\* What a live runtime has opened is ended by nobody else, as long as it renews
\* its lease in time: the lease is there before the first server is connected,
\* and is gone only after the runtime.
LiveIsLeft ==
  [][\A r \in Resources : /\ res[r] = "live" /\ res'[r] = "gone"
                          /\ pc'[r[1]] \in Live /\ durable[r[1]]
                          => conn'[r] = "off"]_vars

\* A manifest row is the last thing that goes: while the process group or the
\* session is there its row is, but for a session whose DELETE failed at shutdown.
RowGoesLast ==
  [][\A r \in Resources : Recorded(r) /\ res[r] = "live" /\ r \notin lost'
                          => Recorded(r)' \/ res'[r] = "gone"]_vars

\* The sweeps end neither too much nor too little.
SweepsAreSafe == LiveIsLeft /\ RowGoesLast

\* What a dead runtime left written down is ended by a sweep of a live one that
\* knows the server.
OrphansReclaimed ==
  \A r \in (Workers \ Steady) \X Servers :
    /\ pc[r[1]] = "over" /\ res[r] = "live"
    /\ \E v \in Steady : durable[v] /\ Reachable(v, r[2])
    ~> res[r] = "gone" \/ r \in lost

\* "so any background runtime state lives as long as registries exposing that
\* toolset" (set_toolset_owner, registry.rs): not longer either.
EndsWithRegistry == \A w \in Workers : pc[w] = "serve" => used[w]
=============================================================================
