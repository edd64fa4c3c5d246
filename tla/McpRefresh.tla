------------------------------ MODULE McpRefresh ------------------------------
(***************************************************************************)
(* How the tools of MCP servers get into the registry and stay up to date. *)
(* At the start the servers are listed one after the other, the registry   *)
(* is filled, and a task for each server waits for its list_changed        *)
(* notifications, which arrive on the server's output or, over HTTP, on a  *)
(* stream that may break.  A task that wakes lists its server again, puts  *)
(* the answer into the cache and replaces the whole toolset by what the    *)
(* cache then holds.                                                       *)
(***************************************************************************)
EXTENDS Naturals, FiniteSets

CONSTANTS Servers, Remote,  \* the servers, and those reached over HTTP
          Apart,            \* refreshes of different servers do not overlap
          MaxChanges, MaxFaults  \* bounds

VARIABLES tools,    \* the version of each server's list of tools
          stream,   \* "up", "down", "unsupported"
          inbox,    \* whether a notification is on its way
          signal,   \* refresh_tx: whether the task has not seen the last signal
          task,     \* "off", "listed", "ready", "wait", "list", "answered" or "built"
          got,      \* the answer of tools/list
          cache, snapshot, registry,
          missed,   \* changes that no task will learn of
          faults
rvars == <<tools, stream, inbox, signal, task, got, cache, snapshot, registry, missed, faults>>

Unlisted == 0
NoCache == [s \in Servers |-> Unlisted]
Listening == \A s \in Servers : task[s] \notin {"off", "listed", "ready"}
Busy(s) == task[s] \in {"list", "answered", "built"}
MayRefresh(s) == Apart => \A r \in Servers \ {s} : ~Busy(r)
Fault == faults < MaxFaults /\ faults' = faults + 1

Init ==
  /\ tools = [s \in Servers |-> 1]
  /\ stream = [s \in Servers |-> "up"] /\ inbox = [s \in Servers |-> FALSE]
  /\ signal = [s \in Servers |-> FALSE] /\ task = [s \in Servers |-> "off"]
  /\ got = NoCache /\ cache = NoCache /\ snapshot = [s \in Servers |-> NoCache]
  /\ registry = NoCache /\ missed = {} /\ faults = 0

----------------------------------------------------------------------------
(* populate_registry                                                       *)

\* McpRuntime::connect: a server that cannot be listed has no tools.
Connect(s) ==
  /\ task[s] = "off" /\ task' = [task EXCEPT ![s] = "listed"]
  /\ \/ cache' = [cache EXCEPT ![s] = tools[s]] /\ missed' = missed \ {s} /\ UNCHANGED faults
     \/ Fault /\ missed' = missed \cup {s} /\ UNCHANGED cache
  /\ UNCHANGED <<tools, stream, inbox, signal, got, snapshot, registry>>

Populate ==
  /\ \A s \in Servers : task[s] = "listed"
  /\ registry' = cache /\ task' = [s \in Servers |-> "ready"]
  /\ UNCHANGED <<tools, stream, inbox, signal, got, cache, snapshot, missed, faults>>

\* spawn_refresh_tasks: a new receiver has seen every signal before it.
Subscribe ==
  /\ \A s \in Servers : task[s] = "ready"
  /\ task' = [s \in Servers |-> "wait"]
  /\ UNCHANGED <<tools, stream, inbox, signal, got, cache, snapshot, registry, missed, faults>>

----------------------------------------------------------------------------
(* The servers and their notifications                                     *)

Change(s) ==
  /\ tools[s] <= MaxChanges
  /\ tools' = [tools EXCEPT ![s] = @ + 1]
  /\ IF stream[s] = "up" THEN inbox' = [inbox EXCEPT ![s] = TRUE] /\ UNCHANGED missed
     ELSE missed' = missed \cup {s} /\ UNCHANGED inbox
  /\ UNCHANGED <<stream, signal, task, got, cache, snapshot, registry, faults>>

\* emit_refresh_signal: nobody listens before the tasks are there.
Notify(s) ==
  /\ inbox[s] /\ inbox' = [inbox EXCEPT ![s] = FALSE]
  /\ IF Listening THEN signal' = [signal EXCEPT ![s] = TRUE] /\ UNCHANGED missed
     ELSE missed' = missed \cup {s} /\ UNCHANGED signal
  /\ UNCHANGED <<tools, stream, task, got, cache, snapshot, registry, faults>>

\* run_notification_stream: what a broken stream has not delivered is lost.
StreamBreaks(s) ==
  /\ s \in Remote /\ stream[s] = "up" /\ Fault
  /\ stream' = [stream EXCEPT ![s] = "down"]
  /\ inbox' = [inbox EXCEPT ![s] = FALSE]
  /\ missed' = IF inbox[s] THEN missed \cup {s} ELSE missed
  /\ UNCHANGED <<tools, signal, task, got, cache, snapshot, registry>>

\* After a second it is opened again, unless the server refuses for good.
StreamReopens(s) ==
  /\ stream[s] = "down"
  /\ \E answer \in {"up", "unsupported"} : stream' = [stream EXCEPT ![s] = answer]
  /\ UNCHANGED <<tools, inbox, signal, task, got, cache, snapshot, registry, missed, faults>>

----------------------------------------------------------------------------
(* A refresh task                                                          *)

BadSeenAt(pc) == pc = "built"
\* changed() marks the signal as seen when it returns.
SeenAt(pc) == pc = "wait"
See(s) == signal' = IF SeenAt(task[s]) THEN [signal EXCEPT ![s] = FALSE] ELSE signal
GoTo(s, pc) == task' = [task EXCEPT ![s] = pc]

Wake(s) ==
  /\ task[s] = "wait" /\ signal[s] /\ MayRefresh(s)
  /\ See(s) /\ GoTo(s, "list")
  /\ UNCHANGED <<tools, stream, inbox, got, cache, snapshot, registry, missed, faults>>

\* The server answers what its list is now, ...
ListTools(s) ==
  /\ task[s] = "list"
  /\ got' = [got EXCEPT ![s] = tools[s]] /\ GoTo(s, "answered")
  /\ missed' = missed \ {s}
  /\ UNCHANGED <<tools, stream, inbox, signal, cache, snapshot, registry, faults>>

\* ... or the call fails: the task waits for the next notification.
ListFails(s) ==
  /\ task[s] = "list" /\ Fault
  /\ See(s) /\ GoTo(s, "wait")
  /\ missed' = missed \cup {s}
  /\ UNCHANGED <<tools, stream, inbox, got, cache, snapshot, registry>>

\* refresh_server caches the answer; build_mcp_tools clones the cache.
Build(s) ==
  /\ task[s] = "answered"
  /\ cache' = [cache EXCEPT ![s] = got[s]]
  /\ snapshot' = [snapshot EXCEPT ![s] = cache'] /\ GoTo(s, "built")
  /\ UNCHANGED <<tools, stream, inbox, signal, got, registry, missed, faults>>

\* replace_toolset
Replace(s) ==
  /\ task[s] = "built"
  /\ registry' = snapshot[s]
  /\ See(s) /\ GoTo(s, "wait")
  /\ UNCHANGED <<tools, stream, inbox, got, cache, snapshot, missed, faults>>

RefreshStep(s) == Wake(s) \/ ListTools(s) \/ Build(s) \/ Replace(s)

Next ==
  \/ Populate \/ Subscribe
  \/ \E s \in Servers :
       \/ Connect(s) \/ Change(s) \/ Notify(s) \/ StreamBreaks(s) \/ StreamReopens(s)
       \/ RefreshStep(s) \/ ListFails(s)

\* The tasks of the runtime are scheduled, and calls return.
Fairness ==
  \A s \in Servers : WF_rvars(Notify(s)) /\ WF_rvars(RefreshStep(s))

Spec == Init /\ [][Next]_rvars /\ Fairness

----------------------------------------------------------------------------
(* Properties                                                              *)

\* Whatever the order of changes, notifications and refreshes: in the end
\* the registry offers the tools that each server has, unless the last
\* change was missed, that is announced while nobody listened or the stream
\* was down, or answered by a call that failed.
RegistryCatchesUp ==
  \A s \in Servers : <>[](Listening => registry[s] = tools[s] \/ s \in missed)
=============================================================================
