--------------------------- MODULE SessionCleanup ---------------------------
(***************************************************************************)
(* What the tools of a managed run leave behind (process groups, background*)
(* processes, a browser, sessions on MCP servers), and who ends it.  Every *)
(* such resource has an entry in the memory of the gateway, and tasks of   *)
(* their own write a row for it into run_cleanup_resources and take it out *)
(* again.  Whoever ends the run cleans the entries; a sweep ends what the  *)
(* rows of ended runs name.                                                *)
(*                                                                         *)
(* The tools are exclusive: the agent makes one of these calls at a time.  *)
(* A resource may have several entries, one at a time but for a moment: an *)
(* MCP session is registered anew by every call that uses it.              *)
(***************************************************************************)
EXTENDS Naturals, FiniteSets

CONSTANTS Entries, Of,               \* entry ids, and the resource of each
          Foreground, Background,    \* the kinds of resources: processes
          Browsers, McpSessions,
          MaxEntries,                \* bound: entries of a history
          MaxFaults                  \* bound: failing calls, death of the gateway

VARIABLES agent,    \* what the task of the agent does, and with which entry
          doomed,   \* whether it has been aborted
          ender,    \* how far whoever ends the run has come
          run,      \* the status of the run in the store
          live,     \* the resources that exist
          seen,     \* those that did
          mem,      \* REGISTRY: the entries in memory
          ready,    \* BrowserSessions: the browsers that can be closed
          rows,     \* run_cleanup_resources
          tasks,    \* the spawned tasks that add and delete rows
          todo,     \* what cleanup_session has taken from the registry
          sweep,    \* the recovery sweep
          up,       \* the gateway has not died
          lost,     \* what a failure may have left to nobody
          faults
acting == <<agent, doomed, ender>>
stored == <<rows, tasks>>
world == <<live, seen, lost>>
vars == <<acting, run, world, mem, ready, stored, todo, sweep, up, faults>>

Resources == {Of[e] : e \in Entries}
EntriesOf(r) == {e \in Entries : Of[e] = r}
NoEntry == "none"
Idle == [at |-> "idle", entry |-> NoEntry]
At(pc) == agent.at = pc
Cur == Of[agent.entry]
GoTo(pc, e) == agent' = [at |-> pc, entry |-> e]
Fault == faults < MaxFaults /\ faults' = faults + 1
NoSweep == [rows |-> {}, hit |-> NoEntry]

\* An abort takes effect where the task waits next: at most one more step.
More == Cardinality(seen) < MaxEntries
Acts == agent.at # "dead" /\ doomed # "last" /\ doomed' = IF doomed = "asked" THEN "last" ELSE doomed

----------------------------------------------------------------------------
(* session_cleanup: entries, and the tasks that follow them.               *)

Enter(e) == /\ mem' = mem \cup {e} /\ tasks' = tasks \cup {<<"register", e>>}
\* unregister does nothing for an entry that a cleanup has taken.
Remove(es) == /\ mem' = mem \ es
              /\ tasks' = tasks \cup {<<"delete", e>> : e \in es \cap mem}

\* spawn_durable_cleanup_register looks whether the entry is still there, and
\* then writes the row.
StillRegistered(e) ==
  /\ <<"register", e>> \in tasks
  /\ tasks' = (tasks \ {<<"register", e>>}) \cup (IF e \in mem THEN {<<"put", e>>} ELSE {})
  /\ UNCHANGED <<acting, run, world, mem, ready, rows, todo, sweep, up, faults>>

\* upsert_run_cleanup_resource.
PutRow(e) ==
  /\ <<"put", e>> \in tasks /\ tasks' = tasks \ {<<"put", e>>}
  /\ \/ rows' = rows \cup {e} /\ UNCHANGED <<lost, faults>>
     \/ Fault /\ lost' = lost \cup {Of[e]} /\ UNCHANGED rows
  /\ UNCHANGED <<acting, run, live, seen, mem, ready, todo, sweep, up>>

\* spawn_durable_cleanup_unregister: delete_run_cleanup_resource.
DeleteRow(e) ==
  /\ <<"delete", e>> \in tasks /\ tasks' = tasks \ {<<"delete", e>>}
  /\ \/ rows' = rows \ {e} /\ UNCHANGED faults
     \/ Fault /\ UNCHANGED rows
  /\ UNCHANGED <<acting, run, world, mem, ready, todo, sweep, up>>

----------------------------------------------------------------------------
(* The tools.                                                              *)

Create(e) == /\ More /\ EntriesOf(Of[e]) \cap seen = {}
             /\ live' = live \cup {Of[e]} /\ seen' = seen \cup {e}
ToolRest == UNCHANGED <<ender, run, todo, sweep, up>>

\* terminal and execute_code: the process group is registered as it is spawned.
StartForeground(e) ==
  /\ At("idle") /\ Acts /\ up /\ Of[e] \in Foreground /\ Create(e) /\ Enter(e)
  /\ GoTo("wait", e) /\ UNCHANGED <<lost, ready, rows, faults>> /\ ToolRest

\* It ends, or its time is up and it is killed, or waiting for it fails.
AwaitForeground ==
  /\ At("wait") /\ Acts /\ GoTo("reap", agent.entry)
  /\ \/ live' = live \ {Cur} /\ UNCHANGED <<lost, faults>>
     \/ Fault /\ lost' = lost \cup {Cur} /\ UNCHANGED live
  /\ UNCHANGED <<seen, mem, ready, stored>> /\ ToolRest

\* Both tools unregister after the event is written; so does closing a browser.
Unregister ==
  /\ At("reap") /\ Acts /\ agent' = Idle /\ Remove({agent.entry})
  /\ ready' = ready \ {Cur}
  /\ UNCHANGED <<world, rows, faults>> /\ ToolRest

\* terminal, background: the event is written between spawn and registration.
StartBackground(e) ==
  /\ At("idle") /\ Acts /\ up /\ Of[e] \in Background /\ Create(e) /\ GoTo("started", e)
  /\ UNCHANGED <<lost, mem, ready, stored, faults>> /\ ToolRest

RegisterBackground ==
  /\ At("started") /\ Cur \in Background /\ Acts /\ Enter(agent.entry) /\ agent' = Idle
  /\ UNCHANGED <<world, ready, rows, faults>> /\ ToolRest

\* browser, session_for: registered before it is there to be closed.
Launch(e) == /\ Create(e) /\ Enter(e) /\ GoTo("started", e)
LaunchBrowser(e) ==
  /\ At("idle") /\ Acts /\ up /\ Of[e] \in Browsers /\ Launch(e)
  /\ UNCHANGED <<lost, ready, rows, faults>> /\ ToolRest

BrowserReady ==
  /\ At("started") /\ Cur \in Browsers /\ Acts /\ agent' = Idle /\ ready' = ready \cup {Cur}
  /\ UNCHANGED <<world, mem, stored, faults>> /\ ToolRest

\* close_session(.., true): a failure leaves the browser registered.
CloseBrowser(e) ==
  /\ At("idle") /\ Acts /\ Of[e] \in ready
  /\ \/ live' = live \ {Of[e]} /\ GoTo("reap", e) /\ UNCHANGED faults
     \/ Fault /\ UNCHANGED <<live, agent>>
  /\ UNCHANGED <<lost, seen, mem, ready, stored>> /\ ToolRest

\* close_browser_session_after_handler_exit: a browser that went by itself.
HandlerExit(e) ==
  /\ Of[e] \in ready \ live /\ e \in seen /\ up
  /\ ready' = ready \ {Of[e]} /\ Remove({e})
  /\ UNCHANGED <<acting, world, rows, faults>> /\ UNCHANGED <<run, todo, sweep, up>>

\* register_mcp_http_session_cleanup, after each call of the server's tools: the
\* new entry is there before the one it replaces is taken out.  A session that is
\* over is not called again: a new one has an id, and rows, of its own.
CallMcp(e) ==
  /\ At("idle") /\ Acts /\ up /\ Of[e] \in McpSessions /\ e \notin seen /\ More
  /\ EntriesOf(Of[e]) \cap seen # {} => Of[e] \in live
  /\ live' = live \cup {Of[e]} /\ seen' = seen \cup {e}
  /\ mem' = (mem \ EntriesOf(Of[e])) \cup {e}
  /\ tasks' = tasks \cup {<<"register", e>>}
                    \cup {<<"delete", f>> : f \in EntriesOf(Of[e]) \cap mem}
  /\ UNCHANGED <<agent, lost, ready, rows, faults>> /\ ToolRest

\* A process, a browser or a session may end by itself.
Vanish(r) ==
  /\ r \in live /\ live' = live \ {r}
  /\ UNCHANGED <<acting, run, seen, lost, mem, ready, stored, todo, sweep, up, faults>>

\* The aborted task is dropped where it waits.  A background process that is not
\* registered yet is forgotten; children are not killed.
AgentDies ==
  /\ doomed # "no" /\ ~At("dead") /\ GoTo("dead", NoEntry)
  /\ lost' = IF At("started") /\ Cur \in Background THEN lost \cup {Cur} ELSE lost
  /\ UNCHANGED <<doomed, ender, run, live, seen, mem, ready, stored, todo, sweep, up, faults>>

----------------------------------------------------------------------------
(* Whoever ends the run.                                                   *)

\* finalize_managed_run, after the agent has returned.
Finish == /\ At("idle") /\ doomed = "no" /\ ender = "none" /\ up
          /\ GoTo("dead", NoEntry) /\ ender' = "status"
          /\ UNCHANGED <<doomed, run, world, mem, ready, stored, todo, sweep, up, faults>>

\* terminate_managed_run: the task is aborted first.
Terminate == /\ ~At("dead") /\ doomed = "no" /\ ender = "none" /\ up
             /\ doomed' = "asked" /\ ender' = "status"
             /\ UNCHANGED <<agent, run, world, mem, ready, stored, todo, sweep, up, faults>>

\* A failing update, or an ending somebody else has written, is a return without
\* a cleanup.
EndStatus ==
  /\ ender = "status"
  /\ \/ run = "running" /\ run' = "ended" /\ ender' = "take" /\ UNCHANGED faults
     \/ run = "running" /\ Fault /\ ender' = "over" /\ UNCHANGED run
     \/ run = "ended" /\ ender' = "over" /\ UNCHANGED <<run, faults>>
  /\ UNCHANGED <<agent, doomed, world, mem, ready, stored, todo, sweep, up>>

\* cleanup_session takes all entries of the session at once.
TakeEntries ==
  /\ ender = "take" /\ todo' = mem /\ mem' = {} /\ ender' = "clean"
  /\ UNCHANGED <<agent, doomed, run, world, ready, stored, sweep, up, faults>>

\* What can be ended: a browser only when it is in the map.
Cleanable(e) == Of[e] \in Browsers => Of[e] \in ready

\* Known to a row that is there or on its way: a failure is repaired by a sweep.
InStore(e) == e \in rows \/ <<"put", e>> \in tasks
CleanEntry(e) ==
  /\ e \in todo /\ todo' = todo \ {e} /\ ready' = ready \ {Of[e]}
  /\ \/ /\ Cleanable(e) /\ live' = live \ {Of[e]}
        /\ tasks' = tasks \cup {<<"delete", e>>}
        /\ UNCHANGED <<lost, faults>>
     \/ /\ Cleanable(e) => Fault
        /\ ~Cleanable(e) => UNCHANGED faults
        /\ lost' = IF InStore(e) THEN lost ELSE lost \cup {Of[e]}
        /\ UNCHANGED <<live, tasks>>
  /\ UNCHANGED <<acting, run, seen, mem, rows, sweep, up>>

\* The sweep of another gateway, or of the next one, ends the run.
Reconcile ==
  /\ run = "running" /\ run' = "ended"
  /\ UNCHANGED <<acting, world, mem, ready, stored, todo, sweep, up, faults>>

\* The gateway dies with all it had in memory.
Crash ==
  /\ up /\ Fault /\ up' = FALSE
  /\ GoTo("dead", NoEntry) /\ ender' = "over" /\ mem' = {} /\ ready' = {} /\ tasks' = {}
  /\ todo' = {}
  /\ lost' = lost \cup {r \in live : EntriesOf(r) \cap rows = {}}
  /\ UNCHANGED <<doomed, run, live, seen, rows, sweep>>

----------------------------------------------------------------------------
(* reclaim_terminal_managed_cleanup_resources.                             *)

SweepRest == UNCHANGED <<acting, run, seen, lost, mem, ready, tasks, todo, up>>

\* list_terminal_run_cleanup_resources: the rows of ended runs only.
BadSwept == IF run = "ended" /\ ~up THEN rows ELSE {}
Swept == IF run = "ended" THEN rows ELSE {}
StartSweep == /\ sweep.rows = {} /\ Swept # {} /\ sweep' = [NoSweep EXCEPT !.rows = Swept]
              /\ UNCHANGED <<live, rows, faults>> /\ SweepRest

\* cleanup_persisted_resource; a failure leaves the row to the next sweep.
Reclaim(e) ==
  /\ e \in sweep.rows /\ sweep.hit = NoEntry
  /\ \/ sweep' = [sweep EXCEPT !.hit = e] /\ live' = live \ {Of[e]} /\ UNCHANGED faults
     \/ Fault /\ sweep' = [sweep EXCEPT !.rows = @ \ {e}] /\ UNCHANGED live
  /\ UNCHANGED rows /\ SweepRest

DropReclaimed(e) ==
  /\ sweep.hit = e /\ sweep' = [rows |-> sweep.rows \ {e}, hit |-> NoEntry]
  /\ \/ rows' = rows \ {e} /\ UNCHANGED faults
     \/ Fault /\ UNCHANGED rows
  /\ UNCHANGED live /\ SweepRest

----------------------------------------------------------------------------
Init ==
  /\ agent = Idle /\ doomed = "no" /\ ender = "none" /\ run = "running"
  /\ live = {} /\ seen = {} /\ mem = {} /\ ready = {} /\ rows = {} /\ tasks = {}
  /\ todo = {} /\ sweep = NoSweep /\ up = TRUE /\ lost = {} /\ faults = 0

Tool(e) == StartForeground(e) \/ StartBackground(e) \/ LaunchBrowser(e) \/ CloseBrowser(e)
           \/ CallMcp(e)
Agent == AwaitForeground \/ Unregister \/ RegisterBackground \/ BrowserReady
Task(e) == StillRegistered(e) \/ PutRow(e) \/ DeleteRow(e) \/ HandlerExit(e)
End == EndStatus \/ TakeEntries \/ \E e \in Entries : CleanEntry(e)
Sweep == StartSweep \/ \E e \in Entries : Reclaim(e) \/ DropReclaimed(e)
Next == \/ Agent \/ AgentDies \/ Finish \/ Terminate \/ End \/ Reconcile \/ Crash \/ Sweep
        \/ \E e \in Entries : Tool(e) \/ Task(e)
        \/ \E r \in Resources : Vanish(r)

\* Tasks run, the sweep recurs every 15 s, and an aborted task is dropped.
Fairness == /\ WF_vars(Agent) /\ WF_vars(AgentDies) /\ WF_vars(End) /\ WF_vars(Sweep)
            /\ WF_vars(\E e \in Entries : Task(e))
Spec == Init /\ [][Next]_vars /\ Fairness

----------------------------------------------------------------------------
\* After its end nothing of a run is left, neither a resource nor a row, however its
\* tasks overtook each other.
EndedRunLeavesNothing ==
  <>[](run = "ended" /\ At("dead") => rows = {} /\ live \subseteq lost)
=============================================================================
