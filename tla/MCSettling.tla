----------------------------- MODULE MCSettling ------------------------------
(***************************************************************************)
(* What settles by itself, for TLC.  Between hermes-mcp and its servers:   *)
(* the calls over the pipes of a local server, the lists of tools that     *)
(* servers change.  In a gateway: the automatic replays of a tree of runs. *)
(* In a terminal: the sync of an agent's file with its versions, and the   *)
(* tasks an agent delegates.  They are specifications of their own: in a   *)
(* behaviour one of them, named by part, moves.                            *)
(***************************************************************************)
EXTENDS RunReplay

CONSTANTS w1, r1, c1, c2, c3  \* a gateway, a run and its replays

VARIABLES part,
          call, nextId, pending, lock, stdin, stdout, server, owes, reader, asks, drops,
          tools, stream, inbox, signal, refresh, got, cache, snapshot, registry, missed,
          refreshFaults,
          agent, versions, yaml, sync, asked, edits, requests, syncFaults,
          agentWaits, child, held, approval, given, tasks

Calls == INSTANCE McpClient WITH
  Callers <- {"a", "b"}, PipeSize <- 1, Independent <- TRUE,
  MaxCalls <- 3, MaxAsks <- 2, MaxDrops <- 1
Refresh == INSTANCE McpRefresh WITH
  Servers <- {"a", "b"}, Remote <- {"b"}, Apart <- TRUE, MaxChanges <- 2, MaxFaults <- 2,
  task <- refresh, faults <- refreshFaults
Versions == INSTANCE AgentVersions WITH
  Specs <- {"x", "y"}, Publishers <- {"api"}, MaxEdits <- 2, MaxAsked <- 2, MaxFaults <- 2,
  file <- yaml, asks <- requests, faults <- syncFaults
Agents == INSTANCE Delegation WITH
  Budget <- 2, Room <- 8, MaxText <- 2, MaxBatch <- 2, MaxTasks <- 2,
  parent <- agentWaits, asked <- approval

callVars == <<call, nextId, pending, lock, stdin, stdout, server, owes, reader, asks, drops>>
refreshVars == <<tools, stream, inbox, signal, refresh, got, cache, snapshot, registry, missed,
                 refreshFaults>>
versionVars == <<agent, versions, yaml, sync, asked, edits, requests, syncFaults>>
taskVars == <<agentWaits, child, held, approval, given, tasks>>
all == <<part, callVars, refreshVars, vars, versionVars, taskVars>>

ASSUME ReplayAssumption

SettlingInit ==
  /\ part \in {"calls", "refresh", "replay", "versions", "tasks"}
  /\ Calls!Init /\ Refresh!Init /\ Init /\ Versions!Init /\ Agents!Init
  /\ part # "versions" => yaml.spec = "x"

SettlingNext ==
  \/ /\ part = "calls" /\ Calls!Next
     /\ UNCHANGED <<part, refreshVars, vars, versionVars, taskVars>>
  \/ /\ part = "refresh" /\ Refresh!Next
     /\ UNCHANGED <<part, callVars, vars, versionVars, taskVars>>
  \/ /\ part = "replay" /\ Next
     /\ UNCHANGED <<part, callVars, refreshVars, versionVars, taskVars>>
  \/ /\ part = "versions" /\ Versions!Next
     /\ UNCHANGED <<part, callVars, refreshVars, vars, taskVars>>
  \/ /\ part = "tasks" /\ Agents!Next
     /\ UNCHANGED <<part, callVars, refreshVars, vars, versionVars>>

\* The fairness of each module, of the part that moves.
SettlingFairness ==
  /\ \A c \in {"a", "b"} :
       /\ WF_callVars(part = "calls" /\ Calls!TakeInput(c))
       /\ WF_callVars(part = "calls" /\ (Calls!Write(c) \/ Calls!WriteFails(c)))
       /\ WF_callVars(part = "calls" /\ Calls!Timeout(c))
  /\ WF_callVars(part = "calls" /\ Calls!ReaderTakesInput)
  /\ WF_callVars(part = "calls" /\ (Calls!Read \/ Calls!Reject \/ Calls!Eof))
  /\ WF_callVars(part = "calls" /\ Calls!Serve) /\ WF_callVars(part = "calls" /\ Calls!Send)
  /\ \A s \in {"a", "b"} :
       /\ WF_refreshVars(part = "refresh" /\ Refresh!Notify(s))
       /\ WF_refreshVars(part = "refresh" /\ Refresh!RefreshStep(s))
  /\ WF_vars(part = "replay" /\ SweepStep(w1))
  /\ WF_vars(part = "replay" /\ SpawnStep(w1))
  /\ \A r \in Runs :
       WF_vars(part = "replay" /\ ~Attended(r) /\ LeaseExpires(r))
  /\ WF_versionVars(part = "versions" /\ Versions!Sync)
  /\ WF_taskVars(part = "tasks" /\ Agents!ChildStep)
  /\ WF_taskVars(part = "tasks" /\ Agents!Answers)
  /\ WF_taskVars(part = "tasks" /\ Agents!Deny)

SettlingSpec == SettlingInit /\ [][SettlingNext]_all /\ SettlingFairness

CallsSettle ==
  /\ Calls!EveryCallReturns /\ Refresh!RegistryCatchesUp
  /\ part = "tasks" => Agents!ChildReturns
SafeRunsReplayed == part = "replay" => SafeRunIsReplayed
SyncConverges == part = "versions" => Versions!SyncConverges
=============================================================================
