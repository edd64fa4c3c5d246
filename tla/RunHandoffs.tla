----------------------------- MODULE RunHandoffs ------------------------------
(***************************************************************************)
(* The milestones by which an interrupted run is judged.  Processes and    *)
(* browser actions announce themselves as stream deltas, which a relay     *)
(* task writes to the run's events; calls of MCP tools are written by an   *)
(* observer of the tool executor; what a result says of the browser        *)
(* session and of the MCP runtime is written when the result is stored;    *)
(* and a continuation checkpoint closes every batch of results.  When the  *)
(* process is gone the summary of these events decides whether the run is  *)
(* replayed, that is whether the calls without a stored result are         *)
(* executed again by a process that has no session of the old one.         *)
(*                                                                         *)
(* Of the events the store keeps what the summary reads: of each family    *)
(* the latest, and whether it is younger than the latest checkpoint.       *)
(***************************************************************************)
EXTENDS Naturals, Sequences, FiniteSets

CONSTANTS MaxBatch, MaxBatches, MaxCrashes, RelayCap,  \* bounds
          Mixed,        \* may a batch hold several browser or MCP calls?
          RelayKeepsUp  \* are deltas stored before a checkpoint or a crash?

VARIABLES pc,         \* "model", "tools", "save", "down" or "review"
          batch,      \* the calls of the last assistant message, without result
          phase,      \* how far each call is
          failed,     \* the calls that answered an error
          acts,       \* how often each call has had its effect
          relay,      \* the deltas on their way to the store
          last,       \* the latest milestone of each family
          sessionCp,  \* the latest run.browser_session_checkpoint
          runtimeCp,  \* the latest run.mcp_runtime_checkpoint
          pending,    \* checkpoints that wait for their result to be stored
          seen,       \* the observer's ManagedMcpRuntimeState
          session,    \* a browser session is open
          subscribed, \* an MCP server holds a subscription of this process
          believes,   \* what the stored results say of both
          saved,      \* how many results of the batch are stored
          batches, crashes
agentVars == <<batch, phase, failed, acts>>
storeVars == <<last, sessionCp, runtimeCp, believes, saved>>
worldVars == <<session, subscribed>>
hvars == <<pc, agentVars, relay, storeVars, pending, seen, worldVars, batches, crashes>>

Process == {"terminal"}
Browser == {"click", "snapshot", "close"}
Mcp == {"mcp_call", "resource_read", "subscribe", "unsubscribe"}
Family(t) == IF t \in Process THEN "process" ELSE IF t \in Browser THEN "browser" ELSE "mcp"
Families == {"process", "browser", "mcp"}

\* Executed twice these act twice.
Effects == {"terminal", "click", "mcp_call", "subscribe", "unsubscribe"}

NoMilestone == [tool |-> "none", young |-> FALSE]
Milestone(t) == [tool |-> t, young |-> TRUE]
NoNews == [about |-> "nothing", live |-> FALSE]
Calls == 1..MaxBatch

Init ==
  /\ pc = "model" /\ batch = <<>> /\ relay = <<>>
  /\ phase = [i \in Calls |-> "todo"] /\ failed = {} /\ acts = [i \in Calls |-> 0]
  /\ last = [f \in Families |-> NoMilestone]
  /\ sessionCp = FALSE /\ runtimeCp = FALSE
  /\ pending = [i \in Calls |-> NoNews]
  /\ seen = [active |-> FALSE, unresolved |-> FALSE]
  /\ session = FALSE /\ subscribed = FALSE
  /\ believes = [session |-> FALSE, subscribed |-> FALSE]
  /\ saved = 0 /\ batches = 0 /\ crashes = 0

----------------------------------------------------------------------------
(* What the summary of the run says of it.                                 *)

\* The milestones that a checkpoint has not closed.
Unresolved(f) == last[f].young

\* classify_mcp_replay and mcp_replay_disposition: reading is safe.
McpRisk == Unresolved("mcp") /\ last["mcp"].tool # "resource_read"

\* A session is needed for every action but to close it.
BadBrowserRisk == FALSE
BrowserRisk == Unresolved("browser") /\ last["browser"].tool # "close"

\* build_managed_takeover_assessment, and the first reason not to replay.
Verdict == IF \/ Unresolved("process") \/ BrowserRisk \/ sessionCp
              \/ McpRisk \/ runtimeCp
           THEN "review" ELSE "replay"

----------------------------------------------------------------------------
(* The tools                                                               *)

\* Only a batch without terminal and browser calls is executed in parallel.
Parallel == \A i \in DOMAIN batch : batch[i] \in Mcp
Before(i) == \A j \in 1..(i - 1) : phase[j] \in {"answered", "stored"}
CanStep(i, p) == /\ pc = "tools" /\ i \in DOMAIN batch /\ phase[i] = p
                 /\ Parallel \/ Before(i)

\* emit_process_event and emit_browser_action_event: a full channel blocks.
Emit(i) == Len(relay) < RelayCap /\ relay' = Append(relay, batch[i])
Advance(i, p) == phase' = [phase EXCEPT ![i] = p]
Acted(i) == acts' = [acts EXCEPT ![i] = IF batch[i] \in Effects THEN @ + 1 ELSE @]

\* The terminal's child is spawned first and announced then.
Spawn(i) ==
  /\ CanStep(i, "todo") /\ batch[i] \in Process
  /\ Acted(i) /\ Advance(i, "spawned")
  /\ UNCHANGED <<pc, batch, failed, relay, storeVars, pending, seen, worldVars, batches, crashes>>

AnnounceProcess(i) ==
  /\ CanStep(i, "spawned")
  /\ Emit(i) /\ Advance(i, "acted")
  /\ UNCHANGED <<pc, batch, failed, acts, storeVars, pending, seen, worldVars, batches, crashes>>

\* Completed, failed and timed out are told apart in the event only.
ProcessEnds(i) ==
  /\ CanStep(i, "acted") /\ batch[i] \in Process
  /\ Emit(i) /\ Advance(i, "answered")
  /\ UNCHANGED <<pc, batch, failed, acts, storeVars, pending, seen, worldVars, batches, crashes>>

\* execute_action: every action but close launches a session that is missing.
AnnounceAction(i) ==
  /\ CanStep(i, "todo") /\ batch[i] \in Browser
  /\ session' = (session \/ batch[i] # "close")
  /\ Emit(i) /\ Advance(i, "announced")
  /\ UNCHANGED <<pc, batch, failed, acts, storeVars, pending, seen, subscribed, batches, crashes>>

LaunchFails(i) ==
  /\ CanStep(i, "todo") /\ batch[i] \in Browser \ {"close"} /\ ~session
  /\ failed' = failed \cup {i} /\ Advance(i, "answered")
  /\ UNCHANGED <<pc, batch, acts, relay, storeVars, pending, seen, worldVars, batches, crashes>>

\* The action, and what browser_session_checkpoint_from_tool_result makes of
\* its result: a session is open unless close found one to close.
Act(i) ==
  /\ CanStep(i, "announced")
  /\ Acted(i) /\ Advance(i, "acted")
  /\ \E fails \in BOOLEAN :
       IF fails THEN /\ failed' = failed \cup {i} /\ UNCHANGED <<session, pending>>
       ELSE /\ session' = (batch[i] # "close")
            /\ pending' = [pending EXCEPT ![i] =
                 [about |-> "session", live |-> ~(batch[i] = "close" /\ session)]]
            /\ UNCHANGED failed
  /\ UNCHANGED <<pc, batch, relay, storeVars, seen, subscribed, batches, crashes>>

ActionEnds(i) ==
  /\ CanStep(i, "acted") /\ batch[i] \in Browser
  /\ Emit(i) /\ Advance(i, "answered")
  /\ UNCHANGED <<pc, batch, failed, acts, storeVars, pending, seen, worldVars, batches, crashes>>

\* on_tool_call: the observer writes the milestone itself.
CallMcp(i) ==
  /\ CanStep(i, "todo") /\ batch[i] \in Mcp
  /\ last' = [last EXCEPT !["mcp"] = Milestone(batch[i])]
  /\ Advance(i, "announced_mcp")
  /\ UNCHANGED <<pc, batch, failed, acts, relay, sessionCp, runtimeCp, believes, saved,
                 pending, seen, worldVars, batches, crashes>>

\* The server has, or has not, acted when a call fails.
ServeMcp(i) ==
  /\ CanStep(i, "announced_mcp")
  /\ \E fails \in BOOLEAN :
       /\ failed' = IF fails THEN failed \cup {i} ELSE failed
       /\ \/ Acted(i) /\ subscribed' = CASE batch[i] = "subscribe" -> TRUE
                                        [] batch[i] = "unsubscribe" -> FALSE
                                        [] OTHER -> subscribed
          \/ fails /\ UNCHANGED <<acts, subscribed>>
  /\ Advance(i, "served")
  /\ UNCHANGED <<pc, batch, relay, storeVars, pending, seen, session, batches, crashes>>

BadSeenAfter(t, error) ==
  [seen EXCEPT !.active = IF t = "subscribe" THEN TRUE
                          ELSE IF t = "unsubscribe" THEN FALSE ELSE @,
               !.unresolved = @ \/ t = "mcp_call"]

\* mcp_runtime_checkpoint_from_tool_result: any failed change of state, and
\* any call of a server's own tools, leaves state of the runtime unknown.
SeenAfter(t, error) ==
  [seen EXCEPT !.active = IF t = "subscribe" /\ ~error THEN TRUE
                          ELSE IF t = "unsubscribe" /\ ~error THEN FALSE ELSE @,
               !.unresolved = @ \/ t = "mcp_call" \/ (t # "resource_read" /\ error)]

\* on_tool_result
McpEnds(i) ==
  /\ CanStep(i, "served")
  /\ last' = [last EXCEPT !["mcp"] = Milestone(batch[i])]
  /\ seen' = SeenAfter(batch[i], i \in failed)
  /\ pending' = IF batch[i] = "resource_read" THEN pending
                ELSE [pending EXCEPT ![i] =
                        [about |-> "runtime", live |-> seen'.active \/ seen'.unresolved]]
  /\ Advance(i, "answered")
  /\ UNCHANGED <<pc, batch, failed, acts, relay, sessionCp, runtimeCp, believes, saved,
                 worldVars, batches, crashes>>

----------------------------------------------------------------------------
(* The relay, the checkpoints and the agent                                *)

\* The relay task stores the oldest delta.
Relay ==
  /\ pc # "down" /\ relay # <<>>
  /\ last' = [last EXCEPT ![Family(Head(relay))] = Milestone(Head(relay))]
  /\ relay' = Tail(relay)
  /\ UNCHANGED <<pc, agentVars, sessionCp, runtimeCp, believes, saved, pending, seen,
                 worldVars, batches, crashes>>

AllAnswered ==
  /\ pc = "tools" /\ \A i \in DOMAIN batch : phase[i] \in {"answered", "stored"}
  /\ pc' = "save"
  /\ UNCHANGED <<agentVars, relay, storeVars, pending, seen, worldVars, batches, crashes>>

\* What a result, once it is stored, makes the conversation rely on.
Believed(t, error) ==
  [session |-> IF t \in Browser /\ ~error THEN t # "close" ELSE believes.session,
   subscribed |-> IF t = "subscribe" /\ ~error THEN TRUE
                  ELSE IF t = "unsubscribe" /\ ~error THEN FALSE ELSE believes.subscribed]

\* on_history_checkpoint: the message of the next result ...
SaveResult ==
  /\ pc = "save" /\ saved < Len(batch)
  /\ phase[saved + 1] = "answered"
  /\ believes' = Believed(batch[saved + 1], saved + 1 \in failed)
  /\ Advance(saved + 1, "stored")
  /\ UNCHANGED <<pc, batch, failed, acts, relay, last, sessionCp, runtimeCp, saved, pending,
                 seen, worldVars, batches, crashes>>

\* ... and the checkpoint that waits for it.
SaveNews ==
  /\ pc = "save" /\ saved < Len(batch)
  /\ phase[saved + 1] = "stored"
  /\ LET news == pending[saved + 1] IN
       /\ sessionCp' = IF news.about = "session" THEN news.live ELSE sessionCp
       /\ runtimeCp' = IF news.about = "runtime" THEN news.live ELSE runtimeCp
  /\ pending' = [pending EXCEPT ![saved + 1] = NoNews]
  /\ saved' = saved + 1
  /\ UNCHANGED <<pc, agentVars, relay, last, believes, seen, worldVars, batches, crashes>>

\* A checkpoint is younger than every milestone stored before it.
Closed == [f \in Families |-> [last[f] EXCEPT !.young = FALSE]]

NoCalls == /\ batch' = <<>> /\ failed' = {} /\ saved' = 0
           /\ phase' = [i \in Calls |-> "todo"] /\ acts' = [i \in Calls |-> 0]

ContinuationCheckpoint ==
  /\ pc = "save" /\ saved = Len(batch)
  /\ RelayKeepsUp => relay = <<>>
  /\ last' = Closed /\ NoCalls /\ pc' = "model"
  /\ UNCHANGED <<relay, sessionCp, runtimeCp, believes, pending, seen, worldVars,
                 batches, crashes>>

\* The assistant message with its calls is stored, and checkpointed.
Respond ==
  /\ pc = "model" /\ batches < MaxBatches
  /\ \E n \in 1..MaxBatch : \E b \in [1..n -> Process \cup Browser \cup Mcp] :
       /\ Mixed \/ \A i, j \in 1..n : i # j /\ Family(b[i]) = Family(b[j]) => b[i] \in Process
       /\ batch' = b
  /\ last' = Closed /\ pc' = "tools" /\ batches' = batches + 1
  /\ UNCHANGED <<phase, failed, acts, relay, sessionCp, runtimeCp, believes, saved, pending,
                 seen, worldVars, crashes>>

----------------------------------------------------------------------------
(* The process dies, and a sweep finds the run interrupted.                *)

Unannounced == \E i \in DOMAIN batch : phase[i] = "spawned"

Crash ==
  /\ pc \in {"model", "tools", "save"} /\ crashes < MaxCrashes
  /\ RelayKeepsUp => relay = <<>> /\ ~Unannounced
  /\ crashes' = crashes + 1
  /\ pc' = "down" /\ relay' = <<>>
  /\ pending' = [i \in Calls |-> NoNews]
  /\ seen' = [active |-> FALSE, unresolved |-> FALSE]
  /\ session' = FALSE /\ subscribed' = FALSE
  /\ UNCHANGED <<agentVars, storeVars, batches>>

Refuse ==
  /\ pc = "down" /\ Verdict = "review"
  /\ pc' = "review"
  /\ UNCHANGED <<agentVars, relay, storeVars, pending, seen, worldVars, batches, crashes>>

\* The replay child has events of its own and goes on after the stored
\* messages: the calls of the last message without a result are executed.
Replay ==
  /\ pc = "down" /\ Verdict = "replay"
  /\ pc' = IF batch = <<>> THEN "model" ELSE "tools"
  /\ phase' = [i \in Calls |-> IF phase[i] = "stored" THEN "stored" ELSE "todo"]
  /\ failed' = {i \in failed : phase[i] = "stored"}
  /\ saved' = Cardinality({i \in DOMAIN batch : phase[i] = "stored"})
  /\ last' = [f \in Families |-> NoMilestone]
  /\ sessionCp' = FALSE /\ runtimeCp' = FALSE
  /\ UNCHANGED <<batch, acts, relay, pending, seen, worldVars, believes, batches, crashes>>

CallStep(i) ==
  \/ Spawn(i) \/ AnnounceProcess(i) \/ ProcessEnds(i)
  \/ AnnounceAction(i) \/ LaunchFails(i) \/ Act(i) \/ ActionEnds(i)
  \/ CallMcp(i) \/ ServeMcp(i) \/ McpEnds(i)

Next ==
  \/ \E i \in Calls : CallStep(i)
  \/ Relay \/ AllAnswered \/ SaveResult \/ SaveNews \/ ContinuationCheckpoint \/ Respond
  \/ Crash \/ Refuse \/ Replay

Spec == Init /\ [][Next]_hvars

----------------------------------------------------------------------------
(* Properties                                                              *)

\* STATUS.md: an automatic replay refuses a run with unresolved process,
\* browser or MCP risk: no effect of a call happens a second time.
EffectOnce == \A i \in Calls : acts[i] <= 1

\* A run is not continued in a process without the browser session or the
\* subscription that its stored results say it has.
NothingLost ==
  [][pc = "down" /\ pc' # "down" /\ pc' # "review"
       => ~believes.session /\ ~believes.subscribed]_hvars
=============================================================================
