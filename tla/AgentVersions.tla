----------------------------- MODULE AgentVersions -----------------------------
(***************************************************************************)
(* A managed agent and its versions: `hermes agents sync` brings a YAML    *)
(* file and the store together, in a plan that is built, confirmed and     *)
(* applied in steps, while the API or the command line publish versions    *)
(* of the agent or archive it.                                             *)
(***************************************************************************)
EXTENDS Naturals, Sequences

CONSTANTS Specs,       \* what a version may say
          Publishers,  \* requests for a version: POST .../versions, create-version
          MaxEdits, MaxAsked, MaxFaults  \* bounds

VARIABLES agent,     \* its row in agents
          versions,  \* its rows in agent_versions; latest_version is their number
          file,      \* the YAML file: what it says and the hash in its first line
          sync,      \* the sync: where it is, its plan's action and spec
          asked,     \* what each publisher was asked to publish, or NoSpec
          edits, asks, faults
avars == <<agent, versions, file, sync, asked, edits, asks, faults>>

NoSpec == "none"
Torn == [spec |-> NoSpec, hash |-> NoSpec]
Idle == [at |-> "idle", action |-> "noop", spec |-> NoSpec]

\* A spec stands for its own hash.
Init ==
  /\ agent = [exists |-> FALSE, archived |-> FALSE] /\ versions = <<>>
  /\ file \in {[spec |-> s, hash |-> NoSpec] : s \in Specs}
  /\ sync = Idle /\ asked = [p \in Publishers |-> NoSpec]
  /\ edits = 0 /\ asks = 0 /\ faults = 0

Latest == IF versions = <<>> THEN NoSpec ELSE versions[Len(versions)]

----------------------------------------------------------------------------
(* hermes agents sync                                                      *)

BadAction ==
  IF ~agent.exists THEN "create"
  ELSE IF file.hash # file.spec THEN "publish" ELSE "noop"
\* The file's own hash only tells whether it has to be written.
Action ==
  IF ~agent.exists THEN "create"
  ELSE IF Latest # file.spec THEN "publish"
  ELSE IF file.hash # file.spec THEN "metadata" ELSE "noop"

\* build_sync_plan: a file that cannot be parsed and an archived agent end
\* it, and a plan without changes is not applied.
BuildPlan ==
  /\ sync = Idle /\ file # Torn /\ ~agent.archived /\ Action # "noop"
  /\ sync' = [at |-> "confirm", action |-> Action, spec |-> file.spec]
  /\ UNCHANGED <<agent, versions, file, asked, edits, asks, faults>>

\* create_agent: the name is unique.
CreateAgent ==
  /\ sync.at = "confirm" /\ sync.action = "create"
  /\ IF agent.exists
     THEN sync' = Idle /\ UNCHANGED agent
     ELSE sync' = [sync EXCEPT !.at = "preflight"] /\ agent' = [agent EXCEPT !.exists = TRUE]
  /\ UNCHANGED <<versions, file, asked, edits, asks, faults>>

Preflight ==
  /\ sync.at = "confirm" /\ sync.action = "publish"
  /\ sync' = [sync EXCEPT !.at = "preflight"]
  /\ UNCHANGED <<agent, versions, file, asked, edits, asks, faults>>

\* create_next_agent_version reads the agent again: WHERE archived = 0.
Accepts == agent.exists /\ ~agent.archived

Publish ==
  /\ sync.at = "preflight"
  /\ IF Accepts
     THEN versions' = Append(versions, sync.spec) /\ sync' = [sync EXCEPT !.at = "metadata"]
     ELSE sync' = Idle /\ UNCHANGED versions
  /\ UNCHANGED <<agent, file, asked, edits, asks, faults>>

\* write_sync_metadata: fs::write truncates the file and then writes what
\* the plan has read, whatever the file says by now.
TruncateFile ==
  /\ sync.at = "metadata" \/ (sync.at = "confirm" /\ sync.action = "metadata")
  /\ file' = Torn /\ sync' = [sync EXCEPT !.at = "write"]
  /\ UNCHANGED <<agent, versions, asked, edits, asks, faults>>

WriteMetadata ==
  /\ sync.at = "write" /\ sync' = Idle
  /\ file' = [spec |-> sync.spec, hash |-> sync.spec]
  /\ UNCHANGED <<agent, versions, asked, edits, asks, faults>>

Sync == BuildPlan \/ CreateAgent \/ Preflight \/ Publish \/ TruncateFile \/ WriteMetadata

\* The plan is declined, the preflight fails or the process is killed.
GiveUp ==
  /\ sync # Idle /\ faults < MaxFaults /\ faults' = faults + 1 /\ sync' = Idle
  /\ UNCHANGED <<agent, versions, file, asked, edits, asks>>

Edit(s) ==
  /\ edits < MaxEdits /\ edits' = edits + 1
  /\ file' = [file EXCEPT !.spec = s]
  /\ UNCHANGED <<agent, versions, sync, asked, asks, faults>>

----------------------------------------------------------------------------
(* The API, and the other commands                                         *)

\* handle_managed_agent_create
Create ==
  /\ ~agent.exists /\ agent' = [agent EXCEPT !.exists = TRUE]
  /\ UNCHANGED <<versions, file, sync, asked, edits, asks, faults>>

\* archive_agent. Nothing takes it back.
Archive ==
  /\ agent.exists /\ ~agent.archived /\ agent' = [agent EXCEPT !.archived = TRUE]
  /\ UNCHANGED <<versions, file, sync, asked, edits, asks, faults>>

\* handle_managed_agent_version_create looks at the agent, waits for the
\* preflight, which may fail, and publishes.
Ask(p, s) ==
  /\ asks < MaxAsked /\ asks' = asks + 1
  /\ asked[p] = NoSpec /\ agent.exists /\ ~agent.archived
  /\ asked' = [asked EXCEPT ![p] = s]
  /\ UNCHANGED <<agent, versions, file, sync, edits, faults>>

Answer(p) ==
  /\ asked[p] # NoSpec /\ asked' = [asked EXCEPT ![p] = NoSpec]
  /\ \/ Accepts /\ versions' = Append(versions, asked[p])
     \/ UNCHANGED versions
  /\ UNCHANGED <<agent, file, sync, edits, asks, faults>>

----------------------------------------------------------------------------
Next ==
  \/ Sync \/ GiveUp \/ Create \/ Archive
  \/ \E s \in Specs : Edit(s)
  \/ \E p \in Publishers : Answer(p) \/ \E s \in Specs : Ask(p, s)

\* The operator goes on with sync until it has nothing to do.
Spec == Init /\ [][Next]_avars /\ WF_avars(Sync)

----------------------------------------------------------------------------
(* Properties                                                              *)

\* Whatever was published in between and wherever a sync was interrupted,
\* syncing again leads to an agent whose latest version says what the file
\* says, and to a file that carries its hash.
SyncConverges ==
  <>[](agent.archived \/ file.spec = NoSpec
       \/ (file.spec = Latest /\ file.hash = file.spec))
=============================================================================
