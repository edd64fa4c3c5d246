------------------------------ MODULE RunReplay ------------------------------
(***************************************************************************)
(* What happens to a managed run after it was interrupted: the recovery    *)
(* sweep of every gateway replays it onto a new run, an operator may       *)
(* replay or cancel it through the API, and the replay child takes over    *)
(* the conversation (the session) of its source.                           *)
(*                                                                         *)
(* ManagedRun follows one row through its life; here a row keeps only its  *)
(* status and its place in the replay tree, and the run events that the    *)
(* recovery code reads back are kept as facts.  Loading one derived        *)
(* summary is one step, and so is propagating one update to the ancestors  *)
(* of a run; every other await is a point where other steps may come in.   *)
(***************************************************************************)
EXTENDS Naturals, Sequences, FiniteSets

CONSTANTS Runs,        \* run ids
          Roots,       \* the runs that exist when the history begins
          Workers,     \* gateway processes sharing one database
          Callers,     \* API requests in flight at a time
          NoRun, NoWorker,
          MaxDepth,    \* max_auto_replays_per_root_run
          Batch,       \* MANAGED_AUTO_REPLAY_BATCH_SIZE
          MaxCrashes,  \* bound on process crashes
          Faults,      \* may a child fail to be created or built?
          Drops,       \* may an API client disconnect in mid-request?
          Prompt       \* heartbeats of a live run always keep its lease

\* What the constants are; the module that gives them assumes it.
ReplayAssumption ==
  /\ Roots \subseteq Runs /\ IsFiniteSet(Runs) /\ Workers # {}
  /\ NoRun \notin Runs /\ NoWorker \notin Workers
  /\ Workers \cap Callers = {}
  /\ MaxDepth \in Nat /\ Batch \in Nat \ {0} /\ MaxCrashes \in Nat
  /\ Faults \in BOOLEAN /\ Drops \in BOOLEAN /\ Prompt \in BOOLEAN

VARIABLES status,    \* the status column of a row, "none" before it exists
          parent,    \* replay_of_run_id
          auto,      \* the trigger in the row's run.created event
          recency,   \* the order of updated_at: <<x, y>> when x was written before y
          claimed,   \* the child has its claim and takeover-established events
          replayed,  \* the source has a run.replayed event
          decision,  \* the latest run.recovery_decided event of a run
          risk,      \* an unresolved handoff, or an open browser or MCP session
          exec,      \* the process in which the run's agent loop is alive
          lease,     \* the owner's lease has not expired
          task,      \* one per recovery sweep and one per API request
          crashes
rowVars == <<status, parent, auto, recency>>
eventVars == <<claimed, replayed, decision>>
execVars == <<exec, lease, risk>>
vars == <<rowVars, eventVars, execVars, task, crashes>>

Active == {"pending", "running"}
Ended == {"interrupted", "completed", "failed", "cancelled"}
Tasks == Workers \cup Callers

\* A recovery decision: what it says and the replay child it names.
Decisions == [kind : {"none", "manual_review", "blocked", "failed", "follow_replay"},
              child : Runs \cup {NoRun}]
Decision(k, c) == [kind |-> k, child |-> c]

SweepSteps == {"idle", "announce", "list", "assess"}
SpawnSteps == {"create", "build", "claimed", "record", "follow", "ancestors", "start"}
CallSteps == {"idle", "check", "cancel_check", "cancel"}
Task == [pc : SweepSteps \cup SpawnSteps \cup CallSteps \cup {"refuse"},
         at : Workers, booting : BOOLEAN,
         source : Runs \cup {NoRun}, child : Runs \cup {NoRun},
         verdict : Decisions, todo : SUBSET Runs, queue : Seq(Runs)]
Fresh(w) == [pc |-> "idle", at |-> w, booting |-> FALSE, source |-> NoRun, child |-> NoRun,
             verdict |-> Decision("none", NoRun), todo |-> {}, queue |-> <<>>]
NoRequest == Fresh(CHOOSE w \in Workers : TRUE)

----------------------------------------------------------------------------
(* The replay tree, as the store and the summaries read it.                *)

Rows == {r \in Runs : status[r] # "none"}
Children(r) == {c \in Rows : parent[c] = r}

\* managed_run_replay_depth: how many replays led to r.
Depth(r) ==
  LET d[x \in Runs] == IF parent[x] = NoRun THEN 0 ELSE 1 + d[parent[x]] IN d[r]

\* managed_run_root_run_id.
Root(r) ==
  LET f[x \in Runs] == IF parent[x] = NoRun THEN x ELSE f[parent[x]] IN f[r]

\* The sources of r, from its own up to the root of its tree.
Sources(r) ==
  LET f[x \in Runs] == IF parent[x] = NoRun THEN {} ELSE {parent[x]} \cup f[parent[x]]
  IN f[r]

\* c is the one of S that was written last, or first.
IsLatest(c, S) == c \in S /\ \A d \in S \ {c} : <<d, c>> \in recency
IsEarliest(c, S) == c \in S /\ \A d \in S \ {c} : <<c, d>> \in recency

\* get_latest_replay_child: the child whose row was written last.
LatestChild(r) == IF Children(r) = {} THEN NoRun
                  ELSE CHOOSE c \in Runs : IsLatest(c, Children(r))

\* get_latest_replay_descendant, or r itself when it was never replayed.
Leaf(r) ==
  LET f[x \in Runs] == IF LatestChild(x) = NoRun THEN x ELSE f[LatestChild(x)] IN f[r]

\* The summary of r has a takeover: r has a run.replayed event, or the events
\* of its latest child show that the child was claimed.
TakenOver(r) == Children(r) # {} /\ (replayed[r] \/ claimed[LatestChild(r)])

Continuation(r) == IF TakenOver(r) THEN Leaf(r) ELSE r

\* A write moves the rows of S, or adds one, to the end of the order of updated_at.
Touched(S) == {p \in recency : p[1] \in S => p[2] \in S} \cup ((Rows \ S) \X S)

\* append_ancestor_follow_replay_decisions_for_replay_child: every source of
\* leaf but its own is told which of its children the continuation went through.
BadVia(leaf, a) == leaf
Via(leaf, a) == CHOOSE x \in {leaf} \cup Sources(leaf) : parent[x] = a
Announce(leaf) ==
  [a \in Runs |-> IF a \in Sources(leaf) \ {parent[leaf]}
                  THEN Decision("follow_replay", Via(leaf, a)) ELSE decision[a]]

----------------------------------------------------------------------------
(* Who is where.                                                           *)

Spawning(c) == {t \in Tasks : task[t].pc \in SpawnSteps \ {"create"} /\ task[t].child = c}

\* A process still works on the run: its agent loop, or the request or sweep
\* that is starting it.
Attended(r) == exec[r] # NoWorker \/ Spawning(r) # {}

At(t, pc) == task[t].pc = pc
Goto(t, pc) == task' = [task EXCEPT ![t].pc = pc]

\* The spawn, the refusal or the request of t is over: a sweep goes on with
\* its next candidate, a request has answered.
Done(t) == IF t \in Workers
           THEN [task[t] EXCEPT !.pc = "assess", !.source = NoRun, !.child = NoRun,
                                !.verdict = Decision("none", NoRun)]
           ELSE NoRequest
Finish(t) == task' = [task EXCEPT ![t] = Done(t)]

----------------------------------------------------------------------------
\* Of any two rows one was written last, and so of any set of them.
Ordered(S) == /\ \A x, y \in S : <<x, y>> \in recency => <<y, x>> \notin recency
              /\ \A T \in (SUBSET S) \ {{}} : \E c \in S : IsLatest(c, T)

Init ==
  /\ status = [r \in Runs |-> IF r \in Roots THEN "running" ELSE "none"]
  /\ parent = [r \in Runs |-> NoRun]
  /\ auto = [r \in Runs |-> FALSE]
  /\ recency \in SUBSET (Roots \X Roots) /\ Ordered(Roots)
  /\ claimed = [r \in Runs |-> r \in Roots]
  /\ replayed = [r \in Runs |-> FALSE]
  /\ decision = [r \in Runs |-> Decision("none", NoRun)]
  /\ risk = [r \in Runs |-> FALSE]
  /\ exec \in {e \in [Runs -> Workers \cup {NoWorker}] : \A r \in Runs :
                                                   e[r] = NoWorker <=> r \notin Roots}
  /\ lease = [r \in Runs |-> r \in Roots]
  /\ task = [t \in Tasks |-> IF t \in Workers THEN Fresh(t) ELSE NoRequest]
  /\ crashes = 0

----------------------------------------------------------------------------
(* The agent loop of a run, its lease and its process.                     *)

\* A tool is handed to a process, a browser or an MCP server, or a session is
\* left open; at the next checkpoint (or close) nothing is unresolved.
Handoff(r) ==
  /\ exec[r] # NoWorker
  /\ risk' = [risk EXCEPT ![r] = ~risk[r]]
  /\ UNCHANGED <<rowVars, eventVars, exec, lease, task, crashes>>

\* The agent returns.  The finalizer writes the row only while it is its own.
AgentEnds(r) ==
  /\ exec[r] # NoWorker
  /\ exec' = [exec EXCEPT ![r] = NoWorker]
  /\ \/ /\ status[r] = "running"
        /\ \E s \in {"completed", "failed"} : status' = [status EXCEPT ![r] = s]
        /\ recency' = Touched({r})
        /\ lease' = [lease EXCEPT ![r] = FALSE]
        /\ decision' = Announce(r)
     \/ status[r] # "running" /\ UNCHANGED <<status, recency, lease, decision>>
  /\ UNCHANGED <<parent, auto, claimed, replayed, risk, task, crashes>>

\* Timing assumption Prompt: an attended run renews its lease in time.
LeaseExpires(r) ==
  /\ status[r] = "running" /\ lease[r]
  /\ Prompt => ~Attended(r)
  /\ lease' = [lease EXCEPT ![r] = FALSE]
  /\ UNCHANGED <<rowVars, eventVars, exec, risk, task, crashes>>

\* A process dies with its agent loops, its requests and its sweep.  The new
\* process sweeps before it serves the API.
Crash(w) ==
  /\ crashes < MaxCrashes
  /\ crashes' = crashes + 1
  /\ exec' = [r \in Runs |-> IF exec[r] = w THEN NoWorker ELSE exec[r]]
  /\ task' = [t \in Tasks |-> IF t = w THEN [Fresh(w) EXCEPT !.booting = TRUE]
                              ELSE IF task[t].at = w THEN NoRequest ELSE task[t]]
  /\ UNCHANGED <<rowVars, eventVars, lease, risk>>

----------------------------------------------------------------------------
(* The recovery sweep of worker w.                                         *)

\* reconcile_incomplete_runs: rows nobody owns, or whose lease ran out.
Reconcilable(r) == status[r] = "pending" \/ (status[r] = "running" /\ ~lease[r])

Reconcile(w) ==
  /\ At(w, "idle")
  /\ LET lost == {r \in Runs : Reconcilable(r)} IN
       /\ status' = [r \in Runs |-> IF r \in lost THEN "interrupted" ELSE status[r]]
       /\ recency' = Touched(lost)
       /\ task' = [task EXCEPT ![w].pc = "announce", ![w].todo = lost]
  /\ UNCHANGED <<parent, auto, eventVars, execVars, crashes>>

AnnounceReconciled(w) ==
  /\ At(w, "announce")
  /\ \/ /\ task[w].todo = {}
        /\ Goto(w, "list") /\ UNCHANGED decision
     \/ \E r \in task[w].todo :
          /\ decision' = Announce(r)
          /\ task' = [task EXCEPT ![w].todo = @ \ {r}]
  /\ UNCHANGED <<rowVars, claimed, replayed, execVars, crashes>>

\* list_interrupted_runs_pending_replay: least recently written first.
BadCandidate(r) == status[r] = "interrupted"
Candidate(r) == status[r] = "interrupted" /\ Children(r) = {}

ListCandidates(w) ==
  /\ At(w, "list")
  /\ LET cs == {r \in Rows : Candidate(r)}
         n == IF Cardinality(cs) < Batch THEN Cardinality(cs) ELSE Batch
     IN \E q \in [1..n -> cs] :
          /\ \A i \in 1..n : IsEarliest(q[i], cs \ {q[j] : j \in 1..i - 1})
          /\ task' = [task EXCEPT ![w].pc = "assess", ![w].queue = q]
  /\ UNCHANGED <<rowVars, eventVars, execVars, crashes>>

\* What the takeover assessment of s leads to.
BadVerdictRisky(s) == IF Depth(s) >= MaxDepth THEN Decision("blocked", NoRun)
                      ELSE Decision("none", NoRun)
BadVerdictDeeper(s) == IF risk[s] THEN Decision("manual_review", NoRun)
                       ELSE IF Depth(s) > MaxDepth THEN Decision("blocked", NoRun)
                       ELSE Decision("none", NoRun)
BadVerdictEarly(s) == IF risk[s] THEN Decision("manual_review", NoRun)
                      ELSE IF Depth(s) + 1 >= MaxDepth THEN Decision("blocked", NoRun)
                      ELSE Decision("none", NoRun)
Verdict(s) == IF risk[s] THEN Decision("manual_review", NoRun)
              ELSE IF Depth(s) >= MaxDepth THEN Decision("blocked", NoRun)
              ELSE Decision("none", NoRun)

Assess(w) ==
  /\ At(w, "assess") /\ task[w].queue # <<>>
  /\ LET s == Head(task[w].queue) IN
       task' = [task EXCEPT ![w].queue = Tail(@), ![w].source = s, ![w].verdict = Verdict(s),
                            ![w].pc = IF Verdict(s).kind = "none" THEN "create" ELSE "refuse"]
  /\ UNCHANGED <<rowVars, eventVars, execVars, crashes>>

SweepEnds(w) ==
  /\ At(w, "assess") /\ task[w].queue = <<>>
  /\ task' = [task EXCEPT ![w] = Fresh(w)]
  /\ UNCHANGED <<rowVars, eventVars, execVars, crashes>>

\* append_managed_recovery_decision_if_changed.
Refuse(t) ==
  /\ At(t, "refuse")
  /\ decision' = [decision EXCEPT ![task[t].source] = task[t].verdict]
  /\ Finish(t)
  /\ UNCHANGED <<rowVars, claimed, replayed, execVars, crashes>>

----------------------------------------------------------------------------
(* spawn_managed_run_with_version with a replay provenance, on behalf of a *)
(* sweep or of a replay request.                                           *)

Create(t) ==
  /\ At(t, "create")
  /\ \E c \in Runs \ Rows :
       /\ status' = [status EXCEPT ![c] = "pending"]
       /\ parent' = [parent EXCEPT ![c] = task[t].source]
       /\ auto' = [auto EXCEPT ![c] = t \in Workers]
       /\ recency' = Touched({c})
       /\ task' = [task EXCEPT ![t].pc = "build", ![t].child = c]
  /\ UNCHANGED <<eventVars, execVars, crashes>>

\* The child could not be started: the sweep records that, a request answers.
StartFailed(t) ==
  task' = [task EXCEPT ![t] = IF t \in Workers
                              THEN [@ EXCEPT !.pc = "refuse", !.child = NoRun,
                                             !.verdict = Decision("failed", NoRun)]
                              ELSE NoRequest]

\* The agent version, the session or the insert fails: there is no row.
CreateFails(t) ==
  /\ Faults /\ At(t, "create")
  /\ StartFailed(t)
  /\ UNCHANGED <<rowVars, eventVars, execVars, crashes>>

\* fail_managed_run_before_start writes the row whatever became of it.
BuildFails(t) ==
  /\ Faults /\ At(t, "build")
  /\ status' = [status EXCEPT ![task[t].child] = "failed"]
  /\ recency' = Touched({task[t].child})
  /\ StartFailed(t)
  /\ UNCHANGED <<parent, auto, eventVars, execVars, crashes>>

Claim(t) ==
  /\ At(t, "build")
  /\ LET c == task[t].child IN
     \/ /\ status[c] = "pending"
        /\ status' = [status EXCEPT ![c] = "running"]
        /\ recency' = Touched({c})
        /\ lease' = [lease EXCEPT ![c] = TRUE]
        /\ Goto(t, "claimed")
     \/ /\ status[c] # "pending"
        /\ StartFailed(t) /\ UNCHANGED <<status, recency, lease>>
  /\ UNCHANGED <<parent, auto, eventVars, exec, risk, crashes>>

\* The ownership-claimed and takeover-established events of the child.
RecordClaim(t) ==
  /\ At(t, "claimed")
  /\ claimed' = [claimed EXCEPT ![task[t].child] = TRUE]
  /\ Goto(t, "record")
  /\ UNCHANGED <<rowVars, replayed, decision, execVars, crashes>>

\* The run.replayed event of the source.
RecordReplayed(t) ==
  /\ At(t, "record")
  /\ replayed' = [replayed EXCEPT ![task[t].source] = TRUE]
  /\ Goto(t, "follow")
  /\ UNCHANGED <<rowVars, claimed, decision, execVars, crashes>>

\* The follow_replay decision of the source.
FollowReplay(t) ==
  /\ At(t, "follow")
  /\ decision' = [decision EXCEPT ![task[t].source] = Decision("follow_replay", task[t].child)]
  /\ Goto(t, "ancestors")
  /\ UNCHANGED <<rowVars, claimed, replayed, execVars, crashes>>

AnnounceChild(t) ==
  /\ At(t, "ancestors")
  /\ decision' = Announce(task[t].child)
  /\ Goto(t, "start")
  /\ UNCHANGED <<rowVars, claimed, replayed, execVars, crashes>>

\* The agent and heartbeat tasks of the child are spawned.
Start(t) ==
  /\ At(t, "start")
  /\ exec' = [exec EXCEPT ![task[t].child] = task[t].at]
  /\ Finish(t)
  /\ UNCHANGED <<rowVars, eventVars, lease, risk, crashes>>

----------------------------------------------------------------------------
(* API requests.                                                           *)

Request(c) ==
  /\ At(c, "idle")
  /\ \E r \in Rows, w \in {v \in Workers : ~task[v].booting}, pc \in {"check", "cancel_check"} :
       task' = [task EXCEPT ![c] = [Fresh(w) EXCEPT !.pc = pc, !.source = r]]
  /\ UNCHANGED <<rowVars, eventVars, execVars, crashes>>

\* A run that is active, or whose continuation is, is not replayed.
BadBlocked(r) == TakenOver(r) /\ status[Leaf(r)] \in Active
Blocked(r) == \/ status[r] \in Active
              \/ TakenOver(r) /\ status[Leaf(r)] \in Active

\* handle_managed_run_replay, up to the spawn.
ReplayCheck(c) ==
  /\ At(c, "check")
  /\ LET r == task[c].source IN
       task' = [task EXCEPT ![c] =
          IF Blocked(r)
          THEN [@ EXCEPT !.pc = "refuse",
                         !.verdict = Decision("blocked", IF status[r] \in Active THEN NoRun
                                                         ELSE Leaf(r))]
          ELSE [@ EXCEPT !.pc = "create", !.source = Continuation(r)]]
  /\ UNCHANGED <<rowVars, eventVars, execVars, crashes>>

\* handle_managed_run_cancel: the run to cancel is its active continuation.
CancelCheck(c) ==
  /\ At(c, "cancel_check")
  /\ LET r == task[c].source
         target == IF status[Continuation(r)] \in Active THEN Continuation(r) ELSE r
     IN task' = [task EXCEPT ![c] = IF status[target] \in Ended THEN NoRequest
                                    ELSE [@ EXCEPT !.pc = "cancel", !.child = target]]
  /\ UNCHANGED <<rowVars, eventVars, execVars, crashes>>

\* The agent loop is aborted where this process runs it; the row is written
\* in either case.
CancelWrite(c) ==
  /\ At(c, "cancel")
  /\ LET r == task[c].child IN
       /\ status' = [status EXCEPT ![r] = "cancelled"]
       /\ recency' = Touched({r})
       /\ decision' = Announce(r)
       /\ exec' = [exec EXCEPT ![r] = IF @ = task[c].at THEN NoWorker ELSE @]
       /\ lease' = [lease EXCEPT ![r] = FALSE]
  /\ Finish(c)
  /\ UNCHANGED <<parent, auto, claimed, replayed, risk, crashes>>

\* The client disconnects and its handler is dropped at an await.
DropRequest(c) ==
  /\ Drops /\ ~At(c, "idle")
  /\ task' = [task EXCEPT ![c] = NoRequest]
  /\ UNCHANGED <<rowVars, eventVars, execVars, crashes>>

----------------------------------------------------------------------------
RunStep(r) == Handoff(r) \/ AgentEnds(r) \/ LeaseExpires(r)
SweepStep(w) == \/ Reconcile(w) \/ AnnounceReconciled(w) \/ ListCandidates(w)
                \/ Assess(w) \/ SweepEnds(w)
SpawnStep(t) == \/ Refuse(t) \/ Create(t) \/ CreateFails(t) \/ BuildFails(t) \/ Claim(t)
                \/ RecordClaim(t) \/ RecordReplayed(t) \/ FollowReplay(t)
                \/ AnnounceChild(t) \/ Start(t)
CallStep(c) == Request(c) \/ ReplayCheck(c) \/ CancelCheck(c) \/ CancelWrite(c) \/ DropRequest(c)

Next == \/ \E r \in Runs : RunStep(r)
        \/ \E w \in Workers : SweepStep(w) \/ Crash(w)
        \/ \E t \in Tasks : SpawnStep(t)
        \/ \E c \in Callers : CallStep(c)

\* A process keeps sweeping, and a lease nobody renews runs out.  Nothing is
\* asked of agents, clients and crashes.
Fairness == /\ \A w \in Workers : WF_vars(SweepStep(w)) /\ WF_vars(SpawnStep(w))
            /\ \A r \in Runs : WF_vars(~Attended(r) /\ LeaseExpires(r))

Spec == Init /\ [][Next]_vars
FairSpec == Spec /\ Fairness

----------------------------------------------------------------------------
(* Properties.                                                             *)

TypeOK ==
  /\ status \in [Runs -> {"none"} \cup Active \cup Ended]
  /\ parent \in [Runs -> Runs \cup {NoRun}] /\ auto \in [Runs -> BOOLEAN]
  /\ recency \subseteq Rows \X Rows /\ Ordered(Rows)
  /\ claimed \in [Runs -> BOOLEAN] /\ replayed \in [Runs -> BOOLEAN]
  /\ decision \in [Runs -> Decisions]
  /\ risk \in [Runs -> BOOLEAN] /\ lease \in [Runs -> BOOLEAN]
  /\ exec \in [Runs -> Workers \cup {NoWorker}]
  /\ task \in [Tasks -> Task] /\ crashes \in 0..MaxCrashes

\* A replay child reuses the session of its source, so two runs of one tree
\* must not execute at a time: both would append to the same conversation.
OneExecutor ==
  \A r, q \in Rows : (r # q /\ exec[r] # NoWorker /\ exec[q] # NoWorker) => Root(r) # Root(q)

\* Whatever requests and sweeps overlap, only a run that is over is replayed.
BranchFromEnded ==
  \A c \in Rows : parent[c] # NoRun => status[parent[c]] \in Ended

\* The configured cap: no automatic replay lies deeper, manual ones included.
DepthBounded == \A c \in Rows : auto[c] => Depth(c) <= MaxDepth

\* The lineage of a run is sound, whoever adds to it.
LineageSound == BranchFromEnded /\ DepthBounded

\* What the cap is named for: no root run has more automatic replays.
AutoBudget ==
  \A r \in Roots : Cardinality({c \in Rows : auto[c] /\ Root(c) = r}) <= MaxDepth

\* Of the runs of a tree one executes at a time, and few are automatic.
OneInBudget == OneExecutor /\ AutoBudget

\* While a replay runs, the latest decision of every run it continues leads to
\* it: an operator who follows the decisions from the root gets there.
DecisionsLead ==
  \A c \in Rows : (exec[c] # NoWorker /\ status[c] = "running") =>
     \A a \in Sources(c) : \E x \in {c} \cup Sources(c) :
        parent[x] = a /\ decision[a] = Decision("follow_replay", x)

\* The row is created by this step as a replay.
Replays(c) == status[c] = "none" /\ status'[c] = "pending"

\* The sweep never replays a run whose handoff is unresolved at that moment.
NoRiskyReplay == [][\A c \in Runs : (Replays(c) /\ auto'[c]) => ~risk[parent'[c]]]_vars

\* An interrupted run that is safe to replay, and not too deep, is replayed,
\* or an operator finds a decision that says its replay could not be started.
SafeRunIsReplayed ==
  \A r \in Runs :
    (status[r] = "interrupted" /\ ~risk[r] /\ Depth(r) < MaxDepth)
       ~> (Children(r) # {} \/ decision[r].kind = "failed")

----------------------------------------------------------------------------
(* Promises of the documents that the code keeps in part (see README).     *)

\* A manual replay goes on from the end of the conversation, never from a run
\* that another run has already taken over.
NoStaleBranch ==
  [][\A c \in Runs : (Replays(c) /\ ~auto'[c]) =>
        \A x \in Children(parent'[c]) : ~claimed[x]]_vars

\* Every interrupted run is replayed or gets a recovery decision.
EveryCandidateDecided ==
  \A r \in Runs : status[r] = "interrupted" ~> (Children(r) # {} \/ decision[r].kind # "none")
=============================================================================
