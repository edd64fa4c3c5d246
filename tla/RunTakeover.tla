----------------------------- MODULE RunTakeover -----------------------------
(***************************************************************************)
(* What the event logs of a chain of replays say about who continues it.   *)
(* A run that starts or ends tells every run it continues: it walks from   *)
(* its source to the root and appends a run.takeover_updated event to each *)
(* log (append_source_takeover_update_for_replay_child), then the          *)
(* follow_replay decisions of all but its own source.  Starts, finalizers, *)
(* cancel requests and the recovery sweep walk concurrently, each with the *)
(* row it read; the same facts are derived from the rows when somebody     *)
(* asks for a run (load_managed_run_derived_summary).                      *)
(*                                                                         *)
(* Run i + 1 replays run i.  RunReplay has the tree and decides who is     *)
(* replayed, with a walk as one step; here the walk is taken apart.        *)
(***************************************************************************)
EXTENDS Naturals, FiniteSets

CONSTANTS Length,      \* number of runs in the chain
          MaxCrashes,  \* bound on crashes of the gateway
          Patient      \* requests come after the walks that went before (README)

VARIABLES status,       \* the status column, "none" before the row exists
          live,         \* the run is registered, its agent and heartbeat run
          established,  \* the run has its claim and takeover-established events
          replayed,     \* the run has a run.replayed event
          told,         \* its latest run.takeover_updated event
          decision,     \* its latest follow_replay decision
          walk,         \* the walks that are under way
          swept,        \* reconciled runs the sweep has not told about yet
          cut,          \* history: runs whose last walk was cut short
          crashes
logVars == <<established, replayed, told, decision>>
vars == <<status, live, logVars, walk, swept, cut, crashes>>

Members == 1..Length
Ended == {"completed", "failed", "cancelled", "interrupted"}
Active == {"pending", "running"}
Nothing == [run |-> 0, state |-> "none", owner |-> FALSE]
Undecided == [child |-> 0, leaf |-> 0, state |-> "none"]

\* A walk about run t[2] that is begun by its start, its end, a cancel request
\* for it, or the sweep.
Walks == {"start", "end", "cancel", "sweep"} \X Members
StartSteps == {"claim", "establish", "replayed", "decide", "go"}
WalkSteps == {"load", "look", "tell", "follow"}
Idle == [pc |-> "idle", state |-> "none", owner |-> FALSE, at |-> 0]

Busy(i) == \E k \in {"start", "end", "cancel", "sweep"} : walk[<<k, i>>].pc # "idle"
Attended(i) == live[i] \/ walk[<<"start", i>>].pc # "idle"

\* managed_takeover_state_label.
Label(s) == IF s = "running" THEN "active" ELSE IF s \in Ended THEN s ELSE "none"

----------------------------------------------------------------------------
(* What is derived from the rows and the events of a run.                  *)

\* get_latest_replay_descendant.
Leaf(s) == CHOOSE i \in Members : /\ status[i] # "none"
                                  /\ \A j \in Members : status[j] # "none" => j <= i

\* A replay child is shown once the source has its run.replayed event or the
\* child shows that it was claimed.
ReplayChild(s) ==
  /\ s + 1 \in Members /\ status[s + 1] # "none"
  /\ replayed[s] \/ established[s + 1]

\* managed_run_takeover_summary: the leaf, whatever the log says of it.
Takeover(s) == [run |-> Leaf(s), state |-> status[Leaf(s)]]

\* align_follow_replay_decision_with_takeover: the leaf that is shown with a
\* decision is the one the rows lead to.
Aligned(s) ==
  IF decision[s] # Undecided /\ ReplayChild(s)
  THEN [decision[s] EXCEPT !.leaf = Takeover(s).run, !.state = Takeover(s).state]
  ELSE decision[s]

----------------------------------------------------------------------------
Init ==
  /\ status = [i \in Members |-> IF i = 1 THEN "running" ELSE "none"]
  /\ live = [i \in Members |-> i = 1]
  /\ established = [i \in Members |-> i = 1]
  /\ replayed = [i \in Members |-> FALSE]
  /\ told = [i \in Members |-> Nothing]
  /\ decision = [i \in Members |-> Undecided]
  /\ walk = [t \in Walks |-> Idle]
  /\ swept = {} /\ cut = {} /\ crashes = 0

----------------------------------------------------------------------------
(* One walk.                                                               *)

Goto(t, pc) == walk' = [walk EXCEPT ![t].pc = pc]

\* After the last source: a start goes on to spawn the run's tasks.
Over(t) == IF t[1] = "start" THEN [walk[t] EXCEPT !.pc = "go"] ELSE Idle

\* The walk t about its run begins at the run's own source.
From(t, pc, state, owner) ==
  [pc |-> pc, state |-> state, owner |-> owner, at |-> t[2] - 1]

\* The next source up, and after the root the decisions of the sources beyond
\* the first.
BadHigher(t) == IF t[2] > 2 THEN [walk[t] EXCEPT !.pc = "follow", !.at = t[2] - 2] ELSE Over(t)
Higher(t) ==
  IF walk[t].at > 1 THEN [walk[t] EXCEPT !.pc = "look", !.at = @ - 1]
  ELSE IF t[2] > 2 THEN [walk[t] EXCEPT !.pc = "follow", !.at = t[2] - 2]
  ELSE Over(t)

Message(t) == [run |-> t[2], state |-> Label(walk[t].state), owner |-> walk[t].owner]

\* The finalizer reads the row again before it tells of it.
BadReread(i) == "running"
Reread(i) == status[i]
LoadRow(t) ==
  /\ walk[t].pc = "load"
  /\ walk' = [walk EXCEPT ![t] = IF @.at = 0 THEN Idle
                                 ELSE [@ EXCEPT !.pc = "look", !.state = Reread(t[2])]]
  /\ UNCHANGED <<status, live, logVars, swept, cut, crashes>>

\* append_takeover_update_for_source_run: a message that is the latest already
\* is not repeated.
BadKnown(t) == told[walk[t].at].run = t[2]
Known(t) == told[walk[t].at] = Message(t)
Look(t) ==
  /\ walk[t].pc = "look"
  /\ walk' = [walk EXCEPT ![t] = IF Known(t) THEN Higher(t) ELSE [@ EXCEPT !.pc = "tell"]]
  /\ UNCHANGED <<status, live, logVars, swept, cut, crashes>>

Tell(t) ==
  /\ walk[t].pc = "tell"
  /\ told' = [told EXCEPT ![walk[t].at] = Message(t)]
  /\ walk' = [walk EXCEPT ![t] = Higher(t)]
  /\ UNCHANGED <<status, live, established, replayed, decision, swept, cut, crashes>>

\* append_ancestor_follow_replay_decisions_for_replay_child: the source at this
\* level is told its own child and the leaf.
Follow(t) ==
  /\ walk[t].pc = "follow"
  /\ decision' = [decision EXCEPT ![walk[t].at] =
                    [child |-> walk[t].at + 1, leaf |-> t[2], state |-> walk[t].state]]
  /\ walk' = [walk EXCEPT ![t] = IF walk[t].at > 1 THEN [walk[t] EXCEPT !.at = @ - 1]
                                 ELSE Over(t)]
  /\ UNCHANGED <<status, live, established, replayed, told, swept, cut, crashes>>

----------------------------------------------------------------------------
(* spawn_managed_run_with_version for a replay of run i - 1.               *)

Create(i) ==
  /\ i > 1 /\ status[i] = "none" /\ status[i - 1] \in Ended
  /\ Patient => ~Busy(i - 1) /\ i - 1 \notin swept
  /\ status' = [status EXCEPT ![i] = "pending"]
  /\ walk' = [walk EXCEPT ![<<"start", i>>] = From(<<"start", i>>, "claim", "running", TRUE)]
  /\ UNCHANGED <<live, logVars, swept, cut, crashes>>

Claim(i) ==
  /\ walk[<<"start", i>>].pc = "claim"
  /\ \/ /\ status[i] = "pending"
        /\ status' = [status EXCEPT ![i] = "running"]
        /\ Goto(<<"start", i>>, "establish")
     \/ /\ status[i] # "pending"
        /\ walk' = [walk EXCEPT ![<<"start", i>>] = Idle]
        /\ UNCHANGED status
  /\ UNCHANGED <<live, logVars, swept, cut, crashes>>

Establish(i) ==
  /\ walk[<<"start", i>>].pc = "establish"
  /\ established' = [established EXCEPT ![i] = TRUE]
  /\ Goto(<<"start", i>>, "replayed")
  /\ UNCHANGED <<status, live, replayed, told, decision, swept, cut, crashes>>

RecordReplayed(i) ==
  /\ walk[<<"start", i>>].pc = "replayed"
  /\ replayed' = [replayed EXCEPT ![i - 1] = TRUE]
  /\ Goto(<<"start", i>>, "decide")
  /\ UNCHANGED <<status, live, established, told, decision, swept, cut, crashes>>

\* The decision of the direct source names the child and no leaf.
Decide(i) ==
  /\ walk[<<"start", i>>].pc = "decide"
  /\ decision' = [decision EXCEPT ![i - 1] = [child |-> i, leaf |-> 0, state |-> "none"]]
  /\ Goto(<<"start", i>>, "look")
  /\ UNCHANGED <<status, live, established, replayed, told, swept, cut, crashes>>

Go(i) ==
  /\ walk[<<"start", i>>].pc = "go"
  /\ live' = [live EXCEPT ![i] = TRUE]
  /\ walk' = [walk EXCEPT ![<<"start", i>>] = Idle]
  /\ UNCHANGED <<status, logVars, swept, cut, crashes>>

\* The client that asked for the replay disconnects: the handler is dropped and
\* the row is left to the sweep.
DropStart(i) ==
  /\ walk[<<"start", i>>].pc # "idle"
  /\ walk' = [walk EXCEPT ![<<"start", i>>] = Idle]
  /\ UNCHANGED <<status, live, logVars, swept, cut, crashes>>

----------------------------------------------------------------------------
(* The ends of a run.                                                      *)

\* finalize_managed_run, or terminate_managed_run for a cancel request.  A run
\* that was ended by the sweep is no longer the finalizer's to write.
End(i) ==
  /\ live[i]
  /\ live' = [live EXCEPT ![i] = FALSE]
  /\ \/ /\ status[i] = "running"
        /\ \E s \in {"completed", "failed", "cancelled"} : status' = [status EXCEPT ![i] = s]
        /\ walk' = [walk EXCEPT ![<<"end", i>>] = From(<<"end", i>>, "load", "none", TRUE)]
     \/ status[i] # "running" /\ UNCHANGED <<status, walk>>
  /\ UNCHANGED <<logVars, swept, cut, crashes>>

\* A response handler terminates a run whose finalizer is at work: the task is
\* aborted where it is, and the terminator finds the row ended.
Abort(i) ==
  /\ walk[<<"end", i>>].pc # "idle"
  /\ walk' = [walk EXCEPT ![<<"end", i>>] = Idle]
  /\ cut' = cut \cup {i}
  /\ UNCHANGED <<status, live, logVars, swept, crashes>>

\* handle_managed_run_cancel of a run that has ended, or that it has just ended.
\* A run whose own continuation has ended too is told of again (README).
Cancel(i) ==
  /\ i > 1 /\ status[i] \in Ended /\ walk[<<"cancel", i>>].pc = "idle"
  /\ ReplayChild(i) => status[Leaf(i)] # "running"
  /\ Patient => Leaf(i) = i
  /\ walk' = [walk EXCEPT ![<<"cancel", i>>] = From(<<"cancel", i>>, "look", status[i], FALSE)]
  /\ cut' = cut \ {i}
  /\ UNCHANGED <<status, live, logVars, swept, crashes>>

\* The handler of the cancel request is dropped.
DropCancel(i) ==
  /\ walk[<<"cancel", i>>].pc # "idle"
  /\ walk' = [walk EXCEPT ![<<"cancel", i>>] = Idle]
  /\ cut' = cut \cup {i}
  /\ UNCHANGED <<status, live, logVars, swept, crashes>>

\* A cancel request for a run that is being started finds no registry entry
\* and writes the row itself.
CancelStarting(i) ==
  /\ ~Patient /\ status[i] \in Active /\ ~live[i] /\ walk[<<"cancel", i>>].pc = "idle"
  /\ status' = [status EXCEPT ![i] = "cancelled"]
  /\ walk' = [walk EXCEPT ![<<"cancel", i>>] = IF i = 1 THEN Idle
                ELSE From(<<"cancel", i>>, "look", "cancelled", FALSE)]
  /\ UNCHANGED <<live, logVars, swept, cut, crashes>>

----------------------------------------------------------------------------
(* The recovery sweep and the process.                                     *)

\* reconcile_incomplete_runs: the lease of an attended run does not run out.
Reconcile ==
  /\ swept = {} /\ \A i \in Members : walk[<<"sweep", i>>].pc = "idle"
  /\ LET lost == {i \in Members : status[i] \in Active /\ ~Attended(i)} IN
       /\ lost # {}
       /\ status' = [i \in Members |-> IF i \in lost THEN "interrupted" ELSE status[i]]
       /\ swept' = lost
  /\ UNCHANGED <<live, logVars, walk, cut, crashes>>

\* One reconciled run after the other.
SweepTells(i) ==
  /\ i \in swept /\ \A j \in Members : walk[<<"sweep", j>>].pc = "idle"
  /\ swept' = swept \ {i}
  /\ walk' = [walk EXCEPT ![<<"sweep", i>>] = IF i = 1 THEN Idle
                ELSE From(<<"sweep", i>>, "look", "interrupted", FALSE)]
  /\ UNCHANGED <<status, live, logVars, cut, crashes>>

\* The gateway dies: what ended and was not told yet is not told by the next
\* one, which reconciles active rows only.
Crash ==
  /\ crashes < MaxCrashes /\ crashes' = crashes + 1
  /\ live' = [i \in Members |-> FALSE]
  /\ walk' = [t \in Walks |-> Idle]
  /\ cut' = cut \cup swept \cup {i \in Members : status[i] \in Ended /\ Busy(i)}
  /\ swept' = {}
  /\ UNCHANGED <<status, logVars>>

WalkStep(t) == LoadRow(t) \/ Look(t) \/ Tell(t) \/ Follow(t)
StartStep(i) == Claim(i) \/ Establish(i) \/ RecordReplayed(i) \/ Decide(i) \/ Go(i)

Next == \/ \E t \in Walks : WalkStep(t)
        \/ \E i \in Members : \/ Create(i) \/ StartStep(i) \/ DropStart(i) \/ End(i) \/ Abort(i)
                              \/ Cancel(i) \/ DropCancel(i) \/ CancelStarting(i) \/ SweepTells(i)
        \/ Reconcile \/ Crash

Spec == Init /\ [][Next]_vars

----------------------------------------------------------------------------
(* Properties.                                                             *)

TypeOK ==
  /\ status \in [Members -> {"none"} \cup Active \cup Ended]
  /\ live \in [Members -> BOOLEAN] /\ established \in [Members -> BOOLEAN]
  /\ replayed \in [Members -> BOOLEAN]
  /\ told \in [Members -> [run : 0..Length, state : {"none", "active"} \cup Ended, owner : BOOLEAN]]
  /\ decision \in [Members -> [child : 0..Length, leaf : 0..Length,
                            state : {"none", "running"} \cup Ended]]
  /\ walk \in [Walks -> [pc : {"idle"} \cup StartSteps \cup WalkSteps,
                         state : {"none", "running"} \cup Ended, owner : BOOLEAN, at : 0..Length]]
  /\ swept \subseteq Members /\ cut \subseteq Members /\ crashes \in 0..MaxCrashes

\* Nobody is about to write.
Quiet == /\ walk = [t \in Walks |-> Idle] /\ swept = {}
         /\ \A i \in Members : status[i] \in Active => live[i]

\* The log of a source names the leaf and its state, and so do the decisions
\* of the sources beyond the first.
Tells(s) == /\ told[s].run = Leaf(s) /\ told[s].state = Label(Takeover(s).state)
            /\ s + 1 < Leaf(s) => decision[s] = Aligned(s)

\* Once everybody who tells of a run is done, the logs of the runs it continues
\* say what the rows say: which run continues them and whether it is active or
\* how it ended.  Excepted is a leaf whose walk was cut short.
LogsAgreeWithRows ==
  Quiet => \A s \in Members : (ReplayChild(s) /\ Leaf(s) \notin cut) => Tells(s)
=============================================================================
