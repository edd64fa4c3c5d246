----------------------------- MODULE LineageReport -----------------------------
(***************************************************************************)
(* Who continues a run.  A worker that replays a run writes the child's row*)
(* and then six events, in two logs, that all say of which lineage the     *)
(* child is and who took it over (spawn_managed_run_with_version); any of  *)
(* them may be lost, and the worker may die between two.  The summary of   *)
(* the child and of its source puts the same facts together from what is   *)
(* there (load_managed_run_derived_summary).  Who may replay what, and     *)
(* when, is in RunReplay: here every run that has ended may be.            *)
(***************************************************************************)
EXTENDS Naturals, Sequences, FiniteSets

CONSTANTS Children,  \* runs that may be created as a replay
          Workers,
          MaxFaults  \* bound on events that are lost and workers that die

VARIABLES rows,    \* the runs that exist, by the time their row was written last
          source,  \* the run that each child continues
          log,     \* the latest event of each kind in a run's log
          hand,    \* what each worker is doing: [pc, run, draft]
          over,    \* runs that have ended
          by,      \* history: who created each child
          done,    \* history: children whose worker has gone through all the steps
          faults
vars == <<rows, source, log, hand, over, by, done, faults>>

Root == "root"
Runs == Children \cup {Root}
No == "none"
Nothing == [there |-> FALSE]
Kinds == {"created", "claimed", "established", "replayed", "decision"}
Exists == {rows[i] : i \in DOMAIN rows}
Rowed(r) == Append(SelectSeq(rows, LAMBDA x : x # r), r)
Idle == [pc |-> "idle", run |-> No, draft |-> Nothing]

----------------------------------------------------------------------------
(* The summary of a run.                                                   *)

ChildrenOf(r) == {i \in DOMAIN rows : source[rows[i]] = r}
LatestChild(r) == IF ChildrenOf(r) = {} THEN No
                  ELSE rows[CHOOSE i \in ChildrenOf(r) : \A j \in ChildrenOf(r) : j <= i]
Leaf(r) == LET down[n \in 0..Cardinality(Children)] ==
                 IF n = 0 THEN r
                 ELSE IF LatestChild(down[n - 1]) = No THEN down[n - 1] ELSE LatestChild(down[n - 1])
           IN down[Cardinality(Children)]

Provenance(r) == log[r]["created"]
\* A decision counts only for the run that it names.
DecisionFor(r, c) ==
  IF log[r]["decision"].there /\ log[r]["decision"].run = c THEN log[r]["decision"] ELSE Nothing

\* Without an event of its own, a takeover is put together from what its run
\* was created with and what was decided of its source.
Legacy(c) == LET d == DecisionFor(source[c], c)
             IN [Provenance(c) EXCEPT !.worker = IF d.there THEN d.worker ELSE @]
Continuation(c) ==
  IF log[c]["established"].there THEN log[c]["established"]
  ELSE IF Provenance(c).there THEN Legacy(c) ELSE Nothing

\* The event in the run's own log, or else the child that was written last, once
\* it has been claimed or has taken over.
ReplayChild(r) ==
  LET c == LatestChild(r)
  IN IF log[r]["replayed"].there THEN log[r]["replayed"]
     ELSE IF c # No /\ (log[c]["established"].there \/ log[c]["claimed"].there)
     THEN [there |-> TRUE, run |-> c,
           lineage |-> IF Provenance(c).there THEN Provenance(c).lineage ELSE No]
     ELSE Nothing

FirstOf(said) == LET there == SelectSeq(said, LAMBDA e : e.there)
                 IN IF there = <<>> THEN [lineage |-> No, worker |-> No] ELSE Head(there)
Takeover(r) ==
  LET c == Leaf(r)
      said == FirstOf(<<Continuation(c), Provenance(c), DecisionFor(r, c)>>)
  IN IF c = r \/ ~ReplayChild(r).there THEN Nothing
     ELSE [there |-> TRUE, run |-> c, lineage |-> said.lineage, worker |-> said.worker]
\* align_follow_replay_decision_with_takeover
Followed(r) ==
  LET d == log[r]["decision"]
  IN IF ~d.there \/ ~Takeover(r).there THEN d
     ELSE [d EXCEPT !.lineage = Takeover(r).lineage, !.target = Takeover(r).run,
                    !.worker = IF Takeover(r).worker # No THEN Takeover(r).worker ELSE @]

----------------------------------------------------------------------------
(* A replay.                                                               *)

\* effective_takeover_lineage_id: that of the source, when its summary says one.
Inherited(r, c) ==
  LET said == FirstOf(<<Continuation(r), Provenance(r)>>) IN IF said.lineage = No THEN c ELSE said.lineage

Unused == Children \ (Exists \cup {hand[w].run : w \in Workers})
\* build_managed_replay_provenance; the child gets a new id.
BuildProvenance(w, r) ==
  /\ hand[w].pc = "idle" /\ r \in over /\ Unused # {}
  /\ LET c == CHOOSE x \in Unused : TRUE
     IN hand' = [hand EXCEPT ![w] = [pc |-> "row", run |-> c,
                   draft |-> [there |-> TRUE, run |-> c, source |-> r, lineage |-> Inherited(r, c), worker |-> w]]]
  /\ UNCHANGED <<rows, source, log, over, by, done, faults>>

CreateRow(w) ==
  /\ hand[w].pc = "row"
  /\ rows' = Rowed(hand[w].run) /\ source' = [source EXCEPT ![hand[w].run] = hand[w].draft.source]
  /\ by' = [by EXCEPT ![hand[w].run] = w]
  /\ hand' = [hand EXCEPT ![w].pc = "created"] /\ UNCHANGED <<log, over, done, faults>>
Claim(w) ==
  /\ hand[w].pc = "claim" /\ rows' = Rowed(hand[w].run)
  /\ hand' = [hand EXCEPT ![w].pc = "claimed"] /\ UNCHANGED <<source, log, over, by, done, faults>>

\* The events, in order: the last two go to the source.
Follows == [created |-> "claim", claimed |-> "established", established |-> "replayed",
            replayed |-> "decision", decision |-> "idle"]
LogOf(w) == IF hand[w].pc \in {"replayed", "decision"} THEN hand[w].draft.source ELSE hand[w].run
Event(w) ==
  LET d == hand[w].draft
  IN [there |-> TRUE, run |-> d.run, lineage |-> d.lineage, worker |-> d.worker,
      target |-> No]
AppendEvent(w) ==
  /\ hand[w].pc \in Kinds
  /\ \/ log' = [log EXCEPT ![LogOf(w)][hand[w].pc] = Event(w)] /\ UNCHANGED faults
     \/ faults < MaxFaults /\ faults' = faults + 1 /\ UNCHANGED log
  /\ hand' = [hand EXCEPT ![w] = IF @.pc = "decision" THEN Idle ELSE [@ EXCEPT !.pc = Follows[@]]]
  /\ done' = IF hand[w].pc = "decision" THEN done \cup {hand[w].run} ELSE done
  /\ UNCHANGED <<rows, source, over, by>>

Die(w) == /\ hand[w].pc # "idle" /\ faults < MaxFaults /\ faults' = faults + 1
          /\ hand' = [hand EXCEPT ![w] = Idle] /\ UNCHANGED <<rows, source, log, over, by, done>>

\* A run ends, or is found abandoned: its row is written again.
End(r) == /\ r \in Exists \ over /\ \A w \in Workers : hand[w].run # r
          /\ over' = over \cup {r} /\ rows' = Rowed(r)
          /\ UNCHANGED <<source, log, hand, by, done, faults>>

Init ==
  /\ rows = <<Root>> /\ source = [r \in Runs |-> No] /\ over = {Root}
  /\ log = [r \in Runs |-> [k \in Kinds |-> Nothing]]
  /\ hand = [w \in Workers |-> Idle] /\ by = [r \in Runs |-> No] /\ done = {} /\ faults = 0

Next ==
  \/ \E w \in Workers : \/ \E r \in Runs : BuildProvenance(w, r)
                        \/ CreateRow(w) \/ Claim(w) \/ AppendEvent(w) \/ Die(w)
  \/ \E r \in Runs : End(r)
Spec == Init /\ [][Next]_vars

----------------------------------------------------------------------------
(* Properties                                                              *)

\* A run whose worker died before it said anything starts a lineage in its child.
Says(r) == log[r]["created"].there \/ log[r]["established"].there
Lineage == LET of[c \in Runs] == IF source[c] \in {No, Root} THEN c
                                 ELSE IF Says(source[c]) THEN of[source[c]] ELSE c
           IN of
SaysTruth(s, c) == s.lineage \in {No, Lineage[c]} /\ s.worker \in {No, by[c]}

\* Whatever is lost and whoever dies, the summary of a run and of its source say
\* of a continuation the lineage it belongs to and the worker that took it over,
\* or nothing; and while one event at most is lost they do say it of every child
\* whose worker has been through and that no later one replaces.
LineageSurvives ==
  LET told == [r \in Exists |-> Takeover(r)]
      kid == [r \in Exists |-> ReplayChild(r)]
  IN /\ \A c \in Exists \ {Root} :
          /\ Continuation(c).there => SaysTruth(Continuation(c), c)
          /\ c \in done => Continuation(c).there
          /\ c \in done /\ c = LatestChild(source[c]) => told[source[c]].there
     /\ \A r \in Exists :
          /\ told[r].there =>
               /\ SaysTruth(told[r], told[r].run)
               /\ told[r].run \in done => No \notin {told[r].lineage, told[r].worker}
          /\ kid[r].there => kid[r].lineage \in {No, Lineage[kid[r].run]}

\* Not kept (README): of two replays of a run at once, the event written last may
\* name another than the one that its takeover follows; and a decision that names
\* the first keeps its worker while it already points to the second.
ChildIsFollowed ==
  \A r \in Exists : Takeover(r).there => ReplayChild(r).run = LatestChild(r)
FollowedSaysTruth ==
  \A r \in Exists : Takeover(r).there /\ Followed(r).there
                    => Followed(r).worker \in {No, by[Takeover(r).run]}
=============================================================================
