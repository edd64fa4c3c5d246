------------------------------- MODULE RunReport -------------------------------
(***************************************************************************)
(* What is told of the leaf that continues a run.  Its summary has a fact  *)
(* for each of several topics.  Whoever starts, ends, interrupts or cancels*)
(* it copies the facts into a run.takeover_updated event in the log of its *)
(* source (append_takeover_update_for_source_run); the sweep adds what it  *)
(* decides; an operator reads lines, details and a note made from the same *)
(* facts.  Which event goes to which run is in RunTakeover, how a summary  *)
(* is read in RunSummary.                                                  *)
(***************************************************************************)
EXTENDS Naturals, FiniteSets

CONSTANTS MaxFacts,  \* bound on the facts that the leaf's worker writes
          MaxFaults  \* bound on failing store calls

VARIABLES leaf,    \* the status of the leaf
          facts,   \* by topic, what its summary says
          update,  \* the latest run.takeover_updated event of its source
          tell,    \* each teller: [pc, status, owner, said, stale]
          unsaid,  \* history: topics written since the last telling read them
          written, faults
vars == <<leaf, facts, update, tell, unsaid, written, faults>>

Handoffs == {"process", "browser", "mcp"}
Topics == Handoffs \cup {"session", "runtime", "checkpoint", "fence", "artifact", "claim",
                         "assessment", "decision", "release"}
Nothing == [there |-> FALSE]
Given == [there |-> TRUE]
Tellers == {"start", "end", "cancel"}
Idle == [pc |-> "idle", status |-> "none", owner |-> FALSE, said |-> [t \in {} |-> Nothing],
         stale |-> {}]
Fault == faults < MaxFaults /\ faults' = faults + 1

----------------------------------------------------------------------------
(* The facts of a topic.                                                   *)

\* A side effect that began or ended without its result being stored.
Disposition(safe, s) == IF safe THEN "safe" ELSE IF s = "started" THEN "window" ELSE "unrecorded"
States == {"started", "ended"}

ProcessFacts == {[there |-> TRUE, tool |-> "terminal", state |-> s, disposition |-> Disposition(FALSE, s)]
                 : s \in States}
BrowserFacts == {[there |-> TRUE, tool |-> a, state |-> s, disposition |-> Disposition(a # "click", s)]
                 : a \in {"click", "snapshot", "close"}, s \in States}
\* classify_mcp_replay, of a call of a server's tool, a resource that is read,
\* and resource updates that are read, or cleared.
McpFacts == {[there |-> TRUE, tool |-> c[1], state |-> s, live |-> c[2], disposition |-> Disposition(~c[2], s)]
             : c \in {<<"call", TRUE>>, <<"read", FALSE>>, <<"updates", TRUE>>, <<"updates", FALSE>>},
               s \in States}
Risky == Handoffs \cup {"session", "runtime"}
AssessmentFacts == {[there |-> TRUE, risks |-> r, provider |-> p] : r \in SUBSET Risky, p \in BOOLEAN}
FactsOf(t) ==
  CASE t = "process" -> ProcessFacts
    [] t = "browser" -> BrowserFacts
    [] t = "mcp"     -> McpFacts
    [] t \in {"session", "runtime"} -> {[there |-> TRUE, live |-> b] : b \in BOOLEAN}
    [] t = "assessment" -> AssessmentFacts
    [] OTHER -> {Given}

\* build_managed_takeover_assessment: what forbids an automatic replay.
Blocks(t, f) ==
  /\ f.there
  /\ \/ t = "process"
     \/ t = "browser" /\ (f.tool # "close" \/ f.disposition # "safe")
     \/ t = "mcp" /\ (f.live \/ f.disposition # "safe")
     \/ t \in {"session", "runtime"} /\ f.live
Blocking(said) == {t \in Topics : Blocks(t, said[t])}
Assessment == [there |-> TRUE, risks |-> Blocking(facts), provider |-> facts["fence"].there]

----------------------------------------------------------------------------
(* Surfaces: the fields that each shows of a topic.                        *)

Whole == {"there", "tool", "state", "disposition", "live", "risks", "provider"}

\* What the takeover of a run carries along: a browser session or an MCP runtime
\* only while it is live.
Carried(said) == [t \in Topics |-> IF t \in {"session", "runtime"} /\ ~Blocks(t, said[t])
                                   THEN Nothing ELSE said[t]]

\* Lines of the CLI about the run itself, and the details of a takeover: in the
\* list they are cut at 160 characters.
RecordLines == [t \in {"claim", "checkpoint", "fence", "artifact", "release", "decision"} |-> Whole]
HandoffLines == [process |-> {"there", "tool", "state", "disposition"},
                 browser |-> {"there", "tool", "state", "disposition"},
                 mcp |-> {"there", "tool", "state", "disposition", "live"}]
StateLines == [t \in {"session", "runtime"} |-> {"there", "live"}]
AssessmentLine == [assessment |-> {"there", "risks", "provider"}]
Lines(t) == IF t \in Handoffs THEN HandoffLines[t]
            ELSE IF t \in {"session", "runtime"} THEN StateLines[t]
            ELSE IF t = "assessment" THEN AssessmentLine[t] ELSE RecordLines[t]
\* The details of a takeover are the same lines, of what it carries.
Details(t) == Lines(t)
\* managed_run_recovery_note, of a run that is continued.
NoteOfTakeover(t) ==
  CASE t \in Handoffs -> {"there", "tool"}
    [] t \in {"session", "runtime", "checkpoint", "fence", "artifact", "decision"} -> {"there"}
    [] OTHER -> {}

\* Any other fact that would be shown alike might be the true one.
Shown(fields, f) == [x \in fields \cap DOMAIN f |-> f[x]]
Concluded(Fields(_), said) ==
  {t \in Risky : \E f \in FactsOf(t) : /\ Shown(Fields(t), f) = Shown(Fields(t), said[t])
                                       /\ Blocks(t, f)}
Mentioned(Fields(_), said) == {t \in Topics : "there" \in Fields(t) /\ said[t].there}

----------------------------------------------------------------------------
(* The life of the leaf.                                                   *)

Note(ts) == /\ unsaid' = unsaid \cup ts
            /\ tell' = [k \in Tellers |-> [tell[k] EXCEPT !.stale =
                          IF tell[k].pc = "idle" THEN {} ELSE @ \cup ts]]
\* A checkpoint closes the handoffs and the provider call before it.
Closes(t) == IF t = "checkpoint" THEN Handoffs \cup {"fence"} ELSE {}
Work(t, f) ==
  /\ leaf = "running" /\ tell["start"].pc = "idle" /\ written < MaxFacts
  /\ t \in Topics \ {"claim", "assessment", "decision", "release"} /\ f \in FactsOf(t)
  /\ facts' = [u \in Topics |-> IF u = t THEN f ELSE IF u \in Closes(t) THEN Nothing ELSE facts[u]]
  /\ Note({t} \cup Closes(t)) /\ written' = written + 1
  /\ UNCHANGED <<leaf, update, faults>>

Begin(k, s, owner, ts) ==
  /\ tell' = [j \in Tellers |-> IF j = k THEN [Idle EXCEPT !.pc = "summary", !.status = s, !.owner = owner]
                                ELSE [tell[j] EXCEPT !.stale = IF @ # {} \/ tell[j].pc # "idle" THEN @ \cup ts ELSE @]]
  /\ unsaid' = unsaid \cup ts

\* finalize_managed_run, or reconcile_incomplete_runs: the release is best effort.
End(s) ==
  /\ leaf = "running" /\ tell["start"].pc = "idle" /\ s \in {"completed", "interrupted"}
  /\ leaf' = s
  /\ \/ facts' = [facts EXCEPT !["release"] = Given] /\ UNCHANGED faults
     \/ Fault /\ UNCHANGED facts
  /\ Begin("end", s, s = "completed", {"release"})
  /\ UNCHANGED <<update, written>>

\* handle_managed_run_cancel of a run that has ended.
Cancel == /\ leaf # "running" /\ tell["cancel"].pc = "idle"
          /\ Begin("cancel", leaf, FALSE, {}) /\ UNCHANGED <<leaf, facts, update, written, faults>>

\* maybe_auto_replay_interrupted_runs, when it refuses a replay: an assessment
\* that is the latest already is not repeated.
Assess == /\ leaf = "interrupted" /\ tell["end"].pc = "idle"
          /\ facts["assessment"] # Assessment
          /\ facts' = [facts EXCEPT !["assessment"] = Assessment] /\ Note({"assessment"})
          /\ UNCHANGED <<leaf, update, written, faults>>
Decide == /\ facts["assessment"].there /\ facts["assessment"].risks # {} /\ ~facts["decision"].there
          /\ facts' = [facts EXCEPT !["decision"] = Given] /\ Note({"decision"})
          /\ UNCHANGED <<leaf, update, written, faults>>

----------------------------------------------------------------------------
(* append_takeover_update_for_source_run                                   *)

Silent == [t \in Topics |-> Nothing]
Step(k, next) == tell' = [tell EXCEPT ![k] = next]
\* A telling that cannot read goes on without.
ReadSummary(k) ==
  /\ tell[k].pc = "summary"
  /\ \/ /\ Step(k, [tell[k] EXCEPT !.pc = "assessment",
                     !.said = [Carried(facts) EXCEPT !["assessment"] = Nothing], !.stale = {}])
        /\ UNCHANGED <<unsaid, faults>>
     \/ Fault /\ Step(k, [tell[k] EXCEPT !.pc = "assessment", !.said = Silent, !.stale = Topics])
        /\ UNCHANGED unsaid
  /\ UNCHANGED <<leaf, facts, update, written>>

ReadAssessment(k) ==
  /\ tell[k].pc = "assessment"
  /\ \/ /\ Step(k, [tell[k] EXCEPT !.pc = "compare",
                                   !.said["assessment"] = facts["assessment"],
                                   !.stale = @ \ {"assessment"}])
        /\ UNCHANGED faults
     \/ Fault /\ Step(k, [tell[k] EXCEPT !.pc = "compare", !.stale = @ \cup {"assessment"}])
  /\ UNCHANGED <<leaf, facts, update, unsaid, written>>

Message(k) == [status |-> tell[k].status, owner |-> tell[k].owner, said |-> tell[k].said]
Over(k) == Step(k, Idle) /\ unsaid' = tell[k].stale

\* The latest update of the source is compared with the new one, metadata included.
Same(k) == update = Message(k)
Compare(k) ==
  /\ tell[k].pc = "compare"
  /\ \/ Same(k) /\ Over(k) /\ UNCHANGED faults
     \/ ~Same(k) /\ Step(k, [tell[k] EXCEPT !.pc = "append"]) /\ UNCHANGED <<unsaid, faults>>
     \/ Fault /\ Step(k, [tell[k] EXCEPT !.pc = "append"]) /\ UNCHANGED unsaid
  /\ UNCHANGED <<leaf, facts, update, written>>

AppendUpdate(k) ==
  /\ tell[k].pc = "append"
  /\ \/ update' = Message(k) /\ Over(k) /\ UNCHANGED faults
     \/ Fault /\ Step(k, Idle) /\ UNCHANGED <<update, unsaid>>
  /\ UNCHANGED <<leaf, facts, written>>

Init ==
  /\ leaf = "running" /\ facts = [Silent EXCEPT !["claim"] = Given]
  /\ update = [status |-> "none", owner |-> FALSE, said |-> Silent]
  /\ tell = [k \in Tellers |-> IF k = "start" THEN [Idle EXCEPT !.pc = "summary", !.status = "running",
                                                               !.owner = TRUE] ELSE Idle]
  /\ unsaid = {"claim"} /\ written = 0 /\ faults = 0

Telling(k) == ReadSummary(k) \/ ReadAssessment(k) \/ Compare(k) \/ AppendUpdate(k)
Next == \/ \E t \in Topics : \E f \in FactsOf(t) : Work(t, f)
        \/ \E s \in {"completed", "interrupted"} : End(s)
        \/ Cancel \/ Assess \/ Decide \/ \E k \in Tellers : Telling(k)
Spec == Init /\ [][Next]_vars

----------------------------------------------------------------------------
(* Properties                                                              *)

Quiet == \A k \in Tellers : tell[k].pc = "idle"

\* Once nobody is telling, the source's log says of every topic what the leaf's
\* summary says, but for what was written after the last telling began.
UpdateIsCurrent ==
  Quiet => \A t \in Topics \ unsaid : update.said[t] = Carried(facts)[t]

\* From the lines about a run, from the details of a takeover and from the event
\* an operator can tell which topics forbid a replay, and which do not.
ShownDecides ==
  /\ Concluded(Lines, facts) = Blocking(facts)
  /\ Concluded(Details, Carried(facts)) = Blocking(facts)
  /\ Concluded(Lines, update.said) = Blocking(update.said)
\* The note of a run that is continued hides none of them.
NoteWarns == Blocking(facts) \subseteq Mentioned(NoteOfTakeover, Carried(facts))

ReportSound == UpdateIsCurrent /\ ShownDecides /\ NoteWarns

\* Not kept (README): the note does not tell a call that reads resource updates
\* from one that clears them.
NoteDecides == Concluded(NoteOfTakeover, Carried(facts)) = Blocking(facts)
=============================================================================
