------------------------------ MODULE RunSummary ------------------------------
(***************************************************************************)
(* What is said of a run, and of the leaf that continues it: a summary of  *)
(* the run's event log, of which it reads the latest event of each kind,   *)
(* one query after the other, while whoever executes the run writes more.  *)
(* The sweep decides about a replay by a summary, and an operator is given *)
(* a hint and a note from another reading of the same table.               *)
(***************************************************************************)
EXTENDS Naturals, SequencesExt

CONSTANTS Used,      \* the tools that the run uses
          MaxEvents  \* bound on its events, but for those of a call that is closed

VARIABLES subject,  \* "source": an interrupted run, "leaf": the run that continues it
          log,      \* its events, in the order of their ids
          since,    \* how many there were at the first query
          got       \* the answers to the queries so far: ids, 0 for none
vars == <<subject, log, since, got>>

Families == {"process", "browser", "mcp"}
Family == [terminal |-> "process",
           click |-> "browser", snapshot |-> "browser", close |-> "browser",
           mcp_call |-> "mcp", resource_read |-> "mcp"]
\* Completed, failed and timed out count alike.
Kinds(f) == <<[family |-> f, kind |-> "started"], [family |-> f, kind |-> "ended"]>>
State(f) == [family |-> f, kind |-> "latest"]
Checkpoint == State("checkpoint")
Event(q, what) == [family |-> q.family, kind |-> q.kind, what |-> what]
Events == {Event(Kinds(Family[t])[k], t) : t \in Used, k \in {1, 2}}
          \cup {Event(State("session"), w) : w \in {"live", "over"}}
          \cup {Event(State("runtime"), w) : w \in {"live", "over"}}
          \cup {Event(Checkpoint, "saved"), Event(State("provider"), "called")}

----------------------------------------------------------------------------
(* The queries, of load_managed_run_derived_summary and of                 *)
(* load_replay_run_takeover_context, which reads the checkpoint again for  *)
(* every family.                                                           *)

SourcePlan == <<Checkpoint, State("session"), State("runtime"), State("provider")>>
              \o Kinds("process") \o Kinds("browser") \o Kinds("mcp")
LeafPlan == <<Checkpoint, State("provider"), Checkpoint>>
            \o Kinds("process") \o <<Checkpoint>>
            \o Kinds("browser") \o <<Checkpoint, State("session")>>
            \o Kinds("mcp") \o <<Checkpoint, State("runtime")>>
Plan == IF subject = "source" THEN SourcePlan ELSE LeafPlan
Done == Len(got) = Len(Plan)

\* get_latest_run_event_by_kind.
Answer(q) == Max({0} \cup {i \in DOMAIN log : log[i].family = q.family /\ log[i].kind = q.kind})
Query ==
  /\ ~Done /\ got' = Append(got, Answer(Plan[Len(got) + 1]))
  /\ since' = IF got = <<>> THEN Len(log) ELSE since
  /\ UNCHANGED <<subject, log>>

\* A call has been made and its result is stored.
Closed(t) == <<Event(Kinds(Family[t])[1], t), Event(Kinds(Family[t])[2], t),
               Event(Checkpoint, "saved")>>
Old == IF \E t \in Used : IsPrefix(Closed(t), log) THEN 3 ELSE 0

\* Whoever executes the run, the old worker of an interrupted one included: an
\* action is announced before it ends, and each family has one at a time.
Open(f, t) == \E i \in DOMAIN log :
  /\ log[i] = Event(Kinds(f)[1], t)
  /\ \A j \in i + 1..Len(log) : log[j].family # f
Write(e) ==
  /\ Len(log) - Old < MaxEvents
  /\ e.family \in Families =>
       /\ e.kind = "started" => ~\E t \in Used : Open(e.family, t)
       /\ e.kind = "ended" => Open(e.family, e.what)
  /\ log' = Append(log, e) /\ UNCHANGED <<subject, since, got>>

----------------------------------------------------------------------------
(* The summary                                                             *)

Asked(f) == {i \in DOMAIN Plan : Plan[i].family = f}
\* The youngest of the answers about a family.
BadLatest(f) == LET given == {i \in Asked(f) : got[i] # 0}
                IN IF given = {} THEN 0 ELSE got[Max(given)]
Latest(f) == Max({got[i] : i \in Asked(f)})
\* The checkpoint it is compared with.
Fence(f) == got[IF subject = "source" THEN 1
                ELSE Min({i \in Asked("checkpoint") : i > Max(Asked(f))})]
\* A milestone that a checkpoint has not closed.
Carried(f) == Latest(f) > Fence(f)
Live(f) == Latest(f) # 0 /\ log[Latest(f)].what = "live"
Milestone(f) == log[Latest(f)]

\* managed_run_process_handoff_from_event, .._browser_.., and mcp_replay_disposition.
ReplaySafe == {"snapshot", "close", "resource_read"}
Disposition(f) == IF Milestone(f).what \in ReplaySafe THEN "safe"
                  ELSE IF Milestone(f).kind = "started" THEN "window" ELSE "unrecorded"
Unsafe(f) == Carried(f) /\ Disposition(f) \in {"window", "unrecorded"}
NeedsSession == Carried("browser") /\ Milestone("browser").what # "close"
NeedsRuntime == Carried("mcp") /\ Milestone("mcp").what # "resource_read"

\* What the takeover says that the leaf carries.
Carries == {f \in Families \cup {"provider"} : Carried(f)}
           \cup {f \in {"session", "runtime"} : Live(f)}

----------------------------------------------------------------------------
(* What follows from it                                                    *)

\* The entry of the first row that applies.
First(table) == LET rows == {i \in DOMAIN table : table[i][1]}
                IN IF rows = {} THEN "none" ELSE table[Min(rows)][2]

\* build_managed_takeover_assessment, and the first reason not to replay.
Reason == First(
  << <<Carried("process"), "process_handoff_risk">>,
     <<NeedsSession \/ Unsafe("browser"), "browser_handoff_risk">>,
     <<Live("session"), "browser_session_state">>,
     <<NeedsRuntime \/ Unsafe("mcp"), "mcp_handoff_risk">>,
     <<Live("runtime"), "mcp_runtime_state">> >>)

\* managed_run_recovery_hint_from_run.
BadHint(prompt) == IF \/ \E f \in Families : Unsafe(f)
              \/ Live("session") \/ Live("runtime")
           THEN "manual_review" ELSE IF prompt THEN "replay" ELSE "none"
Hint(prompt) == IF \/ \E f \in Families : Unsafe(f)
           \/ NeedsSession \/ Live("session") \/ NeedsRuntime \/ Live("runtime")
        THEN "manual_review" ELSE IF prompt THEN "replay" ELSE "none"

\* managed_run_recovery_note, of a run that nobody continues.
Boundary(f) == IF Unsafe(f) THEN "blocked" ELSE "safe"
Note(prompt) == First(
  << <<~prompt, "no prompt">>,
     <<Carried("process"), Boundary("process")>>,
     <<NeedsSession, "session is lost">>,
     <<Carried("browser"), Boundary("browser")>>,
     <<Live("session"), "session is lost">>,
     <<NeedsRuntime, "runtime is lost">>,
     <<Carried("mcp"), Boundary("mcp")>>,
     <<Live("runtime"), "runtime is lost">>,
     <<Carried("provider"), "may call again">>,
     <<Latest("checkpoint") # 0, "resumes">> >>)

Init == /\ subject \in {"source", "leaf"}
        /\ log \in {<<>>} \cup {Closed(t) : t \in Used} /\ since = 0 /\ got = <<>>

Next == Query \/ \E e \in Events : Write(e)

Spec == Init /\ [][Next]_vars

----------------------------------------------------------------------------
(* Properties                                                              *)

TypeOK == /\ \A i \in DOMAIN log : log[i] \in Events
          /\ since \in 0..Len(log) /\ \A i \in DOMAIN got : got[i] \in 0..Len(log)

\* The log as it was when it had n events.
LatestIn(n, f) == Max({0} \cup {i \in 1..n : log[i].family = f})
CarriedIn(n, f) == IF f \in {"session", "runtime"}
                   THEN LatestIn(n, f) # 0 /\ log[LatestIn(n, f)].what = "live"
                   ELSE LatestIn(n, f) > LatestIn(n, "checkpoint")
Moments == since..Len(log)

\* Whatever is written between the queries: what the run carries all the while is
\* in the summary, what the summary says it carries it did at some moment, and
\* the milestone that is told was its latest then.
SummaryIsTrue ==
  Done => LET told == Carries IN \A f \in Families \cup {"provider", "session", "runtime"} :
    /\ (\A n \in Moments : CarriedIn(n, f)) => f \in told
    /\ f \in told => \E n \in Moments : CarriedIn(n, f) /\ LatestIn(n, f) = Latest(f)

\* The hint asks for a review just when the sweep refuses the run, and a note
\* says that the replay is blocked, or the session lost, of such a run only.
HintAgrees ==
  Done /\ subject = "source" => LET refused == Reason # "none" IN \A prompt \in BOOLEAN :
    /\ Hint(prompt) = "manual_review" <=> refused
    /\ Note(prompt) \in {"blocked", "session is lost", "runtime is lost"} => refused

SummarySound == SummaryIsTrue /\ HintAgrees

\* Not kept (README): the note of a run that is refused does not call it safe.
NoteSaysWhy ==
  Done /\ subject = "source" /\ Reason # "none" => Note(TRUE) # "safe"
=============================================================================
