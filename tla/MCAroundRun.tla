----------------------------- MODULE MCAroundRun ------------------------------
(***************************************************************************)
(* What is told of a managed run and what it leaves behind, for TLC: who   *)
(* follows its events, what the summary of them says, what of it is told   *)
(* to the run it continues and of who continues it, and what its tools     *)
(* started.  They are instances of their own: in a behaviour one of them,  *)
(* named by part, moves.                                                   *)
(***************************************************************************)
EXTENDS SessionCleanup, TLC

\* A foreground and a background process, a browser, and an MCP session that two
\* calls use.
CONSTANTS command, background, browser, firstCall, secondCall

VARIABLES part,
          status, log, relay, call, audit, task, follower, shown, verifier, eventFaults,
          subject, history, since, got,
          leaf, facts, update, tell, unsaid, written, reportFaults,
          lineageRows, source, lineageLog, hand, over, by, done, lineageFaults

MCOf == (command :> "group") @@ (background :> "process") @@ (browser :> "browser")
        @@ (firstCall :> "session") @@ (secondCall :> "session")

Events == INSTANCE RunEvents WITH
  Calls <- {"a", "b"}, Page <- 3, RelayCap <- 2, KeepsUp <- TRUE, MaxFaults <- 1,
  faults <- eventFaults
Summary == INSTANCE RunSummary WITH
  Used <- {"terminal", "click", "snapshot", "close", "mcp_call", "resource_read"},
  MaxEvents <- 2, log <- history
Report == INSTANCE RunReport WITH MaxFacts <- 2, MaxFaults <- 1, faults <- reportFaults
Lineage == INSTANCE LineageReport WITH
  Children <- {"c1", "c2"}, Workers <- {"w1", "w2"}, MaxFaults <- 1,
  rows <- lineageRows, log <- lineageLog, faults <- lineageFaults

eventVars == <<status, log, relay, call, audit, task, follower, shown, verifier, eventFaults>>
summaryVars == <<subject, history, since, got>>
reportVars == <<leaf, facts, update, tell, unsaid, written, reportFaults>>
lineageVars == <<lineageRows, source, lineageLog, hand, over, by, done, lineageFaults>>
all == <<part, vars, eventVars, summaryVars, reportVars, lineageVars>>

AroundInit == /\ part \in {"events", "summary", "report", "lineage", "cleanup"}
              /\ Init /\ Events!Init /\ Summary!Init /\ Report!Init /\ Lineage!Init
              /\ part # "summary" => subject = "source" /\ history = <<>>

AroundNext ==
  \/ part = "events" /\ Events!Next /\ UNCHANGED <<part, vars, summaryVars, reportVars, lineageVars>>
  \/ part = "summary" /\ Summary!Next /\ UNCHANGED <<part, vars, eventVars, reportVars, lineageVars>>
  \/ part = "report" /\ Report!Next /\ UNCHANGED <<part, vars, eventVars, summaryVars, lineageVars>>
  \/ part = "lineage" /\ Lineage!Next /\ UNCHANGED <<part, vars, eventVars, summaryVars, reportVars>>
  \/ part = "cleanup" /\ Next /\ UNCHANGED <<part, eventVars, summaryVars, reportVars, lineageVars>>

\* The fairness of SessionCleanup.
AroundFairness ==
  /\ WF_vars(part = "cleanup" /\ Agent) /\ WF_vars(part = "cleanup" /\ AgentDies)
  /\ WF_vars(part = "cleanup" /\ End) /\ WF_vars(part = "cleanup" /\ Sweep)
  /\ WF_vars(part = "cleanup" /\ \E e \in Entries : Task(e))

AroundSpec == AroundInit /\ [][AroundNext]_all /\ AroundFairness

RunLeavesNothing == part = "cleanup" => EndedRunLeavesNothing
ReadersSeeTruth == /\ Events!ReadersSeeAll
                   /\ part = "summary" => Summary!SummarySound
                   /\ part = "report" => Report!ReportSound
                   /\ part = "lineage" => Lineage!LineageSurvives
=============================================================================
