---------------------------- MODULE MCMcpRuntime ----------------------------
(***************************************************************************)
(* hermes-mcp for TLC: two runtimes, one that may die, be given up or be   *)
(* released, with a stdio and an HTTP server, and one that stays; the      *)
(* client of one HTTP server; the admission of MCP tools to a run; and the *)
(* updates of the resources of MCP servers.                                *)
(* They are instances of their own: in a behaviour one of them, named by   *)
(* part, moves.                                                            *)
(***************************************************************************)
EXTENDS McpRuntime
CONSTANTS mortal, steady, local, remote,
          Calls, Repeats, MaxRestarts, MaxHttpFaults,  \* of McpHttp
          Beta, OtherBuiltIn, Offered, NotHere, HttpServers, StdioServers, Off,
          MaxAsked, MaxRefreshes,                      \* of McpAdmission
          Subscribed, MaxBuffered, Channel, Limits,
          MaxUpdates, MaxUpdateFaults, MaxUpdateRestarts   \* of McpUpdates

VARIABLES part,
          sessions, next, client, req, manifests, closing, refused, unnamed, restarts,
          httpFaults,
          asked, policy, source, step, left, found, built, caps, verdict, refreshes,
          sent, channel, buffer, file, answer, returned, writing, updateFaults, updateRestarts

MCConfigured == (mortal :> {local, remote}) @@ (steady :> {remote})

HttpClient == INSTANCE McpHttp WITH
  MaxFaults <- MaxHttpFaults, rows <- manifests, lost <- unnamed, faults <- httpFaults
Admission == INSTANCE McpAdmission WITH
  Http <- HttpServers, Stdio <- StdioServers, pc <- step
Updates == INSTANCE McpUpdates WITH
  Servers <- Subscribed, MaxFaults <- MaxUpdateFaults, MaxRestarts <- MaxUpdateRestarts,
  faults <- updateFaults, restarts <- updateRestarts

\* MAX_RESOURCE_UPDATES is 100, the capacity of the broadcast 64.
ASSUME UpdatesAssumption == MaxBuffered \in Nat /\ Channel \in Nat \ {0}

httpVars == <<sessions, next, client, req, manifests, closing, refused, unnamed, restarts,
              httpFaults>>
admissionVars == <<asked, policy, source, step, left, found, built, caps, verdict, refreshes>>
updateVars == <<sent, channel, buffer, file, answer, returned, writing, updateFaults,
                updateRestarts>>
all == <<part, vars, httpVars, admissionVars, updateVars>>

McpInit ==
  /\ part \in {"leases", "http", "admission", "updates"}
  /\ Init /\ HttpClient!Init /\ Updates!Init
  /\ IF part = "admission" THEN Admission!Init
     ELSE /\ asked = {} /\ policy = <<>> /\ source = <<>> /\ step = "none" /\ left = {}
          /\ found = <<>> /\ built = <<>> /\ caps = <<>> /\ verdict = <<>> /\ refreshes = 0

McpNext ==
  \/ part = "leases" /\ Next /\ UNCHANGED <<part, httpVars, admissionVars, updateVars>>
  \/ part = "http" /\ HttpClient!Next /\ UNCHANGED <<part, vars, admissionVars, updateVars>>
  \/ part = "admission" /\ Admission!Next /\ UNCHANGED <<part, vars, httpVars, updateVars>>
  \/ part = "updates" /\ Updates!Next /\ UNCHANGED <<part, vars, httpVars, admissionVars>>

\* The fairness of McpRuntime.
McpFairness ==
  /\ WF_vars(part = "leases" /\ Tick)
  /\ \A w \in Workers : WF_vars(part = "leases" /\ Step(w))
  /\ \A w \in Steady : WF_vars(part = "leases" /\ Start(w))

McpSpec == McpInit /\ [][McpNext]_all /\ McpFairness

AdmissionSound == part = "admission" => Admission!AdmissionSound
HttpSound == HttpClient!HttpSound
ClearRemovesReturned == Updates!ClearRemovesReturned
=============================================================================
