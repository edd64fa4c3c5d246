----------------------------- MODULE McpAdmission -----------------------------
(***************************************************************************)
(* Which tools a managed run gets.  Its version names tools; the registry  *)
(* of the gateway holds the built-in ones and, replaced whenever a server  *)
(* changes its list, those that MCP servers offer under names they choose. *)
(* The build of the run's registry looks up name by name, applies the      *)
(* operator's policy, connects to the servers that it allows, and admits   *)
(* all of what was asked for, or nothing, with the reason.                 *)
(***************************************************************************)
EXTENDS Naturals, FiniteSets

CONSTANTS Beta,         \* built-in tools that a managed run may have
          OtherBuiltIn, \* built-in tools that it may not have
          Offered,      \* names under which MCP servers may offer a tool
          NotHere,      \* tools of Beta that this gateway does not have
          Http, Stdio,  \* the MCP servers of the configuration, by transport
          Off,          \* those of them that are disabled
          MaxAsked,     \* bound on the tools of a version
          MaxRefreshes  \* bound on changes of the gateway's registry
PromptTools == {"mcp_prompt_list"}
ResourceTools == {"mcp_resource_read"}
ReadOnly == PromptTools \cup ResourceTools
SideEffect == {"mcp_resource_subscribe"}
Names == Beta \cup OtherBuiltIn \cup Offered \cup ReadOnly \cup SideEffect

VARIABLES
  asked,    \* the tools of the version
  policy,   \* [enabled, servers, transports, stdio, ready]
  source,   \* the gateway's registry: what each name stands for
  pc, left, \* the step of the build, and the names or servers it has left
  found,    \* what each name was when it was looked up
  built,    \* the registry of the run
  caps,     \* what the servers answered that were connected, or probed
  verdict,  \* [code, details, says] of a rejection: what is recorded, what is told
  refreshes
vars == <<asked, policy, source, pc, left, found, built, caps, verdict, refreshes>>

\* What a name stands for: the tools of the gateway, those of a server of either
\* transport, and the bridges to the prompts and resources of servers.
Kinds == {"none", "built-in", "stdio", "http", "bridge"}
NoVerdict == [code |-> "none", details |-> {}, says |-> {}]

\* replace_toolset: a tool of another toolset keeps its name.
BadReplaced(offer, transport) ==
  [n \in Names |-> IF n \in offer THEN transport
                   ELSE IF source[n] = "built-in" THEN "built-in" ELSE "none"]
Replaced(offer, transport) ==
  [n \in Names |-> IF source[n] = "built-in" THEN "built-in"
                   ELSE IF n \in offer THEN transport ELSE "none"]

\* Of the stdio servers only what decides is kept: which are allowed, and whether
\* they have a command and their environment is allowed.
Policies ==
  [enabled : BOOLEAN, servers : SUBSET Http, transports : SUBSET {"http", "stdio"},
   stdio : SUBSET Stdio, ready : BOOLEAN]

Init ==
  /\ asked \in {s \in SUBSET Names : Cardinality(s) \in 1..MaxAsked}
  /\ policy \in Policies
  /\ source = [n \in Names |->
                 IF n \in (Beta \cup OtherBuiltIn) \ NotHere THEN "built-in" ELSE "none"]
  /\ pc = "validate" /\ left = {} /\ found = [n \in Names |-> "none"]
  /\ built = [n \in Names |-> "none"] /\ caps = [s \in {} |-> {}]
  /\ verdict = NoVerdict /\ refreshes = 0

\* The gateway's MCP runtime lists what its servers offer at that moment.
Refresh ==
  /\ refreshes < MaxRefreshes /\ refreshes' = refreshes + 1
  /\ \E offer \in SUBSET Offered, t \in {"http", "stdio"} : source' = Replaced(offer, t)
  /\ UNCHANGED <<asked, policy, pc, left, found, built, caps, verdict>>

----------------------------------------------------------------------------
(* build_filtered_registry                                                 *)

Go(to, rest) == pc' = to /\ left' = rest
Reject(code) == Go("rejected", {}) /\ verdict' = [NoVerdict EXCEPT !.code = code]
Quiet == UNCHANGED <<asked, policy, source, refreshes>>

\* validate_managed_mcp_policy and validate_managed_mcp_stdio_policy.
Untouched == ~policy.enabled /\ policy.servers = {} /\ policy.transports = {} /\ policy.stdio = {}
StdioValid == /\ ("stdio" \in policy.transports) = (policy.stdio # {})
              /\ policy.stdio \cap Off = {}
              /\ policy.stdio # {} => policy.ready
PolicyValid ==
  \/ Untouched
  \/ /\ StdioValid /\ policy.servers \cap Off = {}
     /\ policy.enabled /\ policy.servers # {} => "http" \in policy.transports

Validate ==
  /\ pc = "validate"
  /\ IF PolicyValid THEN Go("look", asked \ (ReadOnly \cup SideEffect)) /\ UNCHANGED verdict
     ELSE Reject("invalid policy")
  /\ UNCHANGED <<found, built, caps>> /\ Quiet

\* One name at a time, while the registry changes.
LookUp(n) ==
  /\ pc = "look" /\ n \in left
  /\ found' = [found EXCEPT ![n] = source[n]] /\ left' = left \ {n}
  /\ UNCHANGED <<pc, built, caps, verdict>> /\ Quiet

Looked == asked \ (ReadOnly \cup SideEffect)
Dynamic == {n \in Looked : found[n] \in {"stdio", "http"}}
Disallowed == {n \in Looked : found[n] = "built-in" /\ n \notin Beta}
Absent == {n \in Looked : found[n] = "none"}
Bridges == asked \cap ReadOnly

\* managed_mcp_policy_gate_failure.
Gate == IF ~policy.enabled THEN "disabled_by_operator_policy"
        ELSE IF policy.servers = {} THEN "no_allowlisted_http_servers"
        ELSE IF "http" \notin policy.transports THEN "http_transport_not_allowed" ELSE "open"

\* A refusal that the policy explains names the policy.
Gated(code) == Reject(IF Gate = "open" THEN code ELSE Gate)

\* managed_mcp_stdio_only_dynamic_message looks the tools up once more.
StdioOnly == \E n \in Dynamic : source[n] = "stdio"
RefuseDynamic ==
  IF StdioOnly THEN Reject("stdio_dynamic_tools_not_admitted")
  ELSE Gated("dynamic_tools_not_admitted")

\* managed_mcp_stdio_only_side_effect_message always has one.
RefuseSideEffects == Reject("stdio_side_effect_tools_not_admitted")

Sort ==
  /\ pc = "look" /\ left = {}
  /\ CASE Disallowed # {} -> Reject("unsupported tools")
       [] Disallowed = {} /\ Dynamic # {} -> RefuseDynamic
       [] Disallowed \cup Dynamic = {} /\ asked \cap SideEffect # {} -> RefuseSideEffects
       [] Disallowed \cup Dynamic \cup (asked \cap SideEffect) = {} /\ Absent # {} ->
            Reject("unknown tools")
       [] OTHER -> Go("copy", {}) /\ UNCHANGED verdict
  /\ UNCHANGED <<found, built, caps>> /\ Quiet

\* extend_from copies what the names stand for now.
Copy ==
  /\ pc = "copy"
  /\ built' = [n \in Names |-> IF n \in Looked THEN source[n] ELSE "none"]
  /\ Go(IF Bridges = {} THEN "admitted" ELSE "gate", {})
  /\ UNCHANGED <<found, caps, verdict>> /\ Quiet

\* managed_mcp_stdio_only_read_only_message.
OnlyStdioAllowed == /\ policy.enabled /\ policy.stdio # {}
                    /\ policy.servers = {} \/ "http" \notin policy.transports

\* managed_mcp_allowed_http_server_configs and managed_mcp_blocked_http_server_configs.
BadAllowedServers == Http \ Off
AllowedServers == IF policy.enabled THEN policy.servers \ Off ELSE {}
BlockedServers == Http \ (Off \cup policy.servers)

PassGate ==
  /\ pc = "gate"
  /\ CASE OnlyStdioAllowed -> Reject("stdio_read_only_tools_not_admitted")
       [] ~OnlyStdioAllowed /\ Gate # "open" -> Reject(Gate)
       [] OTHER -> Go("connect", AllowedServers) /\ UNCHANGED verdict
  /\ UNCHANGED <<found, built, caps>> /\ Quiet

\* McpRuntime::connect, then probe_blocked_http_read_only_capabilities: a server has
\* the capabilities it answers with, or is not reached and has none.
Ask(s) ==
  /\ pc \in {"connect", "probe"} /\ s \in left /\ left' = left \ {s}
  /\ \E c \in SUBSET {"prompts", "resources"} :
       caps' = [t \in DOMAIN caps \cup {s} |-> IF t = s THEN c ELSE caps[t]]
  /\ UNCHANGED <<pc, found, built, verdict>> /\ Quiet

With(cap, servers) == {s \in DOMAIN caps \cap servers : cap \in caps[s]}
Capability(n) == IF n \in PromptTools THEN "prompts" ELSE "resources"

\* build_mcp_tools_with_options: a bridge is there when some server has its capability.
Unavailable == {n \in Bridges : With(Capability(n), AllowedServers) = {}}

Check ==
  /\ pc = "connect" /\ left = {}
  /\ IF Unavailable = {}
     THEN /\ built' = [n \in Names |-> IF n \in Bridges THEN "bridge" ELSE built[n]]
          /\ Go("admitted", {})
     ELSE Go("probe", BlockedServers) /\ UNCHANGED built
  /\ UNCHANGED <<found, caps, verdict>> /\ Quiet

\* read_only_capability_rejection_details.
Lacking == {Capability(n) : n \in Unavailable}
Blocked(cap) == With(cap, BlockedServers)
BadDetails == [lack |-> Lacking, blocked |-> \A c \in Lacking : Blocked(c) # {}]
Details == [lack |-> Lacking, blocked |-> \E c \in Lacking : Blocked(c) # {}]

\* managed_mcp_read_only_capability_unavailable_message: a dash for an empty list.
Dash(list) == IF list = {} THEN "-" ELSE "names"
Says == [c \in Lacking |-> Dash(Blocked(c))]

Explain ==
  /\ pc = "probe" /\ left = {} /\ Go("rejected", {})
  /\ verdict' = [code |-> "capabilities", details |-> Details, says |-> Says]
  /\ UNCHANGED <<found, built, caps>> /\ Quiet

\* parse_legacy_managed_mcp_admission_rejection: the code from the message alone.
LegacyDetails(says) == [lack |-> DOMAIN says,
                        blocked |-> ~(\A c \in DOMAIN says : says[c] = "-")]

----------------------------------------------------------------------------
(* The run                                                                 *)

\* resolve_capability: the servers that a call may reach, named or not.
Reachable(n) == With(Capability(n), AllowedServers)

Next == \/ Refresh \/ Validate \/ Sort \/ Copy \/ PassGate \/ Check \/ Explain
        \/ \E n \in Names : LookUp(n)
        \/ \E s \in Http : Ask(s)

Spec == Init /\ [][Next]_vars

----------------------------------------------------------------------------
(* Properties                                                              *)

TypeOK ==
  /\ asked \subseteq Names /\ policy \in Policies
  /\ source \in [Names -> Kinds] /\ built \in [Names -> Kinds]
  /\ found \in [Names -> Kinds]
  /\ pc \in {"validate", "look", "copy", "gate", "connect", "probe", "admitted", "rejected"}
  /\ DOMAIN caps \subseteq Http /\ refreshes \in 0..MaxRefreshes

\* Under whatever names MCP servers offer their tools, and whenever the gateway's
\* registry changes during the build: a run that is admitted has all the tools of its
\* version, each a built-in one of the beta list or a bridge, and a bridge reaches
\* enabled HTTP servers that the operator has allowed, of a policy that is on.
AdmittedIsAllowed ==
  pc = "admitted" =>
    /\ {n \in Names : built[n] # "none"} = asked
    /\ \A n \in asked : \/ built[n] = "built-in" /\ n \in Beta
                        \/ built[n] = "bridge" /\ n \in ReadOnly
    /\ \A n \in Bridges : /\ Reachable(n) # {} /\ Reachable(n) \subseteq policy.servers \ Off
                          /\ policy.enabled /\ "http" \in policy.transports

\* A reason read back from the message of an old event is the one that was recorded
\* with it, and who is refused for a capability was allowed servers without it.
ReasonsAgree ==
  verdict.code = "capabilities" => /\ LegacyDetails(verdict.says) = verdict.details
                                   /\ Gate = "open" /\ AllowedServers # {}

AdmissionSound == AdmittedIsAllowed /\ ReasonsAgree
=============================================================================
