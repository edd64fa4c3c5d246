----------------------------- MODULE MCRunReplay -----------------------------
(***************************************************************************)
(* For TLC: what a run leaves for the decision whether it may be replayed, *)
(* the requests to replay a run, and what the logs of a chain of replays   *)
(* say of it.  They are instances of their own: in a behaviour one of      *)
(* them, named by part, moves.                                             *)
(***************************************************************************)
EXTENDS RunHandoffs, TLC

CONSTANTS r1, c1, c2, w1, a1,  \* a run, its replays, who replays
          Runs, Roots, Workers, Callers, NoRun, NoWorker,
          MaxDepth, Batch, MaxRequestCrashes, Faults, Drops, Prompt,  \* of RunReplay
          Length, MaxChainCrashes   \* of RunTakeover

VARIABLES part,
          status, parent, auto, recency, claimed, replayed, decision, risk, exec, lease, task,
          requestCrashes,
          state, live, established, hasReplayed, told, follow, walk, swept, cut, chainCrashes

\* RunReplay with what is proved about it.
Requests == INSTANCE RunReplayProofs WITH
  MaxCrashes <- MaxRequestCrashes, crashes <- requestCrashes
Chain == INSTANCE RunTakeover WITH
  MaxCrashes <- MaxChainCrashes, Patient <- TRUE, status <- state, replayed <- hasReplayed,
  decision <- follow, crashes <- chainCrashes

ASSUME RequestsAssumption == Requests!ReplayAssumption
ASSUME ChainAssumption == Length \in Nat \ {0}

requestVars == <<status, parent, auto, recency, claimed, replayed, decision, risk, exec, lease,
                 task, requestCrashes>>
chainVars == <<state, live, established, hasReplayed, told, follow, walk, swept, cut, chainCrashes>>
all == <<part, hvars, requestVars, chainVars>>

ReplayInit == /\ part \in {"requests", "handoffs", "chain"}
              /\ Init /\ Requests!Init /\ Chain!Init
\* A handoff only makes a sweep refuse, which takes nothing from the requests'
\* interleavings; the run settling has sweeps with handoffs.
ReplayNext ==
  \/ part = "handoffs" /\ Next /\ UNCHANGED <<part, requestVars, chainVars>>
  \/ part = "requests" /\ Requests!Next /\ UNCHANGED <<part, risk, hvars, chainVars>>
  \/ part = "chain" /\ Chain!Next /\ UNCHANGED <<part, hvars, requestVars>>
ReplaySpec == ReplayInit /\ [][ReplayNext]_all

LineageSound == Requests!LineageSound
LogsAgreeWithRows == Chain!LogsAgreeWithRows

\* Ids that have no row yet are interchangeable.
NewIds == Permutations(Runs \ Roots)
=============================================================================
