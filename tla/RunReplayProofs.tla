--------------------------- MODULE RunReplayProofs ---------------------------
(***************************************************************************)
(* What holds of RunReplay for any runs, workers, callers, crashes and     *)
(* faults, any depth and any batch: the lineage of a run; that no sweep    *)
(* replays a run with an unresolved handoff; and, for one gateway without  *)
(* replay requests, that one run of a tree executes, that few are          *)
(* automatic, and that the decisions lead to it.                           *)
(*                                                                         *)
(* Depth, Root, Sources and Leaf are recursive functions along the replay  *)
(* tree.  That they exist and are unique is part of the invariants: a new  *)
(* row is a leaf, and adding a leaf keeps it so.                           *)
(***************************************************************************)
EXTENDS RunReplay, FiniteSetTheorems, TLAPS

----------------------------------------------------------------------------
(* The tree of replays, p being the parents and R the rows.                *)

DepthFn(p, d) == d = [x \in Runs |-> IF p[x] = NoRun THEN 0 ELSE 1 + d[p[x]]]
Selects(p, R, L) == /\ L \in [Runs -> R \cup {NoRun}]
                    /\ \A x \in Runs : L[x] # NoRun => p[L[x]] = x
LeafFn(L, f) == f = [x \in Runs |-> IF L[x] = NoRun THEN x ELSE f[L[x]]]

Parents(p, R) == /\ p \in [Runs -> R \cup {NoRun}] /\ R \subseteq Runs
                 /\ \A c \in Runs \ R : p[c] = NoRun
Deep(p, d) == d \in [Runs -> Nat] /\ DepthFn(p, d) /\ \A e : DepthFn(p, e) => e = d
Ends(p, R) == \A L : Selects(p, R, L) =>
                /\ \E f : LeafFn(L, f)
                /\ \A f : LeafFn(L, f) => \A r \in R : f[r] \in R

LEMMA NoRunIsNone == ReplayAssumption => NoRun \notin Runs
BY DEF ReplayAssumption

LEMMA DepthGrows ==
  ASSUME ReplayAssumption, NEW p, NEW R, Parents(p, R), NEW d, Deep(p, d),
         NEW c \in Runs \ R, NEW s \in R, NEW q, q = [p EXCEPT ![c] = s]
  PROVE Deep(q, [d EXCEPT ![c] = 1 + d[s]])
<1> DEFINE g == [d EXCEPT ![c] = 1 + d[s]]
<1>1. /\ p[c] = NoRun /\ q[c] = s /\ s \in Runs /\ s # NoRun /\ s # c
      /\ \A x \in Runs \ {c} : q[x] = p[x] /\ q[x] # c
  BY NoRunIsNone DEF Parents
<1>2. d \in [Runs -> Nat] /\ \A x \in Runs : d[x] = IF p[x] = NoRun THEN 0 ELSE 1 + d[p[x]]
  BY DEF Deep, DepthFn
<1>3. g \in [Runs -> Nat] /\ g[c] = 1 + d[s] /\ \A x \in Runs \ {c} : g[x] = d[x]
  BY <1>1, <1>2
<1> HIDE DEF g
<1>4. DepthFn(q, g)
  <2>1. \A x \in Runs : g[x] = IF q[x] = NoRun THEN 0 ELSE 1 + g[q[x]]
    <3> SUFFICES ASSUME NEW x \in Runs PROVE g[x] = IF q[x] = NoRun THEN 0 ELSE 1 + g[q[x]]
      OBVIOUS
    <3>1. CASE x = c BY <1>1, <1>3, <3>1
    <3>2. CASE x # c
      <4>1. q[x] # NoRun => q[x] \in Runs \ {c} BY <1>1, <3>2 DEF Parents
      <4> QED BY <1>1, <1>2, <1>3, <3>2, <4>1
    <3> QED BY <3>1, <3>2
  <2> QED BY <1>3, <2>1 DEF DepthFn
<1>5. ASSUME NEW e, DepthFn(q, e) PROVE e = g
  <2>1. e = [x \in Runs |-> e[x]] /\ \A x \in Runs : e[x] = IF q[x] = NoRun THEN 0 ELSE 1 + e[q[x]]
    BY <1>5 DEF DepthFn
  <2> DEFINE h == [x \in Runs |-> IF x = c THEN 0 ELSE e[x]]
  <2>2. \A x \in Runs : h[x] = IF p[x] = NoRun THEN 0 ELSE 1 + h[p[x]]
    <3> SUFFICES ASSUME NEW x \in Runs PROVE h[x] = IF p[x] = NoRun THEN 0 ELSE 1 + h[p[x]]
      OBVIOUS
    <3>1. CASE x = c BY <1>1, <3>1
    <3>2. CASE x # c
      <4>1. p[x] # NoRun => p[x] \in Runs \ {c} BY <1>1, <3>2 DEF Parents
      <4> QED BY <1>1, <2>1, <3>2, <4>1
    <3> QED BY <3>1, <3>2
  <2>3. DepthFn(p, h) BY <2>2 DEF DepthFn
  <2>4. h = d BY <2>3 DEF Deep
  <2>5. \A x \in Runs \ {c} : e[x] = d[x] BY <2>4
  <2>6. e[c] = 1 + d[s] BY <1>1, <2>1, <2>5
  <2> QED BY <1>3, <2>1, <2>5, <2>6
<1> QED BY <1>3, <1>4, <1>5 DEF Deep, g

LEMMA EndsGrow ==
  ASSUME ReplayAssumption, NEW p, NEW R, Parents(p, R), Ends(p, R),
         NEW c \in Runs \ R, NEW s \in R, NEW q, q = [p EXCEPT ![c] = s]
  PROVE Ends(q, R \cup {c})
<1>1. /\ p[c] = NoRun /\ q[c] = s /\ s \in Runs /\ s # NoRun /\ s # c
      /\ \A x \in Runs \ {c} : q[x] = p[x] /\ q[x] # c
  BY NoRunIsNone DEF Parents
<1> SUFFICES ASSUME NEW L, Selects(q, R \cup {c}, L)
             PROVE /\ \E f : LeafFn(L, f)
                   /\ \A f : LeafFn(L, f) => \A r \in R \cup {c} : f[r] \in R \cup {c}
  BY DEF Ends
<1>2. L[c] = NoRun
  <2> SUFFICES ASSUME L[c] # NoRun PROVE FALSE OBVIOUS
  <2>1. L[c] \in Runs /\ q[L[c]] = c BY NoRunIsNone DEF Selects, Parents
  <2> QED BY <1>1, <2>1
<1> DEFINE K == [x \in Runs |-> IF x = s /\ L[s] = c THEN NoRun ELSE L[x]]
<1>0. R \cup {c} \subseteq Runs BY DEF Parents
<1>9. \A x \in Runs : L[x] # NoRun => L[x] \in Runs /\ q[L[x]] = x BY <1>0 DEF Selects
<1>3. \A x \in Runs : L[x] = c => x = s BY <1>1, <1>9, NoRunIsNone
<1>4. Selects(p, R, K)
  <2>1. ASSUME NEW x \in Runs PROVE K[x] \in R \cup {NoRun} /\ (K[x] # NoRun => p[K[x]] = x)
    <3>1. CASE x = s /\ L[s] = c BY <3>1
    <3>2. CASE ~(x = s /\ L[s] = c)
      <4>1. K[x] = L[x] /\ L[x] # c BY <1>3, <3>2
      <4>2. L[x] \in R \cup {NoRun} /\ (L[x] # NoRun => q[L[x]] = x) BY <4>1 DEF Selects
      <4> QED BY <1>1, <4>1, <4>2 DEF Parents
    <3> QED BY <3>1, <3>2
  <2> QED BY <2>1 DEF Selects
<1>5. PICK k : LeafFn(K, k) BY <1>4 DEF Ends
<1>6. \A x \in Runs : k[x] = IF K[x] = NoRun THEN x ELSE k[K[x]] BY <1>5 DEF LeafFn
<1>7. \E f : LeafFn(L, f)
  <2> DEFINE f == [x \in Runs |-> IF L[s] = c /\ k[x] = s THEN c ELSE k[x]]
  <2>1. ASSUME NEW x \in Runs PROVE f[x] = IF L[x] = NoRun THEN x ELSE f[L[x]]
    <3>1. L[x] # NoRun => L[x] \in Runs BY <1>9
    <3>2. CASE x = s /\ L[s] = c
      <4>1. k[s] = s /\ k[c] = c BY <1>1, <1>2, <1>6, <3>2
      <4> QED BY <1>1, <3>2, <4>1, NoRunIsNone
    <3>3. CASE ~(x = s /\ L[s] = c) BY <1>6, <3>1, <3>3
    <3> QED BY <3>2, <3>3
  <2>2. LeafFn(L, f) BY <2>1 DEF LeafFn
  <2> QED BY <2>2
<1>8. ASSUME NEW f, LeafFn(L, f), NEW r \in R \cup {c} PROVE f[r] \in R \cup {c}
  <2>1. \A x \in Runs : f[x] = IF L[x] = NoRun THEN x ELSE f[L[x]] BY <1>8 DEF LeafFn
  <2> DEFINE h == [x \in Runs |-> IF L[s] = c /\ f[x] = c /\ x # c THEN s ELSE f[x]]
  <2>2. ASSUME NEW x \in Runs PROVE h[x] = IF K[x] = NoRun THEN x ELSE h[K[x]]
    <3>1. L[x] # NoRun => L[x] \in Runs BY <1>9
    <3>2. f[c] = c BY <1>2, <2>1
    <3>3. CASE x = s /\ L[s] = c BY <1>1, <2>1, <3>1, <3>2, <3>3
    <3>4. CASE ~(x = s /\ L[s] = c)
      <4>1. K[x] = L[x] /\ L[x] # c BY <1>3, <3>4
      <4>2. CASE L[x] = NoRun
        <5>1. f[x] = x BY <2>1, <4>2
        <5> QED BY <4>1, <4>2, <5>1
      <4>3. CASE L[x] # NoRun
        <5>1. f[x] = f[L[x]] BY <2>1, <4>3
        <5>2. x # c BY <1>2, <4>3
        <5> QED BY <3>1, <4>1, <4>3, <5>1, <5>2
      <4> QED BY <4>2, <4>3
    <3> QED BY <3>3, <3>4
  <2>3. LeafFn(K, h) BY <2>2 DEF LeafFn
  <2>4. \A x \in R : h[x] \in R BY <1>4, <2>3 DEF Ends
  <2>5. CASE r = c BY <1>2, <2>1, <2>5
  <2>6. CASE r \in R
    <3>1. h[r] \in R /\ r \in Runs /\ r # c BY <2>4, <2>6 DEF Parents
    <3> QED BY <3>1
  <2> QED BY <2>5, <2>6
<1> QED BY <1>7, <1>8

----------------------------------------------------------------------------
(* Rows, their order and who works on them.                                *)

Statuses == {"none"} \cup Active \cup Ended
Types ==
  /\ status \in [Runs -> Statuses] /\ auto \in [Runs -> BOOLEAN]
  /\ recency \subseteq Rows \X Rows /\ Ordered(Rows)
  /\ claimed \in [Runs -> BOOLEAN] /\ replayed \in [Runs -> BOOLEAN]
  /\ risk \in [Runs -> BOOLEAN] /\ lease \in [Runs -> BOOLEAN]
  /\ exec \in [Runs -> Workers \cup {NoWorker}]
  /\ task \in [Tasks -> Task]

TreeOK == /\ Parents(parent, Rows) /\ Ends(parent, Rows)
          /\ \E d : Deep(parent, d)

\* The run a task in state v works on; what a sweep has still to do.
Proper(t, v) ==
  /\ v.pc \in {"check", "cancel_check"} => v.source \in Rows
  /\ v.pc \in {"create", "refuse"} =>
       /\ v.source \in Rows
       /\ t \in Workers => status[v.source] \in Ended
  /\ v.pc = "create" =>
       /\ status[v.source] \in Ended
       /\ t \in Workers => Depth(v.source) < MaxDepth
  /\ v.pc \in SpawnSteps \ {"create"} =>
       /\ v.child \in Rows /\ parent[v.child] = v.source
       /\ v.source \in Rows /\ status[v.source] \in Ended
  /\ v.pc = "cancel" => v.child \in Rows
  /\ \A i \in 1..Len(v.queue) : v.queue[i] \in Rows /\ status[v.queue[i]] \in Ended
  /\ v.todo \subseteq Rows
  /\ t \notin Workers => v.pc \in SpawnSteps \cup CallSteps \cup {"refuse"}

LineageInv == Types /\ TreeOK /\ LineageSound /\ \A t \in Tasks : Proper(t, task[t])

\* Every task is left in a state that was proper before the step already.
TasksStay == task' \in [Tasks -> Task] /\ \A u \in Tasks : Proper(u, task'[u])

LEMMA DepthIs ==
  ASSUME NEW d, Deep(parent, d), NEW r \in Runs
  PROVE Depth(r) = d[r]
<1>1. DepthFn(parent, CHOOSE e : DepthFn(parent, e)) BY DEF Deep
<1>2. (CHOOSE e : DepthFn(parent, e)) = d BY <1>1 DEF Deep
<1>3. Depth(r) = (CHOOSE e : DepthFn(parent, e))[r] BY DEF Depth, DepthFn
<1> QED BY <1>2, <1>3

LEMMA LatestIs ==
  ASSUME ReplayAssumption, Types, TreeOK, NEW r \in Runs
  PROVE /\ LatestChild(r) \in Children(r) \cup {NoRun}
        /\ LatestChild(r) = NoRun <=> Children(r) = {}
<1>1. CASE Children(r) = {} BY <1>1 DEF LatestChild
<1>2. CASE Children(r) # {}
  <2>1. Children(r) \in (SUBSET Rows) \ {{}} BY <1>2 DEF Children
  <2>2. PICK c \in Rows : IsLatest(c, Children(r)) BY <2>1 DEF Types, Ordered
  <2>3. c \in Runs BY DEF Rows
  <2>4. IsLatest(LatestChild(r), Children(r)) BY <1>2, <2>2, <2>3 DEF LatestChild
  <2>5. LatestChild(r) \in Children(r) BY <2>4 DEF IsLatest
  <2>6. LatestChild(r) # NoRun BY <2>5, NoRunIsNone DEF Children, Rows
  <2> QED BY <1>2, <2>5, <2>6
<1> QED BY <1>1, <1>2

\* The end of a chain of replays is a run.
LEMMA LeafIs ==
  ASSUME ReplayAssumption, Types, TreeOK, NEW r \in Rows
  PROVE Leaf(r) \in Rows
<1> DEFINE L == [x \in Runs |-> LatestChild(x)]
<1>1. Selects(parent, Rows, L)
  <2>1. ASSUME NEW x \in Runs
        PROVE LatestChild(x) \in Rows \cup {NoRun}
              /\ (LatestChild(x) # NoRun => parent[LatestChild(x)] = x)
    BY LatestIs DEF Children
  <2> QED BY <2>1 DEF Selects
<1>2. /\ \E f : LeafFn(L, f)
      /\ \A f : LeafFn(L, f) => \A x \in Rows : f[x] \in Rows
  BY <1>1 DEF TreeOK, Ends
<1>3. \A f : LeafFn(L, f) <=>
             f = [x \in Runs |-> IF LatestChild(x) = NoRun THEN x ELSE f[LatestChild(x)]]
  BY DEF LeafFn
<1> HIDE DEF L
<1>4. LeafFn(L, CHOOSE f : LeafFn(L, f)) BY <1>2
<1>5. Leaf(r) = (CHOOSE f : f = [x \in Runs |-> IF LatestChild(x) = NoRun THEN x
                                               ELSE f[LatestChild(x)]])[r]
  BY DEF Leaf
<1>6. PICK f : LeafFn(L, f) /\ Leaf(r) = f[r] BY <1>3, <1>4, <1>5
<1> QED BY <1>2, <1>6

\* A write moves rows to the end of the order.
LEMMA OrderKept ==
  ASSUME Types, NEW S \in SUBSET Runs, S \subseteq Rows \/ \E c : S = {c},
         recency' = Touched(S), Rows' = Rows \cup S
  PROVE recency' \subseteq Rows' \X Rows' /\ Ordered(Rows)'
<1>1. /\ recency \subseteq Rows \X Rows
      /\ \A x, y \in Rows : <<x, y>> \in recency => <<y, x>> \notin recency
      /\ \A T \in (SUBSET Rows) \ {{}} : \E c \in Rows : IsLatest(c, T)
  BY DEF Types, Ordered
<1>2. \A x, y : <<x, y>> \in recency' <=>
        \/ <<x, y>> \in recency /\ (x \in S => y \in S)
        \/ x \in Rows \ S /\ y \in S
  BY <1>1 DEF Touched
<1>3. recency' \subseteq Rows' \X Rows' BY <1>1 DEF Touched
<1>4. \A x, y \in Rows' : <<x, y>> \in recency' => <<y, x>> \notin recency'
  BY <1>1, <1>2
<1>5. ASSUME NEW T \in (SUBSET Rows') \ {{}} PROVE \E c \in Rows' : IsLatest(c, T)'
  <2>1. CASE T \cap S = {}
    <3>1. PICK c \in Rows : IsLatest(c, T) BY <1>1, <2>1
    <3> QED BY <1>2, <2>1, <3>1 DEF IsLatest
  <2>2. CASE T \cap S # {}
    <3>1. \E c \in Rows' : IsLatest(c, T \cap S)
      <4>1. CASE S \subseteq Rows BY <1>1, <2>2, <4>1
      <4>2. CASE \E c : S = {c} BY <2>2, <4>2 DEF IsLatest
      <4> QED BY <4>1, <4>2
    <3>2. PICK c \in Rows' : IsLatest(c, T \cap S) BY <3>1
    <3>3. c \in T /\ c \in S /\ \A d \in (T \cap S) \ {c} : <<d, c>> \in recency BY <3>2 DEF IsLatest
    <3>4. ASSUME NEW d \in T \ {c} PROVE <<d, c>> \in recency'
      <4>1. CASE d \in S BY <1>2, <3>3, <4>1
      <4>2. CASE d \notin S BY <1>2, <3>3, <4>2
      <4> QED BY <4>1, <4>2
    <3> QED BY <3>3, <3>4 DEF IsLatest
  <2> QED BY <2>1, <2>2
<1> QED BY <1>3, <1>4, <1>5 DEF Ordered

\* Where no row is added and none that ended is active again, all stays as it is.
LEMMA RowsStay ==
  ASSUME LineageInv, UNCHANGED <<parent, auto>>, Rows' = Rows, Types', TasksStay,
         \A r \in Runs : status[r] \in Ended => status'[r] \in Ended
  PROVE LineageInv' /\ \A r \in Runs : Depth(r)' = Depth(r)
<1>1. \A r \in Runs : Depth(r)' = Depth(r) BY DEF Depth
<1>2. TreeOK' BY DEF LineageInv, TreeOK
<1>3. LineageSound'
  <2>1. Rows \subseteq Runs /\ \A c \in Rows : parent[c] # NoRun => parent[c] \in Runs
    BY DEF LineageInv, TreeOK, Parents
  <2> QED BY <1>1, <2>1 DEF LineageInv, LineageSound, BranchFromEnded, DepthBounded
<1>4. ASSUME NEW t \in Tasks, NEW v, v = task'[t] PROVE Proper(t, v)'
  <2>1. Proper(t, v) /\ Rows \subseteq Runs BY <1>4 DEF TasksStay, Rows
  <2> QED BY <1>1, <2>1 DEF Proper
<1>5. \A t \in Tasks : Proper(t, task[t])' BY <1>4
<1> QED BY <1>1, <1>2, <1>3, <1>5 DEF LineageInv

----------------------------------------------------------------------------
(* The steps of a task.                                                    *)

LEMMA DecisionIs ==
  /\ \A k \in {"none", "manual_review", "blocked", "failed"} : Decision(k, NoRun) \in Decisions
  /\ \A c \in Runs : Decision("blocked", c) \in Decisions /\ Decision("follow_replay", c) \in Decisions
BY DEF Decision, Decisions

LEMMA FreshIs ==
  ASSUME ReplayAssumption, NEW t \in Tasks, NEW w \in Workers
  PROVE /\ Fresh(w) \in Task /\ NoRequest \in Task /\ [Fresh(w) EXCEPT !.booting = TRUE] \in Task
        /\ Proper(t, Fresh(w)) /\ Proper(t, NoRequest)
        /\ Proper(t, [Fresh(w) EXCEPT !.booting = TRUE])
<1>1. ASSUME NEW v \in Workers PROVE Fresh(v) \in Task /\ [Fresh(v) EXCEPT !.booting = TRUE] \in Task
  <2>1. Decision("none", NoRun) \in Decisions /\ {} \in SUBSET Runs /\ << >> \in Seq(Runs)
    BY DecisionIs
  <2>2. "idle" \in SweepSteps \cup SpawnSteps \cup CallSteps \cup {"refuse"} BY DEF SweepSteps
  <2>3. Fresh(v) \in Task BY <2>1, <2>2 DEF Fresh, Task
  <2>4. [Fresh(v) EXCEPT !.booting = TRUE] \in Task BY <2>3 DEF Task
  <2> QED BY <2>3, <2>4
<1>2. ASSUME NEW v \in Workers, NEW b
      PROVE Proper(t, Fresh(v)) /\ Proper(t, [Fresh(v) EXCEPT !.booting = TRUE])
  BY DEF Fresh, Proper, SweepSteps, SpawnSteps, CallSteps
<1>3. (CHOOSE v \in Workers : TRUE) \in Workers BY DEF ReplayAssumption
<1> QED BY <1>1, <1>2, <1>3 DEF NoRequest

\* One task moves, to a state proper before the step.
LEMMA Moves ==
  ASSUME LineageInv, NEW t \in Tasks, NEW v \in Task, Proper(t, v), task' = [task EXCEPT ![t] = v]
  PROVE TasksStay
<1>1. task \in [Tasks -> Task] /\ \A u \in Tasks : Proper(u, task[u]) BY DEF LineageInv, Types
<1>2. \A u \in Tasks : (task'[u] = v /\ u = t) \/ task'[u] = task[u] BY <1>1
<1>3. ASSUME NEW u \in Tasks PROVE Proper(u, task'[u]) BY <1>1, <1>2
<1> QED BY <1>1, <1>3 DEF TasksStay

LEMMA SameTask == ASSUME LineageInv, UNCHANGED task PROVE TasksStay
BY DEF LineageInv, Types, TasksStay

LEMMA DoneIs ==
  ASSUME ReplayAssumption, LineageInv, NEW t \in Tasks
  PROVE Done(t) \in Task /\ Proper(t, Done(t))
<1>1. task[t] \in Task /\ Proper(t, task[t]) BY DEF LineageInv, Types
<1>2. CASE t \in Workers
  <2>1. Done(t) = [task[t] EXCEPT !.pc = "assess", !.source = NoRun, !.child = NoRun,
                                  !.verdict = Decision("none", NoRun)]
    BY <1>2 DEF Done
  <2>2. Done(t) \in Task 
    <3>1. Decision("none", NoRun) \in Decisions BY DecisionIs
    <3>2. "assess" \in SweepSteps \cup SpawnSteps \cup CallSteps \cup {"refuse"} BY DEF SweepSteps
    <3> QED BY <1>1, <2>1, <3>1, <3>2 DEF Task
  <2>3. /\ Done(t).pc = "assess" /\ Done(t).queue = task[t].queue /\ Done(t).todo = task[t].todo
    BY <1>1, <2>1 DEF Task
  <2>4. Proper(t, Done(t)) BY <1>1, <1>2, <2>3 DEF Proper, SpawnSteps, CallSteps
  <2> QED BY <2>2, <2>4
<1>3. CASE t \notin Workers
  <2>1. Done(t) = NoRequest BY <1>3 DEF Done
  <2> QED BY <2>1, FreshIs DEF ReplayAssumption
<1> QED BY <1>2, <1>3

LEMMA FailedIs ==
  ASSUME ReplayAssumption, LineageInv, NEW t \in Tasks, StartFailed(t),
         task[t].pc \in {"create", "build"}
  PROVE TasksStay
<1>1. task[t] \in Task /\ Proper(t, task[t]) BY DEF LineageInv, Types
<1>2. CASE t \in Workers
  <2> DEFINE v == [task[t] EXCEPT !.pc = "refuse", !.child = NoRun,
                                  !.verdict = Decision("failed", NoRun)]
  <2>1. task' = [task EXCEPT ![t] = v] BY <1>2 DEF StartFailed, LineageInv, Types
  <2>2. v \in Task BY <1>1 DEF Task, Decisions, Decision
  <2>3. v.pc = "refuse" /\ v.queue = task[t].queue /\ v.todo = task[t].todo /\ v.source = task[t].source
    BY <1>1 DEF Task
  <2>4. Proper(t, v) BY <1>1, <1>2, <2>3 DEF Proper, SpawnSteps, CallSteps
  <2> QED BY <2>1, <2>2, <2>4, Moves
<1>3. CASE t \notin Workers
  <2>1. task' = [task EXCEPT ![t] = NoRequest] BY <1>3 DEF StartFailed
  <2>2. NoRequest \in Task /\ Proper(t, NoRequest) BY FreshIs DEF ReplayAssumption
  <2> QED BY <2>1, <2>2, Moves
<1> QED BY <1>2, <1>3

\* A step of a task keeps every task proper, but for Create, which adds a row.
LEMMA SweepTasks ==
  ASSUME ReplayAssumption, LineageInv, NEW w \in Workers,
         Reconcile(w) \/ AnnounceReconciled(w) \/ ListCandidates(w) \/ Assess(w) \/ SweepEnds(w)
  PROVE TasksStay
<1>0. w \in Tasks BY DEF Tasks
<1>1. task[w] \in Task /\ Proper(w, task[w]) /\ task \in [Tasks -> Task]
  BY <1>0 DEF LineageInv, Types
<1> USE <1>0
<1>2. CASE Reconcile(w)
  <2>1. PICK lost : lost \subseteq Rows /\ task' = [task EXCEPT ![w].pc = "announce", ![w].todo = lost]
    BY <1>2 DEF Reconcile, Reconcilable, Rows
  <2> DEFINE v == [task[w] EXCEPT !.pc = "announce", !.todo = lost]
  <2>2. task' = [task EXCEPT ![w] = v] BY <1>1, <2>1
  <2>3. v \in Task BY <1>1, <2>1 DEF Task, SweepSteps, Rows
  <2>4. v.pc = "announce" /\ v.todo = lost /\ v.queue = task[w].queue BY <1>1 DEF Task
  <2>5. Proper(w, v) BY <1>1, <2>1, <2>4 DEF Proper, SpawnSteps, CallSteps
  <2> QED BY <2>2, <2>3, <2>5, Moves
<1>3. CASE AnnounceReconciled(w)
  <2>1. CASE Goto(w, "list")
    <3> DEFINE v == [task[w] EXCEPT !.pc = "list"]
    <3>1. task' = [task EXCEPT ![w] = v] BY <1>1, <2>1 DEF Goto
    <3>2. v \in Task BY <1>1 DEF Task, SweepSteps
    <3>3. v.pc = "list" /\ v.todo = task[w].todo /\ v.queue = task[w].queue BY <1>1 DEF Task
    <3>4. Proper(w, v) BY <1>1, <3>3 DEF Proper, SpawnSteps, CallSteps
    <3> QED BY <3>1, <3>2, <3>4, Moves
  <2>2. CASE \E r \in task[w].todo : task' = [task EXCEPT ![w].todo = @ \ {r}]
    <3>0. PICK r \in task[w].todo : task' = [task EXCEPT ![w].todo = @ \ {r}] BY <2>2
    <3> DEFINE v == [task[w] EXCEPT !.todo = @ \ {r}]
    <3>1. task' = [task EXCEPT ![w] = v] BY <1>1, <3>0
    <3>2. v \in Task BY <1>1 DEF Task
    <3>3. v.pc = task[w].pc /\ v.todo \subseteq task[w].todo /\ v.queue = task[w].queue
          /\ v.child = task[w].child /\ v.source = task[w].source
      BY <1>1 DEF Task
    <3>4. Proper(w, v) BY <1>1, <3>3 DEF Proper
    <3> QED BY <3>1, <3>2, <3>4, Moves
  <2> QED BY <1>3, <2>1, <2>2 DEF AnnounceReconciled
<1>4. CASE ListCandidates(w)
  <2>1. PICK n \in Nat : \E q \in [1..n -> {r \in Rows : Candidate(r)}] :
          task' = [task EXCEPT ![w].pc = "assess", ![w].queue = q]
    <3> DEFINE cs == {r \in Rows : Candidate(r)}
               m == IF Cardinality(cs) < Batch THEN Cardinality(cs) ELSE Batch
    <3>1. m \in Nat
      <4>1. Runs \in SUBSET Runs /\ IsFiniteSet(Runs) /\ cs \subseteq Runs
        BY DEF ReplayAssumption, Rows
      <4>2. IsFiniteSet(cs) BY <4>1, FS_Subset
      <4>3. Cardinality(cs) \in Nat BY <4>2, FS_CardinalityType
      <4> QED BY <4>3 DEF ReplayAssumption
    <3>2. \E q \in [1..m -> cs] : task' = [task EXCEPT ![w].pc = "assess", ![w].queue = q]
      BY <1>4 DEF ListCandidates
    <3> HIDE DEF m
    <3> QED BY <3>1, <3>2
  <2>2. PICK q \in [1..n -> {r \in Rows : Candidate(r)}] :
          task' = [task EXCEPT ![w].pc = "assess", ![w].queue = q]
    BY <2>1
  <2>3. q \in Seq(Runs) /\ Len(q) = n /\ \A i \in 1..Len(q) : q[i] \in Rows /\ status[q[i]] \in Ended
    <3>1. \A i \in 1..n : q[i] \in Rows /\ q[i] \in Runs /\ status[q[i]] = "interrupted"
      BY <2>2 DEF Candidate, Rows
    <3>2. q \in Seq(Runs) /\ Len(q) = n BY <2>2, <3>1
    <3> QED BY <3>1, <3>2 DEF Ended
  <2> DEFINE v == [task[w] EXCEPT !.pc = "assess", !.queue = q]
  <2>4. task' = [task EXCEPT ![w] = v] BY <1>1, <2>2
  <2>5. v \in Task BY <1>1, <2>3 DEF Task, SweepSteps
  <2>6. v.pc = "assess" /\ v.todo = task[w].todo /\ v.queue = q BY <1>1 DEF Task
  <2>7. Proper(w, v) BY <1>1, <2>3, <2>6 DEF Proper, SpawnSteps, CallSteps
  <2> QED BY <2>4, <2>5, <2>7, Moves
<1>5. CASE Assess(w)
  <2> DEFINE Q == task[w].queue
  <2>1. PICK s, d, pc :
          /\ Q # << >> /\ s = Head(Q) /\ d = Verdict(s)
          /\ pc = (IF d.kind = "none" THEN "create" ELSE "refuse")
          /\ task' = [task EXCEPT ![w].queue = Tail(Q), ![w].source = s, ![w].verdict = d, ![w].pc = pc]
    <3> DEFINE s == Head(Q)  d == Verdict(s)
    <3>1. task' = [task EXCEPT ![w].queue = Tail(Q), ![w].source = s, ![w].verdict = d,
                               ![w].pc = IF d.kind = "none" THEN "create" ELSE "refuse"]
      BY <1>1, <1>5 DEF Assess
    <3>2. Q # << >> BY <1>5 DEF Assess
    <3> HIDE DEF s, d
    <3> QED BY <3>1, <3>2 DEF s, d
  <2>2. /\ Q \in Seq(Runs) /\ Len(Q) \in Nat \ {0} /\ s = Q[1] /\ s \in Runs /\ Tail(Q) \in Seq(Runs)
        /\ Len(Tail(Q)) = Len(Q) - 1 /\ \A i \in 1..Len(Tail(Q)) : Tail(Q)[i] = Q[i + 1]
    BY <1>1, <2>1 DEF Task
  <2>3. d \in Decisions /\ (d.kind = "none" => Depth(s) < MaxDepth)
    <3>1. PICK k \in {"none", "manual_review", "blocked"} :
            Verdict(s) = Decision(k, NoRun) /\ (k = "none" => ~(Depth(s) >= MaxDepth))
      BY DEF Verdict
    <3>2. d \in Decisions /\ d.kind = k BY <2>1, <3>1, DecisionIs DEF Decision
    <3>3. Depth(s) \in Nat
      <4>1. PICK e : Deep(parent, e) BY DEF LineageInv, TreeOK
      <4>2. Depth(s) = e[s] BY <2>2, <4>1, DepthIs
      <4> QED BY <2>2, <4>1, <4>2 DEF Deep
    <3> QED BY <3>1, <3>2, <3>3 DEF ReplayAssumption
  <2>4. s \in Rows /\ status[s] \in Ended BY <1>1, <2>2 DEF Proper
  <2> DEFINE v == [task[w] EXCEPT !.queue = Tail(Q), !.source = s, !.verdict = d, !.pc = pc]
  <2>5. task' = [task EXCEPT ![w] = v] BY <1>1, <2>1
  <2>6. pc \in SweepSteps \cup SpawnSteps \cup CallSteps \cup {"refuse"} BY <2>1 DEF SpawnSteps
  <2>7. v \in Task BY <1>1, <2>2, <2>3, <2>6 DEF Task
  <2>8. /\ v.pc = pc /\ v.source = s /\ v.queue = Tail(Q) /\ v.todo = task[w].todo BY <1>1 DEF Task
  <2>9. \A i \in 1..Len(Tail(Q)) : Tail(Q)[i] \in Rows /\ status[Tail(Q)[i]] \in Ended
    BY <1>1, <2>2 DEF Proper
  <2>10. Proper(w, v) BY <1>1, <2>1, <2>3, <2>4, <2>8, <2>9 DEF Proper, SpawnSteps, CallSteps
  <2> QED BY <2>5, <2>7, <2>10, Moves
<1>6. CASE SweepEnds(w)
  <2>1. task' = [task EXCEPT ![w] = Fresh(w)] BY <1>6 DEF SweepEnds
  <2> QED BY <2>1, FreshIs, Moves
<1> QED BY <1>2, <1>3, <1>4, <1>5, <1>6

LEMMA SpawnTasks ==
  ASSUME ReplayAssumption, LineageInv, NEW t \in Tasks,
         \/ Refuse(t) \/ CreateFails(t) \/ BuildFails(t) \/ Claim(t) \/ RecordClaim(t)
         \/ RecordReplayed(t) \/ FollowReplay(t) \/ AnnounceChild(t) \/ Start(t)
  PROVE TasksStay
<1>1. task[t] \in Task /\ Proper(t, task[t]) /\ task \in [Tasks -> Task] BY DEF LineageInv, Types
<1>2. CASE Finish(t) BY <1>2, DoneIs, Moves DEF Finish
<1>3. CASE StartFailed(t) /\ task[t].pc \in {"create", "build"} BY <1>3, FailedIs
<1>4. ASSUME NEW p \in SpawnSteps \ {"create"}, Goto(t, p), task[t].pc \in SpawnSteps \ {"create"}
      PROVE TasksStay
  <2> DEFINE v == [task[t] EXCEPT !.pc = p]
  <2>1. task' = [task EXCEPT ![t] = v] BY <1>1, <1>4 DEF Goto
  <2>2. v \in Task BY <1>1 DEF Task
  <2>3. v.pc = p /\ v.todo = task[t].todo /\ v.queue = task[t].queue
        /\ v.child = task[t].child /\ v.source = task[t].source
    BY <1>1 DEF Task
  <2>4. Proper(t, v) BY <1>1, <1>4, <2>3 DEF Proper, SpawnSteps, CallSteps
  <2> QED BY <2>1, <2>2, <2>4, Moves
<1> QED BY <1>2, <1>3, <1>4 DEF Refuse, CreateFails, BuildFails, Claim, RecordClaim,
           RecordReplayed, FollowReplay, AnnounceChild, Start, At, SpawnSteps

LEMMA CallTasks ==
  ASSUME ReplayAssumption, LineageInv, NEW c \in Callers, CallStep(c)
  PROVE TasksStay
<1>0. c \in Tasks /\ c \notin Workers BY DEF Tasks, ReplayAssumption
<1>1. task[c] \in Task /\ Proper(c, task[c]) /\ task \in [Tasks -> Task]
  BY <1>0 DEF LineageInv, Types
<1> USE <1>0
<1>2. CASE task' = [task EXCEPT ![c] = NoRequest]
  <2>1. NoRequest \in Task /\ Proper(c, NoRequest) BY FreshIs DEF ReplayAssumption
  <2> QED BY <1>2, <2>1, Moves
<1>3. CASE Request(c)
  <2>1. PICK r \in Rows, w \in Workers, p \in {"check", "cancel_check"} :
          task' = [task EXCEPT ![c] = [Fresh(w) EXCEPT !.pc = p, !.source = r]]
    BY <1>3 DEF Request
  <2> DEFINE v == [Fresh(w) EXCEPT !.pc = p, !.source = r]
  <2>2. Fresh(w) \in Task BY FreshIs
  <2>3. v \in Task BY <2>2 DEF Task, CallSteps, Rows
  <2>4. v.pc = p /\ v.source = r /\ v.queue = << >> /\ v.todo = {} BY DEF Fresh
  <2>5. Proper(c, v) BY <2>1, <2>4 DEF Proper, CallSteps, SpawnSteps
  <2> QED BY <2>1, <2>3, <2>5, Moves
<1>4. CASE ReplayCheck(c)
  <2> DEFINE r == task[c].source
  <2>1. task[c].pc = "check" /\ r \in Rows BY <1>1, <1>4 DEF ReplayCheck, At, Proper
  <2>2. Leaf(r) \in Rows /\ Continuation(r) \in Rows
    BY <2>1, LeafIs DEF LineageInv, Continuation
  <2>3. Rows \subseteq Runs BY DEF Rows
  <2>4. CASE Blocked(r)
    <3>1. PICK d \in Decisions :
            task' = [task EXCEPT ![c] = [task[c] EXCEPT !.pc = "refuse", !.verdict = d]]
      <4> DEFINE d == Decision("blocked", IF status[r] \in Active THEN NoRun ELSE Leaf(r))
      <4>1. d \in Decisions BY <2>2, <2>3, DecisionIs
      <4>2. task' = [task EXCEPT ![c] = [task[c] EXCEPT !.pc = "refuse", !.verdict = d]]
        BY <1>1, <1>4, <2>4 DEF ReplayCheck
      <4> QED BY <4>1, <4>2
    <3> DEFINE v == [task[c] EXCEPT !.pc = "refuse", !.verdict = d]
    <3>2. v \in Task BY <1>1 DEF Task
    <3>3. v.pc = "refuse" /\ v.source = r /\ v.queue = task[c].queue /\ v.todo = task[c].todo
      BY <1>1 DEF Task
    <3>4. Proper(c, v) BY <1>1, <2>1, <3>3 DEF Proper, CallSteps, SpawnSteps
    <3> QED BY <3>1, <3>2, <3>4, Moves
  <2>5. CASE ~Blocked(r)
    <3> DEFINE s == Continuation(r)
               v == [task[c] EXCEPT !.pc = "create", !.source = s]
    <3>1. task' = [task EXCEPT ![c] = v] BY <1>1, <1>4, <2>5 DEF ReplayCheck
    <3>2. status[s] \notin Active BY <2>5 DEF Continuation, Blocked
    <3>3. status[s] \in Ended
      BY <2>2, <2>3, <3>2 DEF LineageInv, Types, Statuses, Rows
    <3>4. v \in Task BY <1>1, <2>2, <2>3 DEF Task, SpawnSteps
    <3>5. v.pc = "create" /\ v.source = s /\ v.queue = task[c].queue /\ v.todo = task[c].todo
      BY <1>1 DEF Task
    <3> HIDE DEF s, v
    <3>6. s \in Rows BY <2>2 DEF s
    <3>7. Proper(c, v) BY <1>1, <3>3, <3>5, <3>6 DEF Proper, CallSteps, SpawnSteps
    <3> QED BY <3>1, <3>4, <3>7, Moves
  <2> QED BY <2>4, <2>5
<1>5. CASE CancelCheck(c)
  <2> DEFINE r == task[c].source
             a == IF status[Continuation(r)] \in Active THEN Continuation(r) ELSE r
  <2>1. task[c].pc = "cancel_check" /\ r \in Rows BY <1>1, <1>5 DEF CancelCheck, At, Proper
  <2>2. a \in Rows BY <2>1, LeafIs DEF LineageInv, Continuation
  <2>3. CASE status[a] \in Ended BY <1>2, <1>5, <2>3 DEF CancelCheck
  <2>4. CASE status[a] \notin Ended
    <3> DEFINE v == [task[c] EXCEPT !.pc = "cancel", !.child = a]
    <3>1. task' = [task EXCEPT ![c] = v] BY <1>1, <1>5, <2>4 DEF CancelCheck
    <3> HIDE DEF a
    <3>2. v \in Task BY <1>1, <2>2 DEF Task, CallSteps, Rows
    <3>3. v.pc = "cancel" /\ v.child = a /\ v.queue = task[c].queue /\ v.todo = task[c].todo
      BY <1>1 DEF Task
    <3>4. Proper(c, v) BY <1>1, <2>2, <3>3 DEF Proper, CallSteps, SpawnSteps
    <3> QED BY <3>1, <3>2, <3>4, Moves
  <2> QED BY <2>3, <2>4
<1>6. CASE CancelWrite(c) BY <1>6, DoneIs, Moves DEF CancelWrite, Finish
<1>7. CASE DropRequest(c) BY <1>2, <1>7 DEF DropRequest
<1> QED BY <1>3, <1>4, <1>5, <1>6, <1>7 DEF CallStep

LEMMA CrashTasks ==
  ASSUME ReplayAssumption, LineageInv, NEW w \in Workers, Crash(w)
  PROVE TasksStay
<1>1. task \in [Tasks -> Task] /\ \A u \in Tasks : Proper(u, task[u]) BY DEF LineageInv, Types
<1>2. task' = [t \in Tasks |-> IF t = w THEN [Fresh(w) EXCEPT !.booting = TRUE]
                               ELSE IF task[t].at = w THEN NoRequest ELSE task[t]]
  BY DEF Crash
<1>3. ASSUME NEW u \in Tasks PROVE task'[u] \in Task /\ Proper(u, task'[u])
  <2>1. \/ task'[u] = [Fresh(w) EXCEPT !.booting = TRUE] \/ task'[u] = NoRequest \/ task'[u] = task[u]
    BY <1>2
  <2> QED BY <1>1, <2>1, FreshIs
<1> QED BY <1>2, <1>3 DEF TasksStay

----------------------------------------------------------------------------
(* The lineage is kept.                                                    *)

\* The steps that leave the rows as they are.
LEMMA QuietKeep ==
  ASSUME LineageInv, UNCHANGED rowVars, TasksStay,
         claimed' \in [Runs -> BOOLEAN], replayed' \in [Runs -> BOOLEAN],
         risk' \in [Runs -> BOOLEAN], lease' \in [Runs -> BOOLEAN],
         exec' \in [Runs -> Workers \cup {NoWorker}]
  PROVE LineageInv'
<1>1. Rows' = Rows BY DEF Rows, rowVars
<1>2. Types'
  <2>1. recency' \subseteq Rows' \X Rows' /\ Ordered(Rows)'
    BY <1>1 DEF LineageInv, Types, Ordered, IsLatest, rowVars
  <2> QED BY <2>1 DEF LineageInv, Types, TasksStay, rowVars
<1> QED BY <1>1, <1>2, RowsStay DEF rowVars

\* The steps that write rows that exist, and so move them to the end.
LEMMA WriteKeep ==
  ASSUME LineageInv, NEW S \in SUBSET Rows, UNCHANGED <<parent, auto>>, TasksStay,
         status' \in [Runs -> Statuses], recency' = Touched(S),
         \A r \in Runs : IF r \in S THEN status'[r] # "none" ELSE status'[r] = status[r],
         \A r \in Runs : status[r] \in Ended => status'[r] \in Ended,
         claimed' \in [Runs -> BOOLEAN], replayed' \in [Runs -> BOOLEAN],
         risk' \in [Runs -> BOOLEAN], lease' \in [Runs -> BOOLEAN],
         exec' \in [Runs -> Workers \cup {NoWorker}]
  PROVE LineageInv'
<1>1. S \subseteq Runs /\ Rows' = Rows BY DEF Rows
<1>2. Types'
  <2>1. recency' \subseteq Rows' \X Rows' /\ Ordered(Rows)' BY <1>1, OrderKept DEF LineageInv
  <2> QED BY <2>1 DEF LineageInv, Types, TasksStay
<1> QED BY <1>1, <1>2, RowsStay

LEMMA RunKeeps ==
  ASSUME ReplayAssumption, LineageInv, NEW r \in Runs, RunStep(r)
  PROVE LineageInv'
<1>1. Types /\ TasksStay BY SameTask DEF LineageInv, RunStep, Handoff, AgentEnds, LeaseExpires
<1>2. CASE Handoff(r)
  <2>1. risk' \in [Runs -> BOOLEAN] BY <1>1, <1>2 DEF Handoff, Types
  <2> QED BY <1>1, <1>2, <2>1, QuietKeep DEF Handoff, eventVars, Types
<1>3. CASE AgentEnds(r)
  <2>1. exec' \in [Runs -> Workers \cup {NoWorker}] BY <1>1, <1>3 DEF AgentEnds, Types
  <2>2. CASE status[r] # "running" /\ UNCHANGED <<status, recency, lease, decision>>
    BY <1>1, <1>3, <2>1, <2>2, QuietKeep DEF AgentEnds, rowVars, Types
  <2>3. CASE status[r] = "running" /\ recency' = Touched({r}) /\ lease' = [lease EXCEPT ![r] = FALSE]
             /\ \E s \in {"completed", "failed"} : status' = [status EXCEPT ![r] = s]
    <3>1. PICK s \in {"completed", "failed"} : status' = [status EXCEPT ![r] = s] BY <2>3
    <3>2. status' \in [Runs -> Statuses] BY <1>1, <3>1 DEF Types, Statuses, Ended
    <3>3. {r} \in SUBSET Rows BY <2>3 DEF Rows
    <3>4. lease' \in [Runs -> BOOLEAN] BY <1>1, <2>3 DEF Types
    <3>5. \A x \in Runs : IF x \in {r} THEN status'[x] # "none" ELSE status'[x] = status[x]
      BY <1>1, <3>1 DEF Types
    <3>6. \A x \in Runs : status[x] \in Ended => status'[x] \in Ended
      BY <1>1, <3>1 DEF Types, Ended
    <3> QED BY <1>1, <1>3, <2>1, <2>3, <3>2, <3>3, <3>4, <3>5, <3>6, WriteKeep DEF AgentEnds, Types
  <2> QED BY <1>3, <2>2, <2>3 DEF AgentEnds
<1>4. CASE LeaseExpires(r)
  <2>1. lease' \in [Runs -> BOOLEAN] BY <1>1, <1>4 DEF LeaseExpires, Types
  <2> QED BY <1>1, <1>4, <2>1, QuietKeep DEF LeaseExpires, eventVars, Types
<1> QED BY <1>2, <1>3, <1>4 DEF RunStep

LEMMA SweepKeeps ==
  ASSUME ReplayAssumption, LineageInv, NEW w \in Workers, SweepStep(w) \/ Crash(w)
  PROVE LineageInv'
<1>1. Types /\ TasksStay BY SweepTasks, CrashTasks DEF LineageInv, SweepStep
<1>2. CASE Reconcile(w)
  <2> DEFINE S == {r \in Runs : Reconcilable(r)}
  <2>1. status' = [r \in Runs |-> IF r \in S THEN "interrupted" ELSE status[r]] /\ recency' = Touched(S)
    BY <1>2 DEF Reconcile
  <2>2. S \in SUBSET Rows BY DEF Reconcilable, Rows
  <2>3. status' \in [Runs -> Statuses] BY <1>1, <2>1 DEF Types, Statuses, Ended
  <2>4. \A x \in Runs : IF x \in S THEN status'[x] # "none" ELSE status'[x] = status[x] BY <2>1
  <2>5. \A x \in Runs : status[x] \in Ended => status'[x] \in Ended BY <2>1 DEF Ended
  <2> HIDE DEF S
  <2> QED BY <1>1, <1>2, <2>1, <2>2, <2>3, <2>4, <2>5, WriteKeep
          DEF Reconcile, Types, eventVars, execVars
<1>3. CASE Crash(w)
  <2>1. exec' \in [Runs -> Workers \cup {NoWorker}] BY <1>1, <1>3 DEF Crash, Types
  <2> QED BY <1>1, <1>3, <2>1, QuietKeep DEF Crash, eventVars, Types
<1>4. CASE AnnounceReconciled(w)
  BY <1>1, <1>4, QuietKeep DEF AnnounceReconciled, execVars, Types
<1>5. CASE ListCandidates(w) \/ Assess(w) \/ SweepEnds(w)
  BY <1>1, <1>5, QuietKeep DEF ListCandidates, Assess, SweepEnds, eventVars, execVars, Types
<1> QED BY <1>2, <1>3, <1>4, <1>5 DEF SweepStep

\* A new row hangs below one that ended; an automatic one within the cap.
LEMMA CreateKeeps ==
  ASSUME ReplayAssumption, LineageInv, NEW t \in Tasks, Create(t)
  PROVE LineageInv'
<1> DEFINE s == task[t].source
<1>1. task[t] \in Task /\ Proper(t, task[t]) /\ task \in [Tasks -> Task] /\ Types /\ TreeOK
  BY DEF LineageInv, Types
<1>2. PICK c \in Runs \ Rows :
        /\ status' = [status EXCEPT ![c] = "pending"] /\ parent' = [parent EXCEPT ![c] = s]
        /\ auto' = [auto EXCEPT ![c] = t \in Workers] /\ recency' = Touched({c})
        /\ task' = [task EXCEPT ![t].pc = "build", ![t].child = c]
  BY DEF Create
<1>3. /\ s \in Rows /\ s \in Runs /\ s # c /\ status[s] \in Ended
      /\ t \in Workers => Depth(s) < MaxDepth
  BY <1>1, <1>2 DEF Create, At, Proper, Rows
<1>4. status[c] = "none" /\ Rows' = Rows \cup {c} /\ Rows \subseteq Runs
  BY <1>1, <1>2 DEF Types, Rows
<1>5. TreeOK'
  <2>1. Parents(parent', Rows')
    BY <1>1, <1>2, <1>3, <1>4 DEF TreeOK, Parents
  <2>2. Ends(parent', Rows') BY <1>1, <1>2, <1>3, <1>4, EndsGrow DEF TreeOK
  <2>3. \E d : Deep(parent', d)
    <3>1. PICK d : Deep(parent, d) BY <1>1 DEF TreeOK
    <3>2. Parents(parent, Rows) BY <1>1 DEF TreeOK
    <3>3. Deep(parent', [d EXCEPT ![c] = 1 + d[s]]) BY <1>2, <1>3, <3>1, <3>2, DepthGrows
    <3> QED BY <3>3
  <2> QED BY <2>1, <2>2, <2>3 DEF TreeOK
<1>6. PICK d : Deep(parent, d) BY <1>1 DEF TreeOK
<1>7. d \in [Runs -> Nat] /\ Deep(parent', [d EXCEPT ![c] = 1 + d[s]])
  <2>1. Parents(parent, Rows) BY <1>1 DEF TreeOK
  <2>2. Deep(parent', [d EXCEPT ![c] = 1 + d[s]]) BY <1>2, <1>3, <1>6, <2>1, DepthGrows
  <2> QED BY <1>6, <2>2 DEF Deep
<1>8. \A r \in Runs : Depth(r) = d[r] BY <1>6, DepthIs
<1>9. \A r \in Runs : Depth(r)' = [d EXCEPT ![c] = 1 + d[s]][r]
  <2>1. PICK e : e = [d EXCEPT ![c] = 1 + d[s]] OBVIOUS
  <2>2. Deep(parent, e)' BY <1>7, <2>1 DEF Deep, DepthFn
  <2>3. \A r \in Runs : Depth(r)' = e[r]
    <3>1. DepthFn(parent', CHOOSE f : DepthFn(parent', f)) BY <2>2 DEF Deep
    <3>2. (CHOOSE f : DepthFn(parent', f)) = e BY <2>2, <3>1 DEF Deep
    <3>3. \A r \in Runs : Depth(r)' = (CHOOSE f : DepthFn(parent', f))[r] BY DEF Depth, DepthFn
    <3> QED BY <3>2, <3>3
  <2> QED BY <2>1, <2>3
<1>10. (\A r \in Rows : Depth(r)' = Depth(r)) /\ Depth(c)' = 1 + Depth(s)
  BY <1>3, <1>4, <1>7, <1>8, <1>9
<1>11. LineageSound'
  <2>1. BranchFromEnded'
    <3>1. \A r \in Rows : parent'[r] = parent[r] /\ (parent[r] # NoRun => parent[r] \in Rows)
      BY <1>1, <1>2, <1>4 DEF TreeOK, Parents
    <3>2. \A r \in Rows : status'[r] = status[r] BY <1>1, <1>2, <1>4 DEF Types
    <3>3. parent'[c] = s /\ status'[s] = status[s] BY <1>1, <1>2, <1>3 DEF TreeOK, Parents, Types
    <3> QED BY <1>3, <1>4, <3>1, <3>2, <3>3 DEF LineageInv, LineageSound, BranchFromEnded
  <2>2. DepthBounded'
    <3>1. \A r \in Rows : auto'[r] = auto[r] BY <1>1, <1>2, <1>4 DEF Types
    <3>2. auto'[c] <=> t \in Workers BY <1>1, <1>2 DEF Types
    <3>3. Depth(s) \in Nat BY <1>3, <1>7, <1>8
    <3>4. 1 + Depth(s) <= MaxDepth <=> Depth(s) < MaxDepth BY <3>3 DEF ReplayAssumption
    <3> QED BY <1>3, <1>4, <1>10, <3>1, <3>2, <3>4 DEF LineageInv, LineageSound, DepthBounded
  <2> QED BY <2>1, <2>2 DEF LineageSound
<1>12. Types'
  <2>1. recency' \subseteq Rows' \X Rows' /\ Ordered(Rows)' BY <1>1, <1>2, <1>4, OrderKept
  <2>2. status' \in [Runs -> Statuses] /\ auto' \in [Runs -> BOOLEAN]
    BY <1>1, <1>2 DEF Types, Statuses, Active
  <2>3. task' \in [Tasks -> Task]
    <3>1. [task[t] EXCEPT !.pc = "build", !.child = c] \in Task BY <1>1, <1>2 DEF Task, SpawnSteps
    <3> QED BY <1>1, <1>2, <3>1
  <2> QED BY <1>1, <2>1, <2>2, <2>3 DEF Types, Create, eventVars, execVars
<1>13. ASSUME NEW u \in Tasks PROVE Proper(u, task[u])'
  <2>1. \A r \in Rows : status'[r] = status[r] /\ parent'[r] = parent[r] /\ r \in Rows'
    BY <1>1, <1>2, <1>4 DEF Types, TreeOK, Parents
  <2>2. task[u] \in Task /\ Proper(u, task[u]) BY DEF LineageInv, Types
  <2>3. CASE u # t
    <3>1. task'[u] = task[u] BY <1>1, <1>2, <2>3
    <3>2. PICK v : v = task[u] OBVIOUS
    <3>3. Proper(u, v)' BY <1>10, <2>1, <2>2, <3>2 DEF Proper
    <3> QED BY <3>1, <3>2, <3>3
  <2>4. CASE u = t
    <3>1. task'[t] = [task[t] EXCEPT !.pc = "build", !.child = c] BY <1>1, <1>2
    <3>2. PICK v : v = task'[t] OBVIOUS
    <3>3. /\ v.pc = "build" /\ v.child = c /\ v.source = s /\ v.queue = task[t].queue
          /\ v.todo = task[t].todo
      BY <1>1, <3>1, <3>2 DEF Task
    <3>4. c \in Rows' /\ parent'[c] = s /\ s \in Rows' /\ status'[s] \in Ended
      BY <1>1, <1>2, <1>3, <1>4, <2>1 DEF TreeOK, Parents
    <3>5. \A i \in 1..Len(v.queue) : v.queue[i] \in Rows /\ status[v.queue[i]] \in Ended
      BY <1>1, <3>3 DEF Proper
    <3>6. v.todo \subseteq Rows BY <1>1, <3>3 DEF Proper
    <3>7. Proper(t, v)' BY <2>1, <3>3, <3>4, <3>5, <3>6 DEF Proper, SpawnSteps, CallSteps
    <3> QED BY <2>4, <3>2, <3>7
  <2> QED BY <2>3, <2>4
<1> QED BY <1>5, <1>11, <1>12, <1>13 DEF LineageInv

LEMMA SpawnKeeps ==
  ASSUME ReplayAssumption, LineageInv, NEW t \in Tasks, SpawnStep(t)
  PROVE LineageInv'
<1>1. CASE Create(t) BY <1>1, CreateKeeps
<1>2. ASSUME ~Create(t) PROVE TasksStay BY <1>2, SpawnTasks DEF SpawnStep
<1>3. Types BY DEF LineageInv
<1>4. task[t] \in Task /\ Proper(t, task[t]) BY DEF LineageInv, Types
<1>5. CASE BuildFails(t) \/ Claim(t)
  <2> DEFINE c == task[t].child
  <2>1. c \in Rows /\ {c} \in SUBSET Rows /\ c \in Runs
    BY <1>4, <1>5 DEF BuildFails, Claim, At, Proper, SpawnSteps, Rows
  <2>2. ~Create(t) BY <1>5 DEF Create, BuildFails, Claim, At
  <2> HIDE DEF c
  <2>3. CASE UNCHANGED <<rowVars, eventVars, exec, risk, lease>>
    BY <1>2, <1>3, <2>2, <2>3, QuietKeep DEF eventVars, rowVars, Types
  <2>4. ASSUME NEW x \in {"failed", "running"}, status' = [status EXCEPT ![c] = x],
               recency' = Touched({c}), UNCHANGED <<parent, auto, eventVars, exec, risk>>,
               lease' \in [Runs -> BOOLEAN], x = "running" => status[c] = "pending"
        PROVE LineageInv'
    <3>1. status' \in [Runs -> Statuses] BY <1>3, <2>4 DEF Types, Statuses, Active, Ended
    <3>2. \A y \in Runs : IF y \in {c} THEN status'[y] # "none" ELSE status'[y] = status[y]
      BY <1>3, <2>1, <2>4 DEF Types
    <3>3. \A y \in Runs : status[y] \in Ended => status'[y] \in Ended
      BY <1>3, <2>1, <2>4 DEF Types, Ended
    <3> QED BY <1>2, <1>3, <2>1, <2>2, <2>4, <3>1, <3>2, <3>3, WriteKeep DEF eventVars, Types
  <2>5. CASE BuildFails(t) BY <1>3, <2>4, <2>5 DEF BuildFails, execVars, Types, c
  <2>6. CASE Claim(t)
    <3>1. CASE status[c] = "pending"
      <4>1. lease' \in [Runs -> BOOLEAN] BY <1>3, <2>1, <2>6, <3>1 DEF Claim, Types, c
      <4> QED BY <2>4, <2>6, <3>1, <4>1 DEF Claim, c
    <3>2. CASE status[c] # "pending" BY <2>3, <2>6, <3>2 DEF Claim, c, rowVars
    <3> QED BY <3>1, <3>2
  <2> QED BY <1>5, <2>5, <2>6
<1>6. CASE RecordClaim(t) \/ RecordReplayed(t)
  <2>1. ~Create(t) BY <1>6 DEF Create, RecordClaim, RecordReplayed, At
  <2>2. claimed' \in [Runs -> BOOLEAN] /\ replayed' \in [Runs -> BOOLEAN]
    BY <1>3, <1>6 DEF RecordClaim, RecordReplayed, Types
  <2> QED BY <1>2, <1>3, <1>6, <2>1, <2>2, QuietKeep DEF RecordClaim, RecordReplayed, execVars, Types
<1>7. CASE Start(t)
  <2>1. ~Create(t) BY <1>7 DEF Create, Start, At
  <2>2. exec' \in [Runs -> Workers \cup {NoWorker}] BY <1>3, <1>4, <1>7 DEF Start, Types, Task
  <2> QED BY <1>2, <1>3, <1>7, <2>1, <2>2, QuietKeep DEF Start, eventVars, Types
<1>8. CASE Refuse(t) \/ CreateFails(t) \/ FollowReplay(t) \/ AnnounceChild(t)
  <2>1. CASE Create(t) BY <1>1, <2>1
  <2>2. CASE ~Create(t)
    BY <1>2, <1>3, <1>8, <2>2, QuietKeep
       DEF Refuse, CreateFails, FollowReplay, AnnounceChild, eventVars, execVars, Types
  <2> QED BY <2>1, <2>2
<1> QED BY <1>1, <1>5, <1>6, <1>7, <1>8 DEF SpawnStep

LEMMA CallKeeps ==
  ASSUME ReplayAssumption, LineageInv, NEW c \in Callers, CallStep(c)
  PROVE LineageInv'
<1>1. Types /\ TasksStay BY CallTasks DEF LineageInv
<1>2. CASE CancelWrite(c)
  <2>0. c \in Tasks BY DEF Tasks
  <2>1. task[c] \in Task /\ Proper(c, task[c]) BY <2>0 DEF LineageInv, Types
  <2> DEFINE r == task[c].child
  <2>2. r \in Rows /\ {r} \in SUBSET Rows /\ r \in Runs
    BY <1>2, <2>1 DEF CancelWrite, At, Proper, Rows
  <2>3. status' = [status EXCEPT ![r] = "cancelled"] /\ recency' = Touched({r})
    BY <1>2 DEF CancelWrite
  <2>4. status' \in [Runs -> Statuses] BY <1>1, <2>3 DEF Types, Statuses, Ended
  <2>5. \A x \in Runs : IF x \in {r} THEN status'[x] # "none" ELSE status'[x] = status[x]
    BY <1>1, <2>2, <2>3 DEF Types
  <2>6. \A x \in Runs : status[x] \in Ended => status'[x] \in Ended BY <1>1, <2>3 DEF Types, Ended
  <2>7. lease' \in [Runs -> BOOLEAN] /\ exec' \in [Runs -> Workers \cup {NoWorker}]
    BY <1>1, <1>2, <2>2 DEF CancelWrite, Types
  <2> HIDE DEF r
  <2> QED BY <1>1, <1>2, <2>2, <2>3, <2>4, <2>5, <2>6, <2>7, WriteKeep DEF CancelWrite, Types
<1>3. CASE Request(c) \/ ReplayCheck(c) \/ CancelCheck(c) \/ DropRequest(c)
  BY <1>1, <1>3, QuietKeep
     DEF Request, ReplayCheck, CancelCheck, DropRequest, eventVars, execVars, Types
<1> QED BY <1>2, <1>3 DEF CallStep

\* When the history begins there are only roots.
LEMMA LineageStart == ASSUME ReplayAssumption, Init PROVE LineageInv
<1>1. Rows = Roots /\ Roots \subseteq Runs BY DEF Init, Rows, ReplayAssumption
<1>2. Types
  <2>1. status \in [Runs -> Statuses] BY DEF Init, Statuses, Active
  <2>2. task \in [Tasks -> Task]
    <3>1. \A t \in Tasks : task[t] \in Task BY FreshIs DEF Init, ReplayAssumption, Tasks
    <3> QED BY <3>1 DEF Init
  <2> QED BY <1>1, <2>1, <2>2 DEF Init, Types
<1>3. TreeOK
  <2>1. parent = [r \in Runs |-> NoRun] BY DEF Init
  <2>2. Parents(parent, Rows) BY <1>1, <2>1 DEF Parents
  <2>3. Ends(parent, Rows)
    <3> SUFFICES ASSUME NEW L, Selects(parent, Rows, L)
                 PROVE /\ \E f : LeafFn(L, f)
                       /\ \A f : LeafFn(L, f) => \A r \in Rows : f[r] \in Rows
      BY DEF Ends
    <3>1. ASSUME NEW x \in Runs PROVE L[x] = NoRun
      <4>1. L[x] \in Rows \cup {NoRun} /\ (L[x] # NoRun => parent[L[x]] = x) BY DEF Selects
      <4> QED BY <1>1, <2>1, <4>1, NoRunIsNone
    <3>2. LeafFn(L, [x \in Runs |-> x]) BY <3>1 DEF LeafFn
    <3>3. ASSUME NEW f, LeafFn(L, f) PROVE \A r \in Rows : f[r] \in Rows
      BY <1>1, <3>1, <3>3 DEF LeafFn
    <3> QED BY <3>2, <3>3
  <2>4. Deep(parent, [x \in Runs |-> 0])
    <3>1. DepthFn(parent, [x \in Runs |-> 0]) BY <2>1 DEF DepthFn
    <3>2. ASSUME NEW e, DepthFn(parent, e) PROVE e = [x \in Runs |-> 0]
      <4>1. e = [x \in Runs |-> IF parent[x] = NoRun THEN 0 ELSE 1 + e[parent[x]]]
        BY <3>2 DEF DepthFn
      <4>2. \A x \in Runs : e[x] = 0 BY <2>1, <4>1
      <4> QED BY <4>1, <4>2
    <3> QED BY <3>1, <3>2 DEF Deep
  <2> QED BY <2>2, <2>3, <2>4 DEF TreeOK
<1>4. LineageSound BY DEF Init, LineageSound, BranchFromEnded, DepthBounded, Rows
<1>5. ASSUME NEW t \in Tasks PROVE Proper(t, task[t])
  <2>1. task[t] = NoRequest \/ (t \in Workers /\ task[t] = Fresh(t)) BY DEF Init
  <2> QED BY <2>1, FreshIs DEF ReplayAssumption
<1> QED BY <1>2, <1>3, <1>4, <1>5 DEF LineageInv

LEMMA LineageKept == ASSUME ReplayAssumption, LineageInv, [Next]_vars PROVE LineageInv'
<1>1. CASE UNCHANGED vars
  BY <1>1, SameTask, QuietKeep DEF vars, rowVars, eventVars, execVars, LineageInv, Types
<1> QED BY <1>1, RunKeeps, SweepKeeps, SpawnKeeps, CallKeeps DEF Next

\* Only a run that is over is replayed, and no automatic replay lies deeper
\* than the cap: for any number of runs, workers, callers, crashes and faults.
THEOREM LineageHolds == ReplayAssumption => (Spec => []LineageSound)
<1> SUFFICES ASSUME ReplayAssumption PROVE Spec => []LineageSound OBVIOUS
<1>1. Init => LineageInv BY LineageStart
<1>2. LineageInv /\ [Next]_vars => LineageInv' BY LineageKept
<1>3. LineageInv => LineageSound BY DEF LineageInv
<1> QED BY <1>1, <1>2, <1>3, PTL DEF Spec

----------------------------------------------------------------------------
(* No risky run is replayed: from the moment a sweep lists a run until it  *)
(* is replayed nobody executes the run, so nothing of it can become risky. *)

\* The task has claimed the child c and has not started it yet.
Past(t, c) == task[t].pc \in SpawnSteps \ {"create", "build"} /\ task[t].child = c
Held(r) == exec[r] # NoWorker \/ \E t \in Tasks : Past(t, r)
Dead(r) == status[r] \notin {"none", "pending"} /\ ~Held(r)

\* A run that is held was claimed, and while its row says so its lease is kept.
Leased == \A r \in Runs :
            /\ Held(r) => status[r] \notin {"none", "pending"}
            /\ Held(r) /\ status[r] = "running" => lease[r]
InterruptedDead == \A r \in Runs : status[r] = "interrupted" => Dead(r)
Listed(w, v) == /\ \A i \in 1..Len(v.queue) : Dead(v.queue[i])
                /\ v.pc = "create" => Dead(v.source) /\ ~risk[v.source]
SafeInv == LineageInv /\ Leased /\ InterruptedDead /\ \A w \in Workers : Listed(w, task[w])

\* A step that holds nobody but a run it claims, and that keeps the leases of
\* those who are held and the handoffs of those who are not.
Calm == \A r \in Runs :
  /\ Held(r)' => Held(r) \/ (status[r] = "pending" /\ status'[r] = "running" /\ lease'[r])
  /\ status[r] \notin {"none", "pending"} => status'[r] \notin {"none", "pending"}
  /\ Held(r) /\ Held(r)' /\ status'[r] = "running" => status[r] = "running" /\ lease'[r] = lease[r]
  /\ status'[r] = "interrupted" => status[r] = "interrupted" \/ ~Held(r)'
  /\ Dead(r) => risk'[r] = risk[r]
\* The sweep of w neither lists runs nor chooses one to replay.
Quiet(w) == \/ task'[w] = task[w]
            \/ task'[w].pc # "create" /\ task'[w].queue \in {task[w].queue, << >>}
QuietStep == \A w \in Workers : Quiet(w)
NoNewPast == \A t \in Tasks : \A c \in Runs : Past(t, c)' => Past(t, c)

LEMMA CalmKeeps ==
  ASSUME SafeInv, Calm, \A w \in Workers : Listed(w, task'[w]), LineageInv'
  PROVE SafeInv'
<1>1. ASSUME NEW r \in Runs, Dead(r) PROVE Dead(r)' /\ risk'[r] = risk[r]
  BY <1>1 DEF Calm, Dead
<1>2. Leased' BY DEF SafeInv, Calm, Leased
<1>3. InterruptedDead'
  <2> SUFFICES ASSUME NEW r \in Runs, status'[r] = "interrupted" PROVE Dead(r)'
    BY DEF InterruptedDead
  <2>1. CASE status[r] = "interrupted" BY <1>1, <2>1 DEF SafeInv, InterruptedDead
  <2>2. CASE ~Held(r)' BY <2>2 DEF Dead
  <2> QED BY <2>1, <2>2 DEF Calm
<1>4. ASSUME NEW w \in Workers, NEW v, v = task'[w] PROVE Listed(w, v)'
  <2>1. Listed(w, v) BY <1>4
  <2>2. w \in Tasks /\ v \in Task BY <1>4 DEF LineageInv, Types, Tasks
  <2>3. Proper(w, v)' BY <1>4, <2>2 DEF LineageInv
  <2>4. v.pc = "create" => v.source \in Runs
    BY <2>3 DEF Proper, Rows
  <2>5. \A i \in 1..Len(v.queue) : v.queue[i] \in Runs BY <2>2 DEF Task
  <2> QED BY <1>1, <2>1, <2>4, <2>5 DEF Listed
<1>5. \A w \in Workers : Listed(w, task[w])' BY <1>4
<1> QED BY <1>2, <1>3, <1>5 DEF SafeInv

\* A task moves without listing or choosing a run.
LEMMA PlainMove ==
  ASSUME SafeInv, NEW t \in Tasks, NEW v, task' = [task EXCEPT ![t] = v],
         t \in Workers => v.pc # "create" /\ (v.queue = task[t].queue \/ v.queue = << >>),
         \A c \in Runs : v.pc \in SpawnSteps \ {"create", "build"} /\ v.child = c => Past(t, c)
  PROVE QuietStep /\ NoNewPast
<1>1. task \in [Tasks -> Task] BY DEF SafeInv, LineageInv, Types
<1>2. task'[t] = v /\ \A u \in Tasks \ {t} : task'[u] = task[u] BY <1>1
<1>3. QuietStep BY <1>2 DEF QuietStep, Quiet, Tasks
<1>4. ASSUME NEW u \in Tasks, NEW c \in Runs, Past(u, c)' PROVE Past(u, c)
  BY <1>2, <1>4 DEF Past
<1> QED BY <1>3, <1>4 DEF NoNewPast

\* Nobody is added, and no row, lease or handoff is touched.
LEMMA PlainCalm ==
  ASSUME SafeInv, NoNewPast, UNCHANGED <<status, exec, lease, risk>>
  PROVE Calm
<1>1. \A r \in Runs : Held(r)' => Held(r) BY DEF NoNewPast, Held
<1> QED BY <1>1 DEF Calm

LEMMA StillTasks == ASSUME UNCHANGED task PROVE QuietStep /\ NoNewPast
BY DEF QuietStep, Quiet, NoNewPast, Past

LEMMA FinishMoves == ASSUME SafeInv, NEW t \in Tasks, Finish(t) PROVE QuietStep /\ NoNewPast
<1>1. task \in [Tasks -> Task] BY DEF SafeInv, LineageInv, Types
<1>2. task' = [task EXCEPT ![t] = Done(t)] BY DEF Finish
<1>3. CASE t \in Workers
  <2>1. Done(t).pc = "assess" /\ Done(t).queue = task[t].queue BY <1>1, <1>3 DEF Done, Task
  <2> QED BY <1>2, <2>1, PlainMove DEF SpawnSteps
<1>4. CASE t \notin Workers
  <2>1. Done(t).pc = "idle" BY <1>4 DEF Done, NoRequest, Fresh
  <2> QED BY <1>2, <1>4, <2>1, PlainMove DEF SpawnSteps
<1> QED BY <1>3, <1>4

LEMMA StartFailedMoves ==
  ASSUME SafeInv, NEW t \in Tasks, StartFailed(t) PROVE QuietStep /\ NoNewPast
<1>1. task \in [Tasks -> Task] BY DEF SafeInv, LineageInv, Types
<1>3. CASE t \in Workers
  <2> DEFINE v == [task[t] EXCEPT !.pc = "refuse", !.child = NoRun,
                                  !.verdict = Decision("failed", NoRun)]
  <2>1. task' = [task EXCEPT ![t] = v] BY <1>1, <1>3 DEF StartFailed
  <2>2. v.pc = "refuse" /\ v.queue = task[t].queue BY <1>1 DEF Task
  <2> QED BY <2>1, <2>2, PlainMove DEF SpawnSteps
<1>4. CASE t \notin Workers
  <2>1. task' = [task EXCEPT ![t] = NoRequest] BY <1>4 DEF StartFailed
  <2>2. NoRequest.pc = "idle" BY DEF NoRequest, Fresh
  <2> QED BY <1>4, <2>1, <2>2, PlainMove DEF SpawnSteps
<1> QED BY <1>3, <1>4

LEMMA GotoMoves ==
  ASSUME SafeInv, NEW t \in Tasks, NEW p, Goto(t, p), p # "create",
         p \in SpawnSteps \ {"build"} => task[t].pc \in SpawnSteps \ {"create", "build"}
  PROVE QuietStep /\ NoNewPast
<1>1. task \in [Tasks -> Task] BY DEF SafeInv, LineageInv, Types
<1> DEFINE v == [task[t] EXCEPT !.pc = p]
<1>2. task' = [task EXCEPT ![t] = v] BY <1>1 DEF Goto
<1>3. v.pc = p /\ v.queue = task[t].queue /\ v.child = task[t].child BY <1>1 DEF Task
<1> HIDE DEF v
<1> QED BY <1>2, <1>3, PlainMove DEF Past

LEMMA RunCalm ==
  ASSUME ReplayAssumption, Prompt, SafeInv, NEW r \in Runs, RunStep(r)
  PROVE Calm /\ QuietStep
<1>1. UNCHANGED task BY DEF RunStep, Handoff, AgentEnds, LeaseExpires
<1>2. QuietStep /\ \A t \in Tasks : \A c \in Runs : Past(t, c)' <=> Past(t, c)
  BY <1>1, StillTasks DEF Past
<1>3. Types BY DEF SafeInv, LineageInv
<1>4. CASE Handoff(r)
  <2>1. \A x \in Runs : Held(x)' <=> Held(x) BY <1>2, <1>4 DEF Held, Handoff
  <2>2. \A x \in Runs : Dead(x) => risk'[x] = risk[x] BY <1>3, <1>4 DEF Dead, Held, Handoff, Types
  <2> QED BY <1>2, <1>4, <2>1, <2>2 DEF Handoff, Calm, rowVars
<1>5. CASE AgentEnds(r)
  <2>1. \A x \in Runs : Held(x)' => Held(x) BY <1>2, <1>3, <1>5 DEF Held, AgentEnds, Types
  <2>2. risk' = risk BY <1>5 DEF AgentEnds
  <2>3. CASE status[r] # "running" /\ UNCHANGED <<status, recency, lease, decision>>
    BY <1>2, <2>1, <2>2, <2>3 DEF Calm
  <2>4. ASSUME NEW s \in {"completed", "failed"}, status' = [status EXCEPT ![r] = s],
               lease' = [lease EXCEPT ![r] = FALSE]
        PROVE Calm
    BY <1>3, <2>1, <2>2, <2>4 DEF Calm, Types
  <2> QED BY <1>2, <1>5, <2>3, <2>4 DEF AgentEnds
<1>6. CASE LeaseExpires(r)
  <2>1. \A x \in Runs : Held(x)' <=> Held(x) BY <1>2, <1>6 DEF Held, LeaseExpires
  <2>2. ~Held(r)
    <3>1. ~Attended(r) BY <1>6 DEF LeaseExpires
    <3> QED BY <3>1 DEF Attended, Held, Past, Spawning
  <2>3. \A x \in Runs \ {r} : lease'[x] = lease[x] BY <1>3, <1>6 DEF LeaseExpires, Types
  <2> QED BY <1>2, <1>6, <2>1, <2>2, <2>3 DEF LeaseExpires, Calm, rowVars
<1> QED BY <1>4, <1>5, <1>6 DEF RunStep

\* A sweep lists runs without a child, each once.
LEMMA Lists ==
  ASSUME ReplayAssumption, SafeInv, NEW w \in Workers, ListCandidates(w)
  PROVE /\ task'[w].pc = "assess" /\ \A u \in Tasks \ {w} : task'[u] = task[u]
        /\ \A i \in 1..Len(task'[w].queue) :
             /\ task'[w].queue[i] \in Rows /\ Candidate(task'[w].queue[i])
             /\ \A j \in 1..Len(task'[w].queue) : j < i => task'[w].queue[j] # task'[w].queue[i]
<1>1. Types /\ w \in Tasks BY DEF SafeInv, LineageInv, Tasks
<1>2. task \in [Tasks -> Task] /\ task[w] \in Task BY <1>1 DEF Types
<1>3. PICK n : \E q \in [1..n -> {r \in Rows : Candidate(r)}] :
        /\ \A i \in 1..n : IsEarliest(q[i], {r \in Rows : Candidate(r)} \ {q[j] : j \in 1..i - 1})
        /\ task' = [task EXCEPT ![w].pc = "assess", ![w].queue = q]
  <2> DEFINE cs == {r \in Rows : Candidate(r)}
             m == IF Cardinality(cs) < Batch THEN Cardinality(cs) ELSE Batch
  <2>1. \E q \in [1..m -> cs] :
          /\ \A i \in 1..m : IsEarliest(q[i], cs \ {q[j] : j \in 1..i - 1})
          /\ task' = [task EXCEPT ![w].pc = "assess", ![w].queue = q]
    BY DEF ListCandidates
  <2> QED BY <2>1
<1>4. PICK q \in [1..n -> {r \in Rows : Candidate(r)}] :
        /\ \A i \in 1..n : IsEarliest(q[i], {r \in Rows : Candidate(r)} \ {q[j] : j \in 1..i - 1})
        /\ task' = [task EXCEPT ![w].pc = "assess", ![w].queue = q]
  BY <1>3
<1>5. task'[w].pc = "assess" /\ task'[w].queue = q /\ \A u \in Tasks \ {w} : task'[u] = task[u]
  BY <1>1, <1>2, <1>4 DEF Task
<1>6. q \in Seq(Runs)
  <2>1. LineageInv' BY SweepKeeps DEF SafeInv, SweepStep
  <2> QED BY <1>1, <1>5, <2>1 DEF LineageInv, Types, Task
<1>7. Len(q) \in Nat /\ DOMAIN q = 1..Len(q) /\ 1..Len(q) = 1..n BY <1>4, <1>6
<1>8. \A i \in 1..Len(q) : q[i] \in Rows /\ Candidate(q[i]) BY <1>4, <1>7
<1>9. ASSUME NEW i \in 1..Len(q), NEW j \in 1..Len(q), j < i PROVE q[j] # q[i]
  <2>1. i \in 1..n BY <1>7
  <2>2. j \in 1..i - 1 BY <1>7, <1>9
  <2> QED BY <1>4, <2>1, <2>2 DEF IsEarliest
<1> QED BY <1>5, <1>8, <1>9

LEMMA Assesses ==
  ASSUME ReplayAssumption, SafeInv, NEW w \in Workers, Assess(w)
  PROVE /\ Len(task[w].queue) \in Nat \ {0} /\ task[w].queue[1] \in Runs
        /\ task'[w].pc \in {"create", "refuse"} /\ task'[w].source = task[w].queue[1]
        /\ task'[w].pc = "create" => ~risk[task[w].queue[1]]
        /\ Len(task'[w].queue) = Len(task[w].queue) - 1
        /\ \A i \in 1..Len(task'[w].queue) : task'[w].queue[i] = task[w].queue[i + 1]
        /\ \A u \in Tasks \ {w} : task'[u] = task[u]
<1>1. Types /\ w \in Tasks BY DEF SafeInv, LineageInv, Tasks
<1>2. task \in [Tasks -> Task] /\ task[w] \in Task BY <1>1 DEF Types
<1> DEFINE Q == task[w].queue
<1>3. PICK s, d, pc :
        /\ Q # << >> /\ s = Head(Q) /\ d = Verdict(s)
        /\ pc = (IF d.kind = "none" THEN "create" ELSE "refuse")
        /\ task' = [task EXCEPT ![w].queue = Tail(Q), ![w].source = s, ![w].verdict = d, ![w].pc = pc]
  <2> DEFINE s == Head(Q)  d == Verdict(s)
  <2>1. task' = [task EXCEPT ![w].queue = Tail(Q), ![w].source = s, ![w].verdict = d,
                             ![w].pc = IF d.kind = "none" THEN "create" ELSE "refuse"]
    BY <1>2 DEF Assess
  <2>2. Q # << >> BY DEF Assess
  <2> HIDE DEF s, d
  <2> QED BY <2>1, <2>2 DEF s, d
<1>4. /\ Len(Q) \in Nat \ {0} /\ s = Q[1] /\ s \in Runs
      /\ Len(Tail(Q)) = Len(Q) - 1 /\ \A i \in 1..Len(Tail(Q)) : Tail(Q)[i] = Q[i + 1]
  BY <1>2, <1>3 DEF Task
<1>5. d.kind = "none" => ~risk[s] BY <1>3 DEF Verdict, Decision
<1>6. /\ task'[w].pc = pc /\ task'[w].source = s /\ task'[w].queue = Tail(Q)
      /\ \A u \in Tasks \ {w} : task'[u] = task[u]
  BY <1>1, <1>2, <1>3 DEF Task
<1>7. task'[w].pc \in {"create", "refuse"} /\ (task'[w].pc = "create" => ~risk[s]) BY <1>3, <1>5, <1>6
<1>8. /\ Len(task'[w].queue) = Len(Q) - 1
      /\ \A i \in 1..Len(task'[w].queue) : task'[w].queue[i] = Q[i + 1]
  BY <1>4, <1>6
<1> QED BY <1>4, <1>6, <1>7, <1>8

LEMMA SweepCalm ==
  ASSUME ReplayAssumption, SafeInv, NEW w \in Workers, SweepStep(w) \/ Crash(w)
  PROVE Calm /\ \A v \in Workers : Quiet(v) \/ (v = w /\ (ListCandidates(w) \/ Assess(w)))
<1>1. Types /\ w \in Tasks BY DEF SafeInv, LineageInv, Tasks
<1>2. task \in [Tasks -> Task] /\ task[w] \in Task BY <1>1 DEF Types
<1>3. CASE Reconcile(w)
  <2>1. PICK lost : /\ lost = {r \in Runs : Reconcilable(r)}
                    /\ status' = [r \in Runs |-> IF r \in lost THEN "interrupted" ELSE status[r]]
                    /\ task' = [task EXCEPT ![w].pc = "announce", ![w].todo = lost]
    BY <1>3 DEF Reconcile
  <2> DEFINE v == [task[w] EXCEPT !.pc = "announce", !.todo = lost]
  <2>2. task' = [task EXCEPT ![w] = v] BY <1>2, <2>1
  <2>3. v.pc = "announce" /\ v.queue = task[w].queue BY <1>2 DEF Task
  <2>4. QuietStep /\ NoNewPast BY <1>1, <2>2, <2>3, PlainMove DEF SpawnSteps
  <2>5. UNCHANGED <<exec, lease, risk>> BY <1>3 DEF Reconcile, execVars
  <2>6. \A r \in Runs : Held(r)' => Held(r) BY <2>4, <2>5 DEF NoNewPast, Held
  <2>7. \A r \in lost : ~Held(r) BY <2>1 DEF Reconcilable, SafeInv, Leased
  <2>8. \A r \in Runs : status'[r] = IF r \in lost THEN "interrupted" ELSE status[r] BY <2>1
  <2> HIDE DEF v
  <2> QED BY <2>4, <2>5, <2>6, <2>7, <2>8 DEF Calm, QuietStep
<1>4. CASE Crash(w)
  <2>1. ASSUME NEW u \in Tasks
        PROVE task'[u] = task[u] \/ (task'[u].pc = "idle" /\ task'[u].queue = << >>)
    BY <1>4 DEF Crash, NoRequest, Fresh
  <2>2. QuietStep BY <2>1 DEF QuietStep, Quiet, Tasks
  <2>3. NoNewPast BY <2>1 DEF NoNewPast, Past, SpawnSteps
  <2>4. \A r \in Runs : Held(r)' => Held(r)
    <3>1. \A r \in Runs : exec'[r] # NoWorker => exec[r] # NoWorker BY <1>4 DEF Crash
    <3> QED BY <2>3, <3>1 DEF NoNewPast, Held
  <2> QED BY <1>4, <2>2, <2>4 DEF Crash, Calm, rowVars, QuietStep
<1>5. CASE AnnounceReconciled(w)
  <2>1. CASE Goto(w, "list")
    <3>1. QuietStep /\ NoNewPast BY <1>1, <2>1, GotoMoves DEF SpawnSteps
    <3> QED BY <1>5, <3>1, PlainCalm DEF AnnounceReconciled, rowVars, execVars, QuietStep
  <2>2. CASE \E r \in task[w].todo : task' = [task EXCEPT ![w].todo = @ \ {r}]
    <3>0. PICK r \in task[w].todo : task' = [task EXCEPT ![w].todo = @ \ {r}] BY <2>2
    <3> DEFINE v == [task[w] EXCEPT !.todo = @ \ {r}]
    <3>1. task' = [task EXCEPT ![w] = v] BY <1>2, <3>0
    <3>2. v.pc = "announce" /\ v.queue = task[w].queue
      BY <1>2, <1>5 DEF AnnounceReconciled, At, Task
    <3> HIDE DEF v
    <3>3. QuietStep /\ NoNewPast BY <1>1, <3>1, <3>2, PlainMove DEF SpawnSteps
    <3> QED BY <1>5, <3>3, PlainCalm DEF AnnounceReconciled, rowVars, execVars, QuietStep
  <2> QED BY <1>5, <2>1, <2>2 DEF AnnounceReconciled
<1>6. CASE ListCandidates(w) \/ Assess(w)
  <2>1. UNCHANGED <<status, exec, lease, risk>>
    BY <1>6 DEF ListCandidates, Assess, rowVars, execVars
  <2>2. task'[w].pc \in {"assess", "create", "refuse"} /\ \A u \in Tasks \ {w} : task'[u] = task[u]
    BY <1>6, Lists, Assesses
  <2>3. NoNewPast BY <2>2 DEF NoNewPast, Past, SpawnSteps
  <2> QED BY <1>6, <2>1, <2>2, <2>3, PlainCalm DEF Quiet, Tasks
<1>7. CASE SweepEnds(w)
  <2>1. Fresh(w).pc = "idle" /\ Fresh(w).queue = << >> BY DEF Fresh
  <2>2. QuietStep /\ NoNewPast BY <1>1, <1>7, <2>1, PlainMove DEF SweepEnds, SpawnSteps
  <2> QED BY <1>7, <2>2, PlainCalm DEF SweepEnds, rowVars, execVars, QuietStep
<1> QED BY <1>3, <1>4, <1>5, <1>6, <1>7 DEF SweepStep, QuietStep

LEMMA SpawnCalm ==
  ASSUME ReplayAssumption, SafeInv, NEW t \in Tasks, SpawnStep(t)
  PROVE Calm /\ QuietStep
<1>1. Types BY DEF SafeInv, LineageInv
<1>2. task \in [Tasks -> Task] /\ task[t] \in Task /\ Proper(t, task[t])
  BY <1>1 DEF Types, SafeInv, LineageInv
<1>3. CASE Refuse(t)
  <2>1. QuietStep /\ NoNewPast BY <1>3, FinishMoves DEF Refuse
  <2> QED BY <1>3, <2>1, PlainCalm DEF Refuse, rowVars, execVars
<1>4. CASE Create(t)
  <2>1. PICK c \in Runs \ Rows :
          /\ status' = [status EXCEPT ![c] = "pending"]
          /\ task' = [task EXCEPT ![t].pc = "build", ![t].child = c]
    BY <1>4 DEF Create
  <2> DEFINE v == [task[t] EXCEPT !.pc = "build", !.child = c]
  <2>2. task' = [task EXCEPT ![t] = v] BY <1>2, <2>1
  <2>3. v.pc = "build" /\ v.queue = task[t].queue BY <1>2 DEF Task
  <2> HIDE DEF v
  <2>4. QuietStep /\ NoNewPast BY <2>2, <2>3, PlainMove DEF SpawnSteps
  <2>5. status[c] = "none" /\ \A r \in Runs \ {c} : status'[r] = status[r]
    BY <1>1, <2>1 DEF Types, Rows
  <2>6. status'[c] = "pending" BY <1>1, <2>1 DEF Types
  <2>7. UNCHANGED <<exec, lease, risk>> BY <1>4 DEF Create, execVars
  <2>8. \A r \in Runs : Held(r)' => Held(r) BY <2>4, <2>7 DEF NoNewPast, Held
  <2> QED BY <2>4, <2>5, <2>6, <2>7, <2>8 DEF Calm
<1>5. CASE CreateFails(t)
  <2>1. QuietStep /\ NoNewPast BY <1>5, StartFailedMoves DEF CreateFails
  <2> QED BY <1>5, <2>1, PlainCalm DEF CreateFails, rowVars, execVars
<1>6. CASE BuildFails(t)
  <2>1. QuietStep /\ NoNewPast BY <1>6, StartFailedMoves DEF BuildFails
  <2>2. UNCHANGED <<exec, lease, risk>> BY <1>6 DEF BuildFails, execVars
  <2>3. \A r \in Runs : Held(r)' => Held(r) BY <2>1, <2>2 DEF NoNewPast, Held
  <2>4. status' = [status EXCEPT ![task[t].child] = "failed"] BY <1>6 DEF BuildFails
  <2>5. \A r \in Runs : status'[r] = "failed" \/ status'[r] = status[r] BY <1>1, <2>4 DEF Types
  <2> QED BY <2>1, <2>2, <2>3, <2>5 DEF Calm
<1>7. CASE Claim(t)
  <2> DEFINE c == task[t].child
  <2>1. task[t].pc = "build" /\ c \in Runs BY <1>2, <1>7 DEF Claim, At, Proper, SpawnSteps, Rows
  <2>2. CASE status[c] # "pending"
    <3>1. StartFailed(t) /\ UNCHANGED <<status, exec, lease, risk>> BY <1>7, <2>2 DEF Claim
    <3> QED BY <3>1, StartFailedMoves, PlainCalm
  <2>3. CASE status[c] = "pending"
    <3>1. /\ status' = [status EXCEPT ![c] = "running"] /\ lease' = [lease EXCEPT ![c] = TRUE]
          /\ task' = [task EXCEPT ![t].pc = "claimed"] /\ UNCHANGED <<exec, risk>>
      BY <1>7, <2>3 DEF Claim, Goto
    <3> DEFINE v == [task[t] EXCEPT !.pc = "claimed"]
    <3>2. task' = [task EXCEPT ![t] = v] BY <1>2, <3>1
    <3>3. v.pc = "claimed" /\ v.queue = task[t].queue /\ v.child = c BY <1>2 DEF Task
    <3> HIDE DEF v, c
    <3>4. task'[t] = v /\ \A u \in Tasks \ {t} : task'[u] = task[u] BY <1>2, <3>2
    <3>5. QuietStep BY <3>3, <3>4 DEF QuietStep, Quiet, Tasks
    <3>6. \A u \in Tasks : \A r \in Runs : Past(u, r)' => Past(u, r) \/ r = c
      BY <3>3, <3>4 DEF Past
    <3>7. \A r \in Runs : Held(r)' => Held(r) \/ r = c BY <3>1, <3>6 DEF Held
    <3>8. /\ status'[c] = "running" /\ lease'[c]
          /\ \A r \in Runs \ {c} : status'[r] = status[r] /\ lease'[r] = lease[r]
      BY <1>1, <2>1, <3>1 DEF Types
    <3>9. ~Held(c) BY <2>1, <2>3 DEF SafeInv, Leased
    <3> QED BY <2>3, <3>1, <3>5, <3>7, <3>8, <3>9 DEF Calm
  <2> QED BY <2>2, <2>3
<1>8. CASE RecordClaim(t) \/ RecordReplayed(t) \/ FollowReplay(t) \/ AnnounceChild(t)
  <2>1. QuietStep /\ NoNewPast
    BY <1>8, GotoMoves DEF RecordClaim, RecordReplayed, FollowReplay, AnnounceChild, At, SpawnSteps
  <2> QED BY <1>8, <2>1, PlainCalm
          DEF RecordClaim, RecordReplayed, FollowReplay, AnnounceChild, rowVars, execVars
<1>9. CASE Start(t)
  <2> DEFINE c == task[t].child
  <2>1. QuietStep /\ NoNewPast BY <1>9, FinishMoves DEF Start
  <2>2. Past(t, c) /\ c \in Runs BY <1>2, <1>9 DEF Start, At, Past, Proper, SpawnSteps, Rows
  <2>3. \A r \in Runs \ {c} : exec'[r] = exec[r] BY <1>1, <1>9 DEF Start, Types
  <2>4. \A r \in Runs : Held(r)' => Held(r) BY <2>1, <2>2, <2>3 DEF NoNewPast, Held
  <2> QED BY <1>9, <2>1, <2>4 DEF Start, Calm, rowVars
<1> QED BY <1>3, <1>4, <1>5, <1>6, <1>7, <1>8, <1>9 DEF SpawnStep

LEMMA CallCalm ==
  ASSUME ReplayAssumption, SafeInv, NEW c \in Callers, CallStep(c)
  PROVE Calm /\ QuietStep
<1>1. Types /\ c \in Tasks /\ c \notin Workers
  BY DEF SafeInv, LineageInv, Tasks, ReplayAssumption
<1>2. task \in [Tasks -> Task] BY <1>1 DEF Types
<1>3. CASE CancelWrite(c)
  <2>1. QuietStep /\ NoNewPast BY <1>1, <1>3, FinishMoves DEF CancelWrite
  <2> DEFINE r == task[c].child
  <2>2. \A x \in Runs : exec'[x] # NoWorker => exec[x] # NoWorker
    BY <1>1, <1>3 DEF CancelWrite, Types
  <2>3. \A x \in Runs : Held(x)' => Held(x) BY <2>1, <2>2 DEF NoNewPast, Held
  <2>4. status' = [status EXCEPT ![r] = "cancelled"] /\ lease' = [lease EXCEPT ![r] = FALSE]
        /\ risk' = risk
    BY <1>3 DEF CancelWrite
  <2>5. \A x \in Runs : status'[x] = "cancelled" \/ (status'[x] = status[x] /\ lease'[x] = lease[x])
    BY <1>1, <2>4 DEF Types
  <2> QED BY <2>1, <2>3, <2>4, <2>5 DEF Calm
<1>4. CASE Request(c) \/ ReplayCheck(c) \/ CancelCheck(c) \/ DropRequest(c)
  <2>1. PICK v : /\ task' = [task EXCEPT ![c] = v]
                 /\ v.pc \in {"check", "cancel_check", "refuse", "create", "idle", "cancel"}
    <3>1. CASE task' = [task EXCEPT ![c] = NoRequest]
      <4>1. NoRequest.pc = "idle" BY DEF NoRequest, Fresh
      <4> QED BY <3>1, <4>1
    <3>2. CASE Request(c)
      <4>1. PICK r \in Rows, w \in Workers, p \in {"check", "cancel_check"} :
              task' = [task EXCEPT ![c] = [Fresh(w) EXCEPT !.pc = p, !.source = r]]
        BY <3>2 DEF Request
      <4>2. [Fresh(w) EXCEPT !.pc = p, !.source = r].pc = p BY DEF Fresh
      <4> QED BY <4>1, <4>2
    <3>3. CASE ReplayCheck(c)
      <4> DEFINE r == task[c].source
      <4>1. CASE Blocked(r)
        <5>1. PICK d : task' = [task EXCEPT ![c] = [task[c] EXCEPT !.pc = "refuse", !.verdict = d]]
          <6> DEFINE d == Decision("blocked", IF status[r] \in Active THEN NoRun ELSE Leaf(r))
          <6>1. task' = [task EXCEPT ![c] = [task[c] EXCEPT !.pc = "refuse", !.verdict = d]]
            BY <1>2, <3>3, <4>1 DEF ReplayCheck
          <6> QED BY <6>1
        <5>2. [task[c] EXCEPT !.pc = "refuse", !.verdict = d].pc = "refuse" BY <1>1, <1>2 DEF Task
        <5> QED BY <5>1, <5>2
      <4>2. CASE ~Blocked(r)
        <5>1. PICK s : task' = [task EXCEPT ![c] = [task[c] EXCEPT !.pc = "create", !.source = s]]
          <6> DEFINE s == Continuation(r)
          <6>1. task' = [task EXCEPT ![c] = [task[c] EXCEPT !.pc = "create", !.source = s]]
            BY <1>2, <3>3, <4>2 DEF ReplayCheck
          <6> QED BY <6>1
        <5>2. [task[c] EXCEPT !.pc = "create", !.source = s].pc = "create" BY <1>1, <1>2 DEF Task
        <5> QED BY <5>1, <5>2
      <4> QED BY <4>1, <4>2
    <3>4. CASE CancelCheck(c)
      <4> DEFINE r == task[c].source
                 a == IF status[Continuation(r)] \in Active THEN Continuation(r) ELSE r
      <4>1. CASE status[a] \in Ended BY <3>1, <3>4, <4>1 DEF CancelCheck
      <4>2. CASE status[a] \notin Ended
        <5>1. PICK b : task' = [task EXCEPT ![c] = [task[c] EXCEPT !.pc = "cancel", !.child = b]]
          <6>1. task' = [task EXCEPT ![c] = [task[c] EXCEPT !.pc = "cancel", !.child = a]]
            BY <1>2, <3>4, <4>2 DEF CancelCheck
          <6> QED BY <6>1
        <5>2. [task[c] EXCEPT !.pc = "cancel", !.child = b].pc = "cancel" BY <1>1, <1>2 DEF Task
        <5> QED BY <5>1, <5>2
      <4> QED BY <4>1, <4>2
    <3>5. CASE DropRequest(c) BY <3>1, <3>5 DEF DropRequest
    <3> QED BY <1>4, <3>2, <3>3, <3>4, <3>5
  <2>2. QuietStep /\ NoNewPast
    <3>1. task'[c] = v /\ \A u \in Tasks \ {c} : task'[u] = task[u] BY <1>1, <1>2, <2>1
    <3>2. QuietStep BY <1>1, <3>1 DEF QuietStep, Quiet, Tasks
    <3>3. NoNewPast BY <2>1, <3>1 DEF NoNewPast, Past, SpawnSteps
    <3> QED BY <3>2, <3>3
  <2> QED BY <1>4, <2>2, PlainCalm DEF Request, ReplayCheck, CancelCheck, DropRequest, rowVars, execVars
<1> QED BY <1>3, <1>4 DEF CallStep

LEMMA SafeStart == ASSUME ReplayAssumption, Init PROVE SafeInv
<1>1. LineageInv BY LineageStart
<1>2. \A t \in Tasks : task[t].pc = "idle" /\ task[t].queue = << >>
  BY DEF Init, Fresh, NoRequest
<1>3. \A t \in Tasks : \A r \in Runs : ~Past(t, r) BY <1>2 DEF Past, SpawnSteps
<1>4. Leased BY <1>3 DEF Leased, Held, Init
<1>5. InterruptedDead BY DEF InterruptedDead, Init
<1>6. \A w \in Workers : Listed(w, task[w]) BY <1>2 DEF Listed, Tasks
<1> QED BY <1>1, <1>4, <1>5, <1>6 DEF SafeInv

LEMMA NextCalm ==
  ASSUME ReplayAssumption, Prompt, SafeInv, Next
  PROVE Calm /\ \A w \in Workers : Quiet(w) \/ ListCandidates(w) \/ Assess(w)
BY RunCalm, SweepCalm, SpawnCalm, CallCalm DEF Next, QuietStep

LEMMA SafeKept == ASSUME ReplayAssumption, Prompt, SafeInv, [Next]_vars PROVE SafeInv'
<1>1. LineageInv' BY LineageKept DEF SafeInv
<1>2. Calm /\ \A w \in Workers : Quiet(w) \/ ListCandidates(w) \/ Assess(w)
  <2>1. CASE UNCHANGED vars
    BY <2>1, StillTasks, PlainCalm DEF vars, rowVars, execVars, QuietStep
  <2> QED BY <2>1, NextCalm
<1>3. ASSUME NEW w \in Workers PROVE Listed(w, task'[w])
  <2>1. Listed(w, task[w]) /\ task[w] \in Task BY DEF SafeInv, LineageInv, Types, Tasks
  <2>2. CASE Quiet(w) BY <2>1, <2>2 DEF Quiet, Listed
  <2>3. CASE ListCandidates(w)
    <3>1. \A r \in Rows : Candidate(r) => Dead(r)
      BY DEF Candidate, Rows, SafeInv, InterruptedDead
    <3> QED BY <2>3, <3>1, Lists DEF Listed
  <2>4. CASE Assess(w)
    <3>1. \A i \in 1..Len(task[w].queue) : Dead(task[w].queue[i]) BY <2>1 DEF Listed
    <3> QED BY <2>4, <3>1, Assesses DEF Listed
  <2> QED BY <1>2, <2>2, <2>3, <2>4
<1> QED BY <1>1, <1>2, <1>3, CalmKeeps

\* A row is added by Create alone.
LEMMA RowsAdded ==
  ASSUME ReplayAssumption, SafeInv, Next
  PROVE \/ \E t \in Tasks : Create(t)
        \/ UNCHANGED <<parent, auto>> /\ \A r \in Runs : status'[r] # status[r] =>
                                             status[r] # "none" /\ status'[r] \notin {"none", "pending"}
<1> DEFINE Stays == /\ UNCHANGED <<parent, auto>>
                    /\ \A r \in Runs : status'[r] # status[r] =>
                           status[r] # "none" /\ status'[r] \notin {"none", "pending"}
<1>1. Types BY DEF SafeInv, LineageInv
<1>2. ASSUME NEW c \in Runs, status[c] # "none", NEW s \in {"completed", "failed", "running", "cancelled"},
             status' = [status EXCEPT ![c] = s], UNCHANGED <<parent, auto>>
      PROVE Stays
  BY <1>1, <1>2 DEF Types
<1>3. CASE UNCHANGED <<status, parent, auto>> BY <1>3
<1>4. ASSUME NEW r \in Runs, RunStep(r) PROVE Stays
  BY <1>2, <1>3, <1>4 DEF RunStep, Handoff, AgentEnds, LeaseExpires, rowVars
<1>5. ASSUME NEW w \in Workers, SweepStep(w) \/ Crash(w) PROVE Stays
  <2>1. CASE Reconcile(w) BY <1>1, <2>1 DEF Reconcile, Reconcilable, Types
  <2> QED BY <1>3, <1>5, <2>1 DEF SweepStep, AnnounceReconciled, ListCandidates, Assess, SweepEnds,
                                  Crash, rowVars
<1>6. ASSUME NEW t \in Tasks, SpawnStep(t), ~Create(t) PROVE Stays
  <2>1. Proper(t, task[t]) BY DEF SafeInv, LineageInv
  <2>2. CASE BuildFails(t) \/ Claim(t)
    <3>1. task[t].child \in Runs /\ status[task[t].child] # "none"
      BY <2>1, <2>2 DEF BuildFails, Claim, At, Proper, SpawnSteps, Rows
    <3> QED BY <1>2, <1>3, <2>2, <3>1 DEF BuildFails, Claim
  <2> QED BY <1>3, <1>6, <2>2 DEF SpawnStep, Refuse, CreateFails, RecordClaim, RecordReplayed,
                                  FollowReplay, AnnounceChild, Start, rowVars
<1>7. ASSUME NEW x \in Callers, CallStep(x) PROVE Stays
  <2>1. Proper(x, task[x]) BY DEF SafeInv, LineageInv, Tasks
  <2>2. CASE CancelWrite(x)
    <3>1. task[x].child \in Runs /\ status[task[x].child] # "none"
      BY <2>1, <2>2 DEF CancelWrite, At, Proper, Rows
    <3> QED BY <1>2, <2>2, <3>1 DEF CancelWrite
  <2> QED BY <1>3, <1>7, <2>2 DEF CallStep, Request, ReplayCheck, CancelCheck, DropRequest, rowVars
<1> QED BY <1>4, <1>5, <1>6, <1>7 DEF Next

\* Under the timing assumption that a live run renews its lease in time, a sweep
\* never replays a run with an unresolved handoff, whoever else is at work.
THEOREM NeverRisky == ReplayAssumption /\ Prompt => (Spec => NoRiskyReplay)
<1> SUFFICES ASSUME ReplayAssumption, Prompt PROVE Spec => NoRiskyReplay OBVIOUS
<1> DEFINE A == \A c \in Runs : (Replays(c) /\ auto'[c]) => ~risk[parent'[c]]
<1>1. Init => SafeInv BY SafeStart
<1>2. SafeInv /\ [Next]_vars => SafeInv' BY SafeKept
<1>3. SafeInv /\ [Next]_vars => [A]_vars
  <2> SUFFICES ASSUME SafeInv, Next, NEW c \in Runs, Replays(c), auto'[c]
               PROVE ~risk[parent'[c]]
    OBVIOUS
  <2>1. PICK t \in Tasks : Create(t) BY RowsAdded DEF Replays
  <2>2. Types BY DEF SafeInv, LineageInv
  <2>3. PICK d \in Runs : /\ status' = [status EXCEPT ![d] = "pending"]
                          /\ parent' = [parent EXCEPT ![d] = task[t].source]
                          /\ auto' = [auto EXCEPT ![d] = t \in Workers]
    BY <2>1 DEF Create
  <2>4. c = d BY <2>2, <2>3 DEF Replays, Types
  <2>5. t \in Workers /\ parent'[c] = task[t].source
    BY <2>2, <2>3, <2>4 DEF Types, SafeInv, LineageInv, TreeOK, Parents
  <2> QED BY <2>1, <2>5 DEF Create, At, SafeInv, Listed
<1>4. NoRiskyReplay <=> [][A]_vars BY DEF NoRiskyReplay
<1> QED BY <1>1, <1>2, <1>3, <1>4, PTL DEF Spec

----------------------------------------------------------------------------
(* One gateway and no replay request: a run and its replays are a line, of *)
(* which only the last run executes and whose decisions lead to it.        *)

RootFn(p, f) == f = [x \in Runs |-> IF p[x] = NoRun THEN x ELSE f[p[x]]]
SourceFn(p, g) == g = [x \in Runs |-> IF p[x] = NoRun THEN {} ELSE {p[x]} \cup g[p[x]]]
Rooted(p, f) == RootFn(p, f) /\ \A e : RootFn(p, e) => e = f
Sourced(p, R, g) == /\ SourceFn(p, g) /\ \A e : SourceFn(p, e) => e = g
                    /\ \A x \in R : /\ g[x] \subseteq R
                                    /\ \A a \in g[x] : \E y \in {x} \cup g[x] : p[y] = a

LEMMA RootsGrow ==
  ASSUME ReplayAssumption, NEW p, NEW R, Parents(p, R), NEW f, Rooted(p, f),
         NEW c \in Runs \ R, NEW s \in R, NEW q, q = [p EXCEPT ![c] = s]
  PROVE Rooted(q, [f EXCEPT ![c] = f[s]])
<1> DEFINE g == [f EXCEPT ![c] = f[s]]
<1>1. /\ p[c] = NoRun /\ q[c] = s /\ s \in Runs /\ s # NoRun /\ s # c
      /\ \A x \in Runs \ {c} : q[x] = p[x] /\ q[x] # c
  BY NoRunIsNone DEF Parents
<1>2. /\ f = [x \in Runs |-> f[x]]
      /\ \A x \in Runs : f[x] = IF p[x] = NoRun THEN x ELSE f[p[x]]
  BY DEF Rooted, RootFn
<1>3. g = [x \in Runs |-> g[x]] /\ g[c] = f[s] /\ \A x \in Runs \ {c} : g[x] = f[x]
  BY <1>1, <1>2
<1> HIDE DEF g
<1>4. RootFn(q, g)
  <2>1. \A x \in Runs : g[x] = IF q[x] = NoRun THEN x ELSE g[q[x]]
    <3> SUFFICES ASSUME NEW x \in Runs PROVE g[x] = IF q[x] = NoRun THEN x ELSE g[q[x]]
      OBVIOUS
    <3>1. CASE x = c BY <1>1, <1>3, <3>1
    <3>2. CASE x # c
      <4>1. q[x] # NoRun => q[x] \in Runs \ {c} BY <1>1, <3>2 DEF Parents
      <4> QED BY <1>1, <1>2, <1>3, <3>2, <4>1
    <3> QED BY <3>1, <3>2
  <2> QED BY <1>3, <2>1 DEF RootFn
<1>5. ASSUME NEW e, RootFn(q, e) PROVE e = g
  <2>1. e = [x \in Runs |-> e[x]] /\ \A x \in Runs : e[x] = IF q[x] = NoRun THEN x ELSE e[q[x]]
    BY <1>5 DEF RootFn
  <2> DEFINE h == [x \in Runs |-> IF x = c THEN c ELSE e[x]]
  <2>2. \A x \in Runs : h[x] = IF p[x] = NoRun THEN x ELSE h[p[x]]
    <3> SUFFICES ASSUME NEW x \in Runs PROVE h[x] = IF p[x] = NoRun THEN x ELSE h[p[x]]
      OBVIOUS
    <3>1. CASE x = c BY <1>1, <3>1
    <3>2. CASE x # c
      <4>1. p[x] # NoRun => p[x] \in Runs \ {c} BY <1>1, <3>2 DEF Parents
      <4> QED BY <1>1, <2>1, <3>2, <4>1
    <3> QED BY <3>1, <3>2
  <2>3. RootFn(p, h) BY <2>2 DEF RootFn
  <2>4. h = f BY <2>3 DEF Rooted
  <2>5. \A x \in Runs \ {c} : e[x] = f[x] BY <2>4
  <2>6. e[c] = f[s] BY <1>1, <2>1, <2>5
  <2> QED BY <1>3, <2>1, <2>5, <2>6
<1> QED BY <1>4, <1>5 DEF Rooted, g

LEMMA SourcesGrow ==
  ASSUME ReplayAssumption, NEW p, NEW R, Parents(p, R), NEW g, Sourced(p, R, g),
         NEW c \in Runs \ R, NEW s \in R, NEW q, q = [p EXCEPT ![c] = s]
  PROVE Sourced(q, R \cup {c}, [g EXCEPT ![c] = {s} \cup g[s]])
<1> DEFINE f == [g EXCEPT ![c] = {s} \cup g[s]]
<1>1. /\ p[c] = NoRun /\ q[c] = s /\ s \in Runs /\ s # NoRun /\ s # c
      /\ \A x \in Runs \ {c} : q[x] = p[x] /\ q[x] # c
  BY NoRunIsNone DEF Parents
<1>2. /\ g = [x \in Runs |-> g[x]]
      /\ \A x \in Runs : g[x] = IF p[x] = NoRun THEN {} ELSE {p[x]} \cup g[p[x]]
  BY DEF Sourced, SourceFn
<1>3. f = [x \in Runs |-> f[x]] /\ f[c] = {s} \cup g[s] /\ \A x \in Runs \ {c} : f[x] = g[x]
  BY <1>1, <1>2
<1> HIDE DEF f
<1>4. SourceFn(q, f)
  <2>1. \A x \in Runs : f[x] = IF q[x] = NoRun THEN {} ELSE {q[x]} \cup f[q[x]]
    <3> SUFFICES ASSUME NEW x \in Runs PROVE f[x] = IF q[x] = NoRun THEN {} ELSE {q[x]} \cup f[q[x]]
      OBVIOUS
    <3>1. CASE x = c BY <1>1, <1>3, <3>1
    <3>2. CASE x # c
      <4>1. q[x] # NoRun => q[x] \in Runs \ {c} BY <1>1, <3>2 DEF Parents
      <4> QED BY <1>1, <1>2, <1>3, <3>2, <4>1
    <3> QED BY <3>1, <3>2
  <2> QED BY <1>3, <2>1 DEF SourceFn
<1>5. ASSUME NEW e, SourceFn(q, e) PROVE e = f
  <2>1. /\ e = [x \in Runs |-> e[x]]
        /\ \A x \in Runs : e[x] = IF q[x] = NoRun THEN {} ELSE {q[x]} \cup e[q[x]]
    BY <1>5 DEF SourceFn
  <2> DEFINE h == [x \in Runs |-> IF x = c THEN {} ELSE e[x]]
  <2>2. \A x \in Runs : h[x] = IF p[x] = NoRun THEN {} ELSE {p[x]} \cup h[p[x]]
    <3> SUFFICES ASSUME NEW x \in Runs PROVE h[x] = IF p[x] = NoRun THEN {} ELSE {p[x]} \cup h[p[x]]
      OBVIOUS
    <3>1. CASE x = c BY <1>1, <3>1
    <3>2. CASE x # c
      <4>1. p[x] # NoRun => p[x] \in Runs \ {c} BY <1>1, <3>2 DEF Parents
      <4> QED BY <1>1, <2>1, <3>2, <4>1
    <3> QED BY <3>1, <3>2
  <2>3. SourceFn(p, h) BY <2>2 DEF SourceFn
  <2>4. h = g BY <2>3 DEF Sourced
  <2>5. \A x \in Runs \ {c} : e[x] = g[x] BY <2>4
  <2>6. e[c] = {s} \cup g[s] BY <1>1, <2>1, <2>5
  <2> QED BY <1>3, <2>1, <2>5, <2>6
<1>6. ASSUME NEW x \in R \cup {c}
      PROVE /\ f[x] \subseteq R \cup {c}
            /\ \A a \in f[x] : \E y \in {x} \cup f[x] : q[y] = a
  <2>1. /\ g[s] \subseteq R /\ c \notin g[s] /\ \A a \in g[s] : \E y \in {s} \cup g[s] : p[y] = a
        /\ R \subseteq Runs
    BY DEF Sourced, Parents
  <2>2. CASE x = c BY <1>1, <1>3, <2>1, <2>2
  <2>3. CASE x \in R
    <3>1. g[x] \subseteq R /\ \A a \in g[x] : \E y \in {x} \cup g[x] : p[y] = a
      BY <2>3 DEF Sourced
    <3>2. f[x] = g[x] /\ \A y \in {x} \cup g[x] : q[y] = p[y] BY <1>1, <1>3, <2>1, <2>3, <3>1
    <3> QED BY <3>1, <3>2
  <2> QED BY <2>2, <2>3
<1> QED BY <1>4, <1>5, <1>6 DEF Sourced, f

LEMMA RootIs == ASSUME NEW f, Rooted(parent, f), NEW r \in Runs PROVE Root(r) = f[r]
<1>1. RootFn(parent, CHOOSE e : RootFn(parent, e)) BY DEF Rooted
<1>2. (CHOOSE e : RootFn(parent, e)) = f BY <1>1 DEF Rooted
<1>3. Root(r) = (CHOOSE e : RootFn(parent, e))[r] BY DEF Root, RootFn
<1> QED BY <1>2, <1>3

LEMMA SourcesAre ==
  ASSUME NEW g, Sourced(parent, Rows, g), NEW r \in Runs PROVE Sources(r) = g[r]
<1>1. SourceFn(parent, CHOOSE e : SourceFn(parent, e)) BY DEF Sourced
<1>2. (CHOOSE e : SourceFn(parent, e)) = g BY <1>1 DEF Sourced
<1>3. Sources(r) = (CHOOSE e : SourceFn(parent, e))[r] BY DEF Sources, SourceFn
<1> QED BY <1>2, <1>3

Sole == Callers = {} /\ \E w : Workers = {w}

\* Of the runs of a tree the one without a child is the deepest, and no two
\* are equally deep.
Lines == \A x, y \in Rows : Root(x) = Root(y) =>
           /\ Depth(x) = Depth(y) => x = y
           /\ Children(x) = {} => Depth(y) <= Depth(x)
Finished == \A c \in Rows : parent[c] # NoRun => Dead(parent[c])
AutosDeep == \A c \in Rows : auto[c] => parent[c] # NoRun

\* The decision of a names the run that replays it.
Led(a) == \E x \in Rows : parent[x] = a /\ decision[a] = Decision("follow_replay", x)
Followed == \A c \in Rows : exec[c] # NoWorker => \A a \in Sources(c) : Led(a)

\* What the only sweep knows, in state v.
Alone(v) ==
  /\ \A i \in 1..Len(v.queue) : Children(v.queue[i]) = {}
  /\ \A i, j \in 1..Len(v.queue) : i < j => v.queue[i] # v.queue[j]
  /\ v.pc = "create" => Children(v.source) = {} /\ \A i \in 1..Len(v.queue) : v.queue[i] # v.source
  /\ v.pc \in SpawnSteps \ {"create"} => Children(v.child) = {} /\ exec[v.child] = NoWorker
  /\ v.pc = "refuse" => \A x \in Children(v.source) : Children(x) = {} /\ exec[x] = NoWorker
  /\ v.pc = "ancestors" => Led(v.source)
  /\ v.pc = "start" => \A a \in Sources(v.child) : Led(a)

Trees == /\ \E f : Rooted(parent, f)
         /\ \E g : Sourced(parent, Rows, g)
LineInv == /\ SafeInv /\ Trees /\ Lines /\ Finished /\ AutosDeep /\ Followed
           /\ decision \in [Runs -> Decisions]
           /\ \A w \in Workers : Alone(task[w])

LEMMA LineStart == ASSUME ReplayAssumption, Init PROVE LineInv
<1>1. SafeInv BY SafeStart
<1>2. parent = [r \in Runs |-> NoRun] /\ \A r \in Runs : parent[r] = NoRun BY DEF Init
<1>3. Rooted(parent, [r \in Runs |-> r])
  <2>1. RootFn(parent, [r \in Runs |-> r]) BY <1>2 DEF RootFn
  <2>2. ASSUME NEW e, RootFn(parent, e) PROVE e = [r \in Runs |-> r]
    <3>1. e = [x \in Runs |-> IF parent[x] = NoRun THEN x ELSE e[parent[x]]] BY <2>2 DEF RootFn
    <3>2. \A x \in Runs : e[x] = x BY <1>2, <3>1
    <3> QED BY <3>1, <3>2
  <2> QED BY <2>1, <2>2 DEF Rooted
<1>4. Sourced(parent, Rows, [r \in Runs |-> {}])
  <2>1. SourceFn(parent, [r \in Runs |-> {}]) BY <1>2 DEF SourceFn
  <2>2. ASSUME NEW e, SourceFn(parent, e) PROVE e = [r \in Runs |-> {}]
    <3>1. e = [x \in Runs |-> IF parent[x] = NoRun THEN {} ELSE {parent[x]} \cup e[parent[x]]]
      BY <2>2 DEF SourceFn
    <3>2. \A x \in Runs : e[x] = {} BY <1>2, <3>1
    <3> QED BY <3>1, <3>2
  <2> QED BY <2>1, <2>2 DEF Sourced, Rows
<1>5. Rows \subseteq Runs BY DEF Rows
<1>6. Lines
  <2>1. \A r \in Runs : Root(r) = r BY <1>3, RootIs
  <2>2. \A r \in Runs : Depth(r) \in Nat
    <3>1. PICK d : Deep(parent, d) BY <1>1 DEF SafeInv, LineageInv, TreeOK
    <3> QED BY <3>1, DepthIs DEF Deep
  <2> QED BY <1>5, <2>1, <2>2 DEF Lines
<1>7. Finished /\ AutosDeep
  <2>1. \A r \in Runs : ~auto[r] BY DEF Init
  <2> QED BY <1>2, <1>5, <2>1 DEF Finished, AutosDeep
<1>8. Followed BY <1>4, <1>5, SourcesAre DEF Followed
<1>9. decision \in [Runs -> Decisions] BY DecisionIs DEF Init
<1>10. ASSUME NEW w \in Workers PROVE Alone(task[w])
  <2>1. task[w].pc = "idle" /\ task[w].queue = << >> BY DEF Init, Fresh, NoRequest, Tasks
  <2> QED BY <2>1 DEF Alone, SpawnSteps
<1> QED BY <1>1, <1>3, <1>4, <1>6, <1>7, <1>8, <1>9, <1>10 DEF LineInv, Trees

\* Two runs with one parent are one run.
LEMMA OnlyChild ==
  ASSUME ReplayAssumption, LineInv, NEW a \in Rows, NEW x \in Children(a), NEW y \in Children(a)
  PROVE x = y
<1>1. x \in Rows /\ y \in Rows /\ parent[x] = a /\ parent[y] = a /\ Rows \subseteq Runs /\ a # NoRun
  BY NoRunIsNone DEF Children, Rows
<1>2. PICK f : Rooted(parent, f) BY DEF LineInv, Trees
<1>3. Root(x) = Root(y)
  <2>1. f[x] = f[a] /\ f[y] = f[a] BY <1>1, <1>2 DEF Rooted, RootFn
  <2> QED BY <1>1, <1>2, <2>1, RootIs
<1>4. PICK d : Deep(parent, d) BY DEF LineInv, SafeInv, LineageInv, TreeOK
<1>5. Depth(x) = Depth(y)
  <2>1. d[x] = 1 + d[a] /\ d[y] = 1 + d[a] BY <1>1, <1>4 DEF Deep, DepthFn
  <2> QED BY <1>1, <1>4, <2>1, DepthIs
<1> QED BY <1>1, <1>3, <1>5 DEF LineInv, Lines

\* What the sources of a run are: rows, each with a replay on the way to the run.
LEMMA OnTheWay ==
  ASSUME LineInv, NEW c \in Rows, NEW a \in Sources(c)
  PROVE /\ Sources(c) \subseteq Rows /\ a \in Rows
        /\ \E y \in {c} \cup Sources(c) : y \in Children(a)
<1>1. PICK g : Sourced(parent, Rows, g) BY DEF LineInv, Trees
<1>2. c \in Runs /\ Sources(c) = g[c] BY <1>1, SourcesAre DEF Rows
<1>3. g[c] \subseteq Rows /\ \E y \in {c} \cup g[c] : parent[y] = a BY <1>1, <1>2 DEF Sourced
<1> QED BY <1>2, <1>3 DEF Children

\* What Announce writes of a run names its replay.
LEMMA Announces ==
  ASSUME ReplayAssumption, LineInv, NEW r \in Rows
  PROVE /\ Announce(r) \in [Runs -> Decisions]
        /\ \A a \in Runs : \/ Announce(r)[a] = decision[a] /\ a \notin Sources(r) \ {parent[r]}
                           \/ \E x \in Rows : parent[x] = a /\ Announce(r)[a] = Decision("follow_replay", x)
<1>1. \A a \in Runs : Announce(r)[a] = IF a \in Sources(r) \ {parent[r]}
                                       THEN Decision("follow_replay", Via(r, a)) ELSE decision[a]
  BY DEF Announce
<1>2. ASSUME NEW a \in Sources(r) PROVE Via(r, a) \in Rows /\ parent[Via(r, a)] = a
  <2>1. Sources(r) \subseteq Rows /\ \E y \in {r} \cup Sources(r) : parent[y] = a
    BY OnTheWay DEF Children
  <2> QED BY <2>1 DEF Via
<1>3. ASSUME NEW a \in Runs PROVE Announce(r)[a] \in Decisions
  <2>1. decision[a] \in Decisions BY DEF LineInv
  <2>2. \A x \in Rows : Decision("follow_replay", x) \in Decisions BY DecisionIs DEF Rows
  <2> QED BY <1>1, <1>2, <2>1, <2>2
<1>4. Announce(r) \in [Runs -> Decisions] BY <1>3 DEF Announce
<1> QED BY <1>1, <1>2, <1>4

\* A run whose decision named its replay is still led.
LedKept == \A a \in Runs : Led(a) => Led(a)'
FewerExec == \A r \in Runs : exec'[r] # NoWorker => exec[r] # NoWorker
SameTree == Rows' = Rows /\ UNCHANGED <<parent, auto>>

LEMMA Kept ==
  ASSUME SameTree, decision' = decision PROVE LedKept
BY DEF SameTree, LedKept, Led

LEMMA AnnounceKept ==
  ASSUME ReplayAssumption, LineInv, SameTree, NEW r \in Rows, decision' = Announce(r)
  PROVE LedKept /\ decision' \in [Runs -> Decisions]
        /\ \A a \in Sources(r) \ {parent[r]} : Led(a)'
<1>1. ASSUME NEW a \in Runs, Led(a) PROVE Led(a)'
  <2>1. \/ Announce(r)[a] = decision[a]
        \/ \E x \in Rows : parent[x] = a /\ Announce(r)[a] = Decision("follow_replay", x)
    BY Announces
  <2> QED BY <1>1, <2>1 DEF Led, SameTree
<1>2. ASSUME NEW a \in Sources(r) \ {parent[r]} PROVE Led(a)'
  <2>1. a \in Runs BY OnTheWay DEF Rows
  <2>2. \E x \in Rows : parent[x] = a /\ Announce(r)[a] = Decision("follow_replay", x)
    BY <2>1, Announces
  <2> QED BY <2>2 DEF Led, SameTree
<1> QED BY <1>1, <1>2, Announces DEF LedKept

\* Where no row is added the lines stay, and so does what is known of a task.
LEMMA LinesStay ==
  ASSUME ReplayAssumption, LineInv, SameTree, Calm, SafeInv', LedKept
  PROVE /\ Trees' /\ Lines' /\ Finished' /\ AutosDeep'
        /\ \A r \in Runs : Sources(r)' = Sources(r) /\ Children(r)' = Children(r)
        /\ FewerExec => Followed'
        /\ FewerExec => \A w \in Workers : \A v \in Task : Proper(w, v) /\ Alone(v) => Alone(v)'
<1>1. /\ \A r \in Runs : Sources(r)' = Sources(r) /\ Children(r)' = Children(r)
      /\ \A r \in Runs : Root(r)' = Root(r) /\ Depth(r)' = Depth(r)
  BY DEF SameTree, Sources, Children, Root, Depth
<1>2. Trees' BY DEF LineInv, Trees, SameTree
<1>3. Rows \subseteq Runs /\ Rows' = Rows BY DEF SameTree, Rows
<1>4. Lines' BY <1>1, <1>3 DEF LineInv, Lines
<1>5. AutosDeep' BY <1>3 DEF LineInv, AutosDeep, SameTree
<1>6. Finished'
  <2>1. ASSUME NEW c \in Rows, parent[c] # NoRun PROVE Dead(parent[c])'
    <3>1. PICK r : r = parent[c] OBVIOUS
    <3>2. r \in Runs BY <1>3, <2>1, <3>1 DEF LineInv, SafeInv, LineageInv, TreeOK, Parents
    <3>3. Dead(r) BY <2>1, <3>1 DEF LineInv, Finished
    <3>4. Dead(r)' BY <3>2, <3>3 DEF Dead, Calm
    <3>5. parent' = parent BY DEF SameTree
    <3> QED BY <3>1, <3>4, <3>5
  <2> QED BY <1>3, <2>1 DEF Finished, SameTree
<1>7. ASSUME FewerExec PROVE Followed'
  <2>1. ASSUME NEW c \in Rows, exec'[c] # NoWorker, NEW a \in Sources(c) PROVE Led(a)'
    <3>1. exec[c] # NoWorker BY <1>3, <1>7, <2>1 DEF FewerExec
    <3>2. Led(a) /\ a \in Runs BY <1>3, <2>1, <3>1, OnTheWay DEF LineInv, Followed
    <3> QED BY <3>2 DEF LedKept
  <2> QED BY <1>1, <1>3, <2>1 DEF Followed
<1>8. ASSUME FewerExec, NEW w \in Workers, NEW v \in Task, Proper(w, v), Alone(v) PROVE Alone(v)'
  <2>1. \A i \in 1..Len(v.queue) : v.queue[i] \in Runs BY DEF Task
  <2>2. v.pc \in {"create", "refuse"} \cup SpawnSteps => v.source \in Runs
    BY <1>8, <1>3 DEF Proper
  <2>3. v.pc \in SpawnSteps \ {"create"} => v.child \in Rows BY <1>8 DEF Proper
  <2>4. v.pc = "create" => Children(v.source)' = {} BY <1>1, <1>8, <2>2 DEF Alone
  <2>5. v.pc \in SpawnSteps \ {"create"} => Children(v.child)' = {} /\ exec'[v.child] = NoWorker
    BY <1>1, <1>3, <1>8, <2>3 DEF Alone, FewerExec
  <2>6. v.pc = "refuse" => \A x \in Children(v.source)' : Children(x)' = {} /\ exec'[x] = NoWorker
    <3>1. \A x \in Children(v.source) : x \in Runs BY DEF Children, Rows
    <3> QED BY <1>1, <1>8, <2>2, <3>1 DEF Alone, FewerExec
  <2>7. v.pc = "ancestors" => Led(v.source)' BY <1>8, <2>2 DEF Alone, LedKept, SpawnSteps
  <2>8. v.pc = "start" => \A a \in Sources(v.child)' : Led(a)'
    <3>1. ASSUME v.pc = "start", NEW a \in Sources(v.child) PROVE Led(a)'
      <4>1. a \in Runs BY <1>3, <2>3, <3>1, OnTheWay DEF SpawnSteps
      <4> QED BY <1>8, <3>1, <4>1 DEF Alone, LedKept
    <3> QED BY <1>1, <1>3, <2>3, <3>1 DEF SpawnSteps
  <2>9. \A i \in 1..Len(v.queue) : Children(v.queue[i])' = {} BY <1>1, <1>8, <2>1 DEF Alone
  <2> QED BY <1>8, <2>4, <2>5, <2>6, <2>7, <2>8, <2>9 DEF Alone
<1> QED BY <1>1, <1>2, <1>4, <1>5, <1>6, <1>7, <1>8

LEMMA PlainAlone ==
  ASSUME LineInv, NEW w \in Workers, NEW v, v.queue = task[w].queue \/ v.queue = << >>,
         v.pc \notin {"create", "refuse", "ancestors", "start"},
         v.pc \in SpawnSteps => v.child = task[w].child /\ task[w].pc \in SpawnSteps \ {"create"}
  PROVE Alone(v)
<1>1. Alone(task[w]) BY DEF LineInv
<1>2. /\ \A i \in 1..Len(v.queue) : Children(v.queue[i]) = {}
      /\ \A i, j \in 1..Len(v.queue) : i < j => v.queue[i] # v.queue[j]
  <2>1. CASE v.queue = task[w].queue BY <1>1, <2>1 DEF Alone
  <2>2. CASE v.queue = << >> BY <2>2
  <2> QED BY <2>1, <2>2
<1>3. v.pc \in SpawnSteps \ {"create"} => Children(v.child) = {} /\ exec[v.child] = NoWorker
  BY <1>1 DEF Alone
<1> QED BY <1>2, <1>3 DEF Alone

LEMMA KeepsLine ==
  ASSUME ReplayAssumption, Prompt, LineInv, Next, SameTree, LedKept, FewerExec,
         decision' \in [Runs -> Decisions], TasksStay, \A w \in Workers : Alone(task'[w])
  PROVE LineInv'
<1>1. Calm /\ SafeInv' BY NextCalm, SafeKept DEF LineInv
<1>2. Trees' /\ Lines' /\ Finished' /\ AutosDeep' /\ Followed' BY <1>1, LinesStay
<1>3. ASSUME NEW w \in Workers PROVE Alone(task[w])'
  <2>1. PICK v : v = task'[w] OBVIOUS
  <2>2. v \in Task /\ Proper(w, v) /\ Alone(v) BY <2>1 DEF TasksStay, Tasks
  <2>3. Alone(v)' BY <1>1, <2>2, LinesStay
  <2> QED BY <2>1, <2>3
<1> QED BY <1>1, <1>2, <1>3 DEF LineInv

LEMMA SameTreeIs ==
  ASSUME ReplayAssumption, LineInv, Next, \A t \in Tasks : ~Create(t)
  PROVE SameTree
BY RowsAdded DEF LineInv, SameTree, Rows

LEMMA RunLine ==
  ASSUME ReplayAssumption, Prompt, LineInv, NEW r \in Runs, RunStep(r)
  PROVE LineInv'
<1>1. UNCHANGED task /\ Next BY DEF RunStep, Handoff, AgentEnds, LeaseExpires, Next
<1>2. TasksStay /\ \A w \in Workers : Alone(task'[w]) BY <1>1, SameTask DEF LineInv, SafeInv
<1>3. SameTree
  <2>1. \A t \in Tasks : ~Create(t)
    <3>1. Types BY DEF LineInv, SafeInv, LineageInv
    <3>2. ASSUME NEW t \in Tasks, Create(t) PROVE FALSE
      <4>1. task[t].pc = "create" BY <3>2 DEF Create, At
      <4>2. PICK c : task' = [task EXCEPT ![t].pc = "build", ![t].child = c] BY <3>2 DEF Create
      <4>3. task'[t].pc = "build" BY <3>1, <4>2 DEF Types, Task
      <4> QED BY <1>1, <4>1, <4>3
    <3> QED BY <3>2
  <2> QED BY <1>1, <2>1, SameTreeIs
<1>4. FewerExec
  <2>1. Types BY DEF LineInv, SafeInv, LineageInv
  <2> QED BY <2>1 DEF FewerExec, RunStep, Handoff, AgentEnds, LeaseExpires, Types
<1>5. LedKept /\ decision' \in [Runs -> Decisions]
  <2>1. CASE decision' = decision BY <1>3, <2>1, Kept DEF LineInv
  <2>2. CASE status[r] = "running" /\ decision' = Announce(r)
    <3>1. r \in Rows BY <2>2 DEF Rows
    <3> QED BY <1>3, <2>2, <3>1, AnnounceKept
  <2> QED BY <2>1, <2>2 DEF RunStep, Handoff, AgentEnds, LeaseExpires, eventVars
<1> QED BY <1>1, <1>2, <1>3, <1>4, <1>5, KeepsLine

\* A step of the sweep of w is no Create.
LEMMA NoCreate ==
  ASSUME LineInv, Sole, NEW w \in Workers, task[w].pc # "create" PROVE \A t \in Tasks : ~Create(t)
BY DEF Sole, Tasks, Create, At

LEMMA SweepLine ==
  ASSUME ReplayAssumption, Prompt, Sole, LineInv, NEW w \in Workers, SweepStep(w) \/ Crash(w)
  PROVE LineInv'
<1>1. w \in Tasks /\ Workers = {w} /\ Tasks = {w} /\ Next /\ SafeInv /\ LineageInv
  BY DEF Tasks, Sole, Next, LineInv, SafeInv
<1>2. Types /\ TasksStay
  BY <1>1, SweepTasks, CrashTasks DEF SweepStep, LineageInv
<1>3. task[w] \in Task /\ task \in [Tasks -> Task] /\ Alone(task[w]) /\ Proper(w, task[w])
  BY <1>1, <1>2 DEF Types, LineInv, LineageInv
<1>4. FewerExec /\ SameTree
  <2>1. FewerExec
    BY DEF SweepStep, Reconcile, AnnounceReconciled, ListCandidates, Assess, SweepEnds, Crash,
           execVars, FewerExec
  <2>2. UNCHANGED <<parent, auto>>
    BY DEF SweepStep, Reconcile, AnnounceReconciled, ListCandidates, Assess, SweepEnds, Crash,
           rowVars
  <2>3. Rows' = Rows
    <3>1. CASE UNCHANGED status BY <3>1 DEF Rows
    <3>2. CASE Reconcile(w) BY <1>2, <3>2 DEF Reconcile, Reconcilable, Types, Rows
    <3> QED BY <3>1, <3>2 DEF SweepStep, AnnounceReconciled, ListCandidates, Assess, SweepEnds,
                             Crash, rowVars
  <2> QED BY <2>1, <2>2, <2>3 DEF SameTree
<1>5. LedKept /\ decision' \in [Runs -> Decisions]
  <2>1. CASE decision' = decision BY <1>4, <2>1, Kept DEF LineInv
  <2>2. CASE \E r \in task[w].todo : decision' = Announce(r)
    <3>1. task[w].todo \subseteq Rows BY <1>3 DEF Proper
    <3> QED BY <1>4, <2>2, <3>1, AnnounceKept
  <2> QED BY <2>1, <2>2 DEF SweepStep, Reconcile, AnnounceReconciled, ListCandidates, Assess,
                           SweepEnds, Crash, eventVars
<1>6. Alone(task'[w])
  <2>1. CASE Reconcile(w)
    <3>1. PICK lost : task' = [task EXCEPT ![w].pc = "announce", ![w].todo = lost]
      BY <2>1 DEF Reconcile
    <3>2. task'[w].pc = "announce" /\ task'[w].queue = task[w].queue BY <1>1, <1>3, <3>1 DEF Task
    <3> QED BY <3>2, PlainAlone DEF SpawnSteps
  <2>2. CASE AnnounceReconciled(w)
    <3>1. task'[w].pc \in {"announce", "list"} /\ task'[w].queue = task[w].queue
      <4>1. CASE Goto(w, "list") BY <1>1, <1>3, <4>1 DEF Goto, Task
      <4>2. CASE \E r \in task[w].todo : task' = [task EXCEPT ![w].todo = @ \ {r}]
        BY <1>1, <1>3, <2>2, <4>2 DEF Task, AnnounceReconciled, At
      <4> QED BY <2>2, <4>1, <4>2 DEF AnnounceReconciled
    <3> QED BY <3>1, PlainAlone DEF SpawnSteps
  <2>3. CASE ListCandidates(w)
    <3>1. PICK v : v = task'[w] OBVIOUS
    <3>2. v.pc = "assess" /\ \A i \in 1..Len(v.queue) : Children(v.queue[i]) = {}
      BY <1>1, <2>3, <3>1, Lists DEF Candidate
    <3>3. \A i, j \in 1..Len(v.queue) : i < j => v.queue[i] # v.queue[j]
      BY <1>1, <2>3, <3>1, Lists
    <3> QED BY <3>1, <3>2, <3>3 DEF Alone, SpawnSteps
  <2>4. CASE Assess(w)
    <3>1. PICK v, Q, s : v = task'[w] /\ Q = task[w].queue /\ s = Q[1] OBVIOUS
    <3>2. /\ Len(Q) \in Nat \ {0} /\ v.pc \in {"create", "refuse"} /\ v.source = s
          /\ Len(v.queue) = Len(Q) - 1 /\ \A i \in 1..Len(v.queue) : v.queue[i] = Q[i + 1]
      BY <1>1, <2>4, <3>1, Assesses
    <3>3. /\ \A i \in 1..Len(Q) : Children(Q[i]) = {}
          /\ \A i, j \in 1..Len(Q) : i < j => Q[i] # Q[j]
      BY <1>3, <3>1 DEF Alone
    <3>4. 1 \in 1..Len(Q) /\ Children(s) = {}
      <4>1. 1 \in 1..Len(Q) BY <3>2
      <4>2. Children(Q[1]) = {} BY <3>3, <4>1
      <4>3. s = Q[1] BY <3>1
      <4> QED BY <4>1, <4>2, <4>3
    <3>5. \A i \in 1..Len(v.queue) : i + 1 \in 1..Len(Q) /\ 1 < i + 1 BY <3>2
    <3>6. \A i \in 1..Len(v.queue) : Children(v.queue[i]) = {} /\ v.queue[i] # s
      <4> SUFFICES ASSUME NEW i \in 1..Len(v.queue)
                   PROVE Children(v.queue[i]) = {} /\ v.queue[i] # s
        OBVIOUS
      <4>1. v.queue[i] = Q[i + 1] /\ i + 1 \in 1..Len(Q) /\ 1 < i + 1 BY <3>2, <3>5
      <4>2. Children(Q[i + 1]) = {} /\ Q[1] # Q[i + 1] BY <3>3, <3>4, <4>1
      <4> QED BY <3>1, <4>1, <4>2
    <3>7. \A i, j \in 1..Len(v.queue) : i < j => v.queue[i] # v.queue[j]
      <4>1. ASSUME NEW i \in 1..Len(v.queue), NEW j \in 1..Len(v.queue), i < j
            PROVE v.queue[i] # v.queue[j]
        <5>1. i + 1 \in 1..Len(Q) /\ j + 1 \in 1..Len(Q) /\ i + 1 < j + 1 BY <3>2, <4>1
        <5>2. Q[i + 1] # Q[j + 1] BY <3>3, <5>1
        <5> QED BY <3>2, <5>2
      <4> QED BY <4>1
    <3>8. Alone(v) BY <3>2, <3>4, <3>6, <3>7 DEF Alone, SpawnSteps
    <3> QED BY <3>1, <3>8
  <2>5. CASE SweepEnds(w) \/ Crash(w)
    <3>1. task'[w].pc = "idle" /\ task'[w].queue = << >>
      BY <1>1, <1>3, <2>5 DEF SweepEnds, Crash, Fresh
    <3> QED BY <3>1, PlainAlone DEF SpawnSteps
  <2> QED BY <2>1, <2>2, <2>3, <2>4, <2>5 DEF SweepStep
<1> QED BY <1>1, <1>2, <1>4, <1>5, <1>6, KeepsLine

\* The child that could not be started stays without a replay of its own.
LEMMA StartFailedAlone ==
  ASSUME ReplayAssumption, LineInv, NEW w \in Workers, StartFailed(w),
         task[w].pc \in {"create", "build"}
  PROVE Alone(task'[w])
<1>1. w \in Tasks /\ task[w] \in Task /\ task \in [Tasks -> Task] /\ Alone(task[w])
      /\ Proper(w, task[w])
  BY DEF Tasks, LineInv, SafeInv, LineageInv, Types
<1>2. task' = [task EXCEPT ![w] = [task[w] EXCEPT !.pc = "refuse", !.child = NoRun,
                                                  !.verdict = Decision("failed", NoRun)]]
  BY <1>1 DEF StartFailed
<1>3. /\ task'[w].pc = "refuse" /\ task'[w].queue = task[w].queue
      /\ task'[w].source = task[w].source
  BY <1>1, <1>2 DEF Task
<1>4. ASSUME NEW x \in Children(task[w].source) PROVE Children(x) = {} /\ exec[x] = NoWorker
  <2>1. CASE task[w].pc = "create" BY <1>1, <1>4, <2>1 DEF Alone
  <2>2. CASE task[w].pc = "build"
    <3> DEFINE c == task[w].child
    <3>1. c \in Children(task[w].source) /\ task[w].source \in Rows
      BY <1>1, <2>2 DEF Proper, SpawnSteps, Children
    <3>2. x = c BY <1>4, <3>1, OnlyChild
    <3> QED BY <1>1, <2>2, <3>2 DEF Alone, SpawnSteps
  <2> QED BY <2>1, <2>2
<1> QED BY <1>1, <1>3, <1>4 DEF Alone, SpawnSteps

\* The task of the only sweep, and what is known of it.
LEMMA TheTask ==
  ASSUME ReplayAssumption, LineInv, Sole, NEW w \in Tasks
  PROVE /\ w \in Workers /\ Workers = {w} /\ Tasks = {w}
        /\ task[w] \in Task /\ task \in [Tasks -> Task] /\ Alone(task[w]) /\ Proper(w, task[w])
        /\ Types /\ SafeInv /\ LineageInv
BY DEF Sole, Tasks, LineInv, SafeInv, LineageInv, Types

LEMMA TheQueue ==
  ASSUME ReplayAssumption, LineInv, NEW w \in Workers, NEW Q, Q = task[w].queue
  PROVE /\ \A i \in 1..Len(Q) : Q[i] \in Runs /\ Children(Q[i]) = {}
        /\ \A i, j \in 1..Len(Q) : i < j => Q[i] # Q[j]
<1>1. task[w] \in Task BY DEF Tasks, LineInv, SafeInv, LineageInv, Types
<1>2. \A i \in 1..Len(Q) : Q[i] \in Runs BY <1>1 DEF Task
<1>3. Alone(task[w]) BY DEF LineInv
<1>4. /\ \A i \in 1..Len(Q) : Children(Q[i]) = {}
      /\ \A i, j \in 1..Len(Q) : i < j => Q[i] # Q[j]
  BY <1>3 DEF Alone
<1> QED BY <1>2, <1>4

LEMMA SpawnLine ==
  ASSUME ReplayAssumption, Prompt, Sole, LineInv, NEW w \in Tasks,
         CreateFails(w) \/ BuildFails(w) \/ Claim(w) \/ RecordClaim(w) \/ RecordReplayed(w)
  PROVE LineInv'
<1>1. /\ w \in Workers /\ Workers = {w} /\ Tasks = {w}
      /\ task[w] \in Task /\ task \in [Tasks -> Task] /\ Alone(task[w]) /\ Proper(w, task[w])
      /\ Types /\ SafeInv /\ LineageInv
  BY TheTask
<1>2. Next /\ TasksStay
  <2>1. SpawnStep(w) BY DEF SpawnStep
  <2> QED BY <1>1, <2>1, SpawnTasks DEF Next
<1>3. SameTree
  <2>1. UNCHANGED <<parent, auto>>
    BY DEF CreateFails, BuildFails, Claim, RecordClaim, RecordReplayed, rowVars
  <2>2. Rows' = Rows
    <3>1. CASE UNCHANGED status BY <3>1 DEF Rows
    <3>2. ASSUME NEW s \in {"failed", "running"}, status' = [status EXCEPT ![task[w].child] = s],
                 task[w].pc = "build"
          PROVE Rows' = Rows
      <4>1. task[w].child \in Rows BY <1>1, <3>2 DEF Proper, SpawnSteps
      <4> QED BY <1>1, <3>2, <4>1 DEF Rows, Types
    <3> QED BY <3>1, <3>2 DEF CreateFails, BuildFails, Claim, RecordClaim, RecordReplayed, rowVars, At
  <2> QED BY <2>1, <2>2 DEF SameTree
<1>4. FewerExec /\ decision' = decision
  BY DEF FewerExec, CreateFails, BuildFails, Claim, RecordClaim, RecordReplayed, execVars, eventVars
<1>5. Alone(task'[w])
  <2>1. CASE StartFailed(w) /\ task[w].pc \in {"create", "build"} BY <1>1, <2>1, StartFailedAlone
  <2>2. ASSUME NEW p \in {"claimed", "record", "follow"}, Goto(w, p),
               task[w].pc \in SpawnSteps \ {"create"}
        PROVE Alone(task'[w])
    <3>1. /\ task'[w].pc = p /\ task'[w].queue = task[w].queue /\ task'[w].child = task[w].child
      BY <1>1, <2>2 DEF Goto, Task
    <3> QED BY <1>1, <2>2, <3>1, PlainAlone
  <2> QED BY <2>1, <2>2 DEF CreateFails, BuildFails, Claim, RecordClaim, RecordReplayed, At, SpawnSteps
<1> QED BY <1>1, <1>2, <1>3, <1>4, <1>5, KeepsLine, Kept DEF LineInv

\* The decisions of the source and then of its sources lead to the child.
LEMMA FollowLine ==
  ASSUME ReplayAssumption, Prompt, Sole, LineInv, NEW w \in Tasks,
         FollowReplay(w) \/ AnnounceChild(w)
  PROVE LineInv'
<1>1. /\ w \in Workers /\ Workers = {w} /\ Tasks = {w}
      /\ task[w] \in Task /\ task \in [Tasks -> Task] /\ Alone(task[w]) /\ Proper(w, task[w])
      /\ Types /\ SafeInv /\ LineageInv
  BY TheTask
<1>0. PICK c, s : c = task[w].child /\ s = task[w].source OBVIOUS
<1>2. Next /\ Calm /\ SafeInv'
  <2>1. Next BY DEF SpawnStep, Next
  <2> QED BY <1>1, <2>1, NextCalm, SafeKept
<1>3. SameTree /\ FewerExec
  BY DEF SameTree, FewerExec, FollowReplay, AnnounceChild, rowVars, execVars, Rows
<1>4. c \in Rows /\ parent[c] = s /\ s \in Rows /\ s \in Runs
  BY <1>0, <1>1 DEF FollowReplay, AnnounceChild, At, Proper, SpawnSteps, Rows
<1>5. PICK v : v = task'[w] OBVIOUS
<1>6. /\ v.queue = task[w].queue /\ v.child = c /\ v.source = s
      /\ v.pc = (IF FollowReplay(w) THEN "ancestors" ELSE "start")
      /\ task[w].pc = (IF FollowReplay(w) THEN "follow" ELSE "ancestors")
  BY <1>0, <1>1, <1>5 DEF FollowReplay, AnnounceChild, Goto, At, Task
<1>7. /\ LedKept /\ decision' \in [Runs -> Decisions]
      /\ IF FollowReplay(w) THEN Led(s)' ELSE \A a \in Sources(c) : Led(a)'
  <2>1. CASE FollowReplay(w)
    <3>1. decision' = [decision EXCEPT ![s] = Decision("follow_replay", c)] BY <1>0, <2>1 DEF FollowReplay
    <3>2. Decision("follow_replay", c) \in Decisions BY <1>4, DecisionIs DEF Rows
    <3>3. Led(s)' BY <1>3, <1>4, <3>1 DEF Led, SameTree, LineInv
    <3>4. \A a \in Runs \ {s} : decision'[a] = decision[a] BY <3>1 DEF LineInv
    <3>5. LedKept BY <1>3, <3>3, <3>4 DEF LedKept, Led, SameTree
    <3> QED BY <1>4, <2>1, <3>1, <3>2, <3>3, <3>5 DEF LineInv
  <2>2. CASE ~FollowReplay(w)
    <3>1. decision' = Announce(c) BY <1>0, <2>2 DEF AnnounceChild
    <3>2. LedKept /\ decision' \in [Runs -> Decisions] /\ \A a \in Sources(c) \ {s} : Led(a)'
      BY <1>3, <1>4, <3>1, AnnounceKept
    <3>3. Led(s)' BY <1>0, <1>1, <1>4, <1>6, <2>2, <3>2 DEF Alone, LedKept
    <3> QED BY <2>2, <3>2, <3>3
  <2> QED BY <2>1, <2>2
<1>8. /\ Trees' /\ Lines' /\ Finished' /\ AutosDeep' /\ Followed'
      /\ \A r \in Runs : Sources(r)' = Sources(r) /\ Children(r)' = Children(r)
  BY <1>2, <1>3, <1>7, LinesStay
<1>9. Alone(v)'
  <2>1. /\ \A i \in 1..Len(v.queue) : v.queue[i] \in Runs /\ Children(v.queue[i]) = {}
        /\ \A i, j \in 1..Len(v.queue) : i < j => v.queue[i] # v.queue[j]
    BY <1>1, <1>6, TheQueue
  <2>2. Children(c) = {} /\ exec[c] = NoWorker BY <1>0, <1>1, <1>6 DEF Alone, SpawnSteps
  <2>3. Children(c)' = {} /\ exec'[c] = NoWorker /\ Sources(c)' = Sources(c)
    BY <1>3, <1>4, <1>8, <2>2 DEF FewerExec, Rows
  <2>4. \A i \in 1..Len(v.queue) : Children(v.queue[i])' = {} BY <1>8, <2>1
  <2>5. v.pc = "ancestors" => Led(v.source)' BY <1>6, <1>7
  <2>6. v.pc = "start" => \A a \in Sources(v.child)' : Led(a)' BY <1>6, <1>7, <2>3
  <2> QED BY <1>6, <2>1, <2>3, <2>4, <2>5, <2>6 DEF Alone, SpawnSteps
<1> QED BY <1>1, <1>2, <1>5, <1>7, <1>8, <1>9 DEF LineInv

\* A run that executes is no replay of a run that the sweep refuses.
LEMMA RefuseLine ==
  ASSUME ReplayAssumption, Prompt, Sole, LineInv, NEW w \in Tasks, Refuse(w)
  PROVE LineInv'
<1>1. /\ w \in Workers /\ Workers = {w} /\ Tasks = {w}
      /\ task[w] \in Task /\ task \in [Tasks -> Task] /\ Alone(task[w]) /\ Proper(w, task[w])
      /\ Types /\ SafeInv /\ LineageInv
  BY TheTask
<1> DEFINE s == task[w].source
<1>2. Next /\ SafeInv'
  <2>1. Next BY DEF SpawnStep, Next
  <2> QED BY <1>1, <2>1, SafeKept
<1>3. UNCHANGED <<status, parent, auto, exec>> BY DEF Refuse, rowVars, execVars
<1>4. Rows' = Rows /\ (\A r \in Runs : /\ Root(r)' = Root(r) /\ Depth(r)' = Depth(r)
                                      /\ Sources(r)' = Sources(r) /\ Children(r)' = Children(r))
  BY <1>3 DEF Rows, Root, Depth, Sources, Children
<1>5. Rows \subseteq Runs BY DEF Rows
<1>6. s \in Rows /\ \A x \in Children(s) : Children(x) = {} /\ exec[x] = NoWorker
  BY <1>1 DEF Refuse, At, Proper, Alone
<1>7. decision' = [decision EXCEPT ![s] = task[w].verdict] /\ decision' \in [Runs -> Decisions]
  BY <1>1 DEF Refuse, LineInv, Task
<1>8. \A a \in Runs \ {s} : Led(a) => Led(a)'
  BY <1>3, <1>4, <1>7 DEF Led, LineInv
<1>9. Followed'
  <2> SUFFICES ASSUME NEW c \in Rows, exec[c] # NoWorker, NEW a \in Sources(c) PROVE Led(a)'
    BY <1>3, <1>4, <1>5 DEF Followed
  <2>1. /\ Sources(c) \subseteq Rows /\ a \in Rows
        /\ \E y \in {c} \cup Sources(c) : y \in Children(a)
    BY OnTheWay
  <2>2. a # s
    <3> SUFFICES ASSUME a = s PROVE FALSE OBVIOUS
    <3>1. PICK y \in {c} \cup Sources(c) : y \in Children(s) BY <2>1
    <3>2. Children(y) = {} /\ exec[y] = NoWorker BY <1>6, <3>1
    <3>3. y \in Sources(c) BY <3>1, <3>2
    <3> QED BY <3>2, <3>3, OnTheWay
  <2> QED BY <1>5, <1>8, <2>1, <2>2 DEF LineInv, Followed
<1>10. Trees' BY <1>3, <1>4 DEF LineInv, Trees
<1>11. Lines' /\ AutosDeep'
  BY <1>3, <1>4, <1>5 DEF LineInv, Lines, AutosDeep
<1>12. Finished'
  <2>1. Calm BY <1>1, <1>2, NextCalm
  <2>2. ASSUME NEW c \in Rows, parent[c] # NoRun, NEW r, r = parent[c] PROVE Dead(r)'
    <3>1. r \in Runs /\ Dead(r)
      BY <1>1, <1>5, <2>2 DEF LineInv, Finished, LineageInv, TreeOK, Parents
    <3> QED BY <2>1, <3>1 DEF Dead, Calm
  <2> QED BY <1>3, <1>4, <2>2 DEF Finished
<1>13. Alone(task[w])'
  <2>1. PICK v : v = task'[w] OBVIOUS
  <2>2. v.pc = "assess" /\ v.queue = task[w].queue
    BY <1>1, <2>1 DEF Refuse, Finish, Done, Task
  <2>3. /\ \A i \in 1..Len(v.queue) : v.queue[i] \in Runs /\ Children(v.queue[i]) = {}
        /\ \A i, j \in 1..Len(v.queue) : i < j => v.queue[i] # v.queue[j]
    BY <1>1, <2>2, TheQueue
  <2>4. \A i \in 1..Len(v.queue) : Children(v.queue[i])' = {} BY <1>4, <2>3
  <2>5. Alone(v)' BY <2>2, <2>3, <2>4 DEF Alone, SpawnSteps
  <2> QED BY <2>1, <2>5
<1> QED BY <1>1, <1>2, <1>7, <1>9, <1>10, <1>11, <1>12, <1>13 DEF LineInv

LEMMA StartLine ==
  ASSUME ReplayAssumption, Prompt, Sole, LineInv, NEW w \in Tasks, Start(w)
  PROVE LineInv'
<1>1. /\ w \in Workers /\ Workers = {w} /\ Tasks = {w}
      /\ task[w] \in Task /\ task \in [Tasks -> Task] /\ Alone(task[w]) /\ Proper(w, task[w])
      /\ Types /\ SafeInv /\ LineageInv
  BY TheTask
<1> DEFINE c == task[w].child
<1>2. Next /\ Calm /\ SafeInv'
  <2>1. Next BY DEF SpawnStep, Next
  <2> QED BY <1>1, <2>1, NextCalm, SafeKept
<1>3. SameTree /\ decision' = decision BY DEF Start, rowVars, eventVars, SameTree, Rows
<1>4. LedKept BY <1>3, Kept
<1>5. /\ Trees' /\ Lines' /\ Finished' /\ AutosDeep'
      /\ \A r \in Runs : Sources(r)' = Sources(r) /\ Children(r)' = Children(r)
  BY <1>2, <1>3, <1>4, LinesStay
<1>6. \A r \in Runs \ {c} : exec'[r] = exec[r] BY <1>1 DEF Start, Types
<1>7. \A a \in Sources(c) : Led(a) BY <1>1 DEF Start, At, Alone
<1>8. Followed'
  <2>1. Rows' = Rows /\ Rows \subseteq Runs BY <1>3 DEF SameTree, Rows
  <2>2. ASSUME NEW r \in Rows, exec'[r] # NoWorker, NEW a \in Sources(r) PROVE Led(a)'
    <3>1. Led(a) BY <1>6, <1>7, <2>1, <2>2 DEF LineInv, Followed
    <3>2. a \in Runs BY <2>1, <2>2, OnTheWay
    <3> QED BY <1>4, <3>1, <3>2 DEF LedKept
  <2> QED BY <1>5, <2>1, <2>2 DEF Followed
<1>9. Alone(task[w])'
  <2>1. PICK v : v = task'[w] OBVIOUS
  <2>2. v.pc = "assess" /\ v.queue = task[w].queue
    BY <1>1, <2>1 DEF Start, Finish, Done, Task
  <2>3. /\ \A i \in 1..Len(v.queue) : v.queue[i] \in Runs /\ Children(v.queue[i]) = {}
        /\ \A i, j \in 1..Len(v.queue) : i < j => v.queue[i] # v.queue[j]
    BY <1>1, <2>2, TheQueue
  <2>4. \A i \in 1..Len(v.queue) : Children(v.queue[i])' = {} BY <1>5, <2>3
  <2>5. Alone(v)' BY <2>2, <2>3, <2>4 DEF Alone, SpawnSteps
  <2> QED BY <2>1, <2>5
<1> QED BY <1>1, <1>2, <1>3, <1>5, <1>8, <1>9 DEF LineInv

\* The new row extends its line: its source was the last of it.
LEMMA CreateLine ==
  ASSUME ReplayAssumption, Prompt, Sole, LineInv, NEW w \in Tasks, Create(w)
  PROVE LineInv'
<1>1. /\ w \in Workers /\ Workers = {w} /\ Tasks = {w}
      /\ task[w] \in Task /\ task \in [Tasks -> Task] /\ Alone(task[w]) /\ Proper(w, task[w])
      /\ Types /\ SafeInv /\ LineageInv
  BY TheTask
<1>2. Next /\ Calm /\ SafeInv'
  <2>1. Next BY DEF SpawnStep, Next
  <2> QED BY <1>1, <2>1, NextCalm, SafeKept
<1>3. PICK s, c : /\ s = task[w].source /\ c \in Runs \ Rows
                  /\ status' = [status EXCEPT ![c] = "pending"] /\ parent' = [parent EXCEPT ![c] = s]
                  /\ auto' = [auto EXCEPT ![c] = w \in Workers]
                  /\ task' = [task EXCEPT ![w].pc = "build", ![w].child = c]
  BY DEF Create
<1>4. /\ s \in Rows /\ s \in Runs /\ s # c /\ s # NoRun /\ Rows \subseteq Runs
      /\ Children(s) = {} /\ Dead(s) /\ task[w].pc = "create"
      /\ \A i \in 1..Len(task[w].queue) : task[w].queue[i] # s
  <2>1. task[w].pc = "create" BY DEF Create, At
  <2>2. Listed(w, task[w]) BY <1>1 DEF SafeInv
  <2> QED BY <1>1, <1>3, <2>1, <2>2, NoRunIsNone DEF Proper, Alone, Listed, Rows
<1>5. status[c] = "none" /\ Rows' = Rows \cup {c} BY <1>1, <1>3 DEF Types, Rows
<1>6. Parents(parent, Rows) BY <1>1 DEF LineageInv, TreeOK
<1>7. PICK d : Deep(parent, d) BY <1>1 DEF LineageInv, TreeOK
<1>8. PICK f, g : Rooted(parent, f) /\ Sourced(parent, Rows, g) BY DEF LineInv, Trees
<1>9. /\ Deep(parent', [d EXCEPT ![c] = 1 + d[s]])
      /\ Rooted(parent', [f EXCEPT ![c] = f[s]])
      /\ Sourced(parent', Rows', [g EXCEPT ![c] = {s} \cup g[s]])
  BY <1>3, <1>4, <1>5, <1>6, <1>7, <1>8, DepthGrows, RootsGrow, SourcesGrow
<1>10. Trees' BY <1>9 DEF Trees
<1>11. /\ \A r \in Runs : Depth(r)' = [d EXCEPT ![c] = 1 + d[s]][r] /\ Depth(r) = d[r]
       /\ \A r \in Runs : Root(r)' = [f EXCEPT ![c] = f[s]][r] /\ Root(r) = f[r]
       /\ \A r \in Runs : Sources(r)' = [g EXCEPT ![c] = {s} \cup g[s]][r] /\ Sources(r) = g[r]
  <2>1. /\ \A r \in Runs : Depth(r) = d[r] /\ Root(r) = f[r]
        /\ \A r \in Runs : Sources(r) = g[r]
    BY <1>7, <1>8, DepthIs, RootIs, SourcesAre
  <2>2. PICK e : e = [d EXCEPT ![c] = 1 + d[s]] OBVIOUS
  <2>3. \A r \in Runs : Depth(r)' = e[r]
    <3>1. DepthFn(parent', e) /\ \A x : DepthFn(parent', x) => x = e BY <1>9, <2>2 DEF Deep
    <3>2. (CHOOSE x : DepthFn(parent', x)) = e BY <3>1
    <3>3. \A r \in Runs : Depth(r)' = (CHOOSE x : DepthFn(parent', x))[r] BY DEF Depth, DepthFn
    <3> QED BY <3>2, <3>3
  <2>4. PICK h : h = [f EXCEPT ![c] = f[s]] OBVIOUS
  <2>5. \A r \in Runs : Root(r)' = h[r]
    <3>1. RootFn(parent', h) /\ \A x : RootFn(parent', x) => x = h BY <1>9, <2>4 DEF Rooted
    <3>2. (CHOOSE x : RootFn(parent', x)) = h BY <3>1
    <3>3. \A r \in Runs : Root(r)' = (CHOOSE x : RootFn(parent', x))[r] BY DEF Root, RootFn
    <3> QED BY <3>2, <3>3
  <2>6. PICK k : k = [g EXCEPT ![c] = {s} \cup g[s]] OBVIOUS
  <2>7. \A r \in Runs : Sources(r)' = k[r]
    <3>1. SourceFn(parent', k) /\ \A x : SourceFn(parent', x) => x = k BY <1>9, <2>6 DEF Sourced
    <3>2. (CHOOSE x : SourceFn(parent', x)) = k BY <3>1
    <3>3. \A r \in Runs : Sources(r)' = (CHOOSE x : SourceFn(parent', x))[r] BY DEF Sources, SourceFn
    <3> QED BY <3>2, <3>3
  <2> QED BY <2>1, <2>2, <2>3, <2>4, <2>5, <2>6, <2>7
<1>12. /\ d \in [Runs -> Nat] /\ f = [x \in Runs |-> f[x]] /\ g = [x \in Runs |-> g[x]]
  BY <1>7, <1>8 DEF Deep, Rooted, RootFn, Sourced, SourceFn
<1>13. /\ \A r \in Rows : Depth(r)' = Depth(r) /\ Root(r)' = Root(r) /\ Sources(r)' = Sources(r)
       /\ \A r \in Rows : Depth(r) \in Nat
       /\ Depth(c)' = 1 + Depth(s) /\ Root(c)' = Root(s)
  <2>1. /\ [d EXCEPT ![c] = 1 + d[s]][c] = 1 + d[s] /\ [f EXCEPT ![c] = f[s]][c] = f[s]
        /\ \A r \in Rows : /\ [d EXCEPT ![c] = 1 + d[s]][r] = d[r]
                          /\ [f EXCEPT ![c] = f[s]][r] = f[r]
                          /\ [g EXCEPT ![c] = {s} \cup g[s]][r] = g[r]
    BY <1>3, <1>4, <1>12
  <2>2. \A r \in Rows : d[r] \in Nat BY <1>4, <1>12
  <2> QED BY <1>3, <1>4, <1>11, <2>1, <2>2
<1>14. /\ \A r \in Rows : parent'[r] = parent[r] /\ status'[r] = status[r]
       /\ parent'[c] = s /\ parent \in [Runs -> Rows \cup {NoRun}]
  BY <1>1, <1>3, <1>4, <1>6 DEF Parents, Types
<1>15. /\ \A r \in Runs \ {s} : Children(r)' = Children(r)
       /\ c \in Children(s)' /\ Children(c)' = {}
  <2>1. \A r \in Runs : Children(r)' = {x \in Rows \cup {c} : parent'[x] = r} BY <1>5 DEF Children
  <2>2. \A r \in Rows : parent[r] # c BY <1>3, <1>4, <1>14, NoRunIsNone
  <2> QED BY <1>3, <1>4, <1>14, <2>1, <2>2 DEF Children
<1>16. \A r \in Rows : Children(r)' = {} => Children(r) = {} /\ r # s BY <1>4, <1>15
<1>17. Lines'
  <2>1. \A y \in Rows : Root(y) = Root(s) => Depth(y) <= Depth(s) BY <1>4 DEF LineInv, Lines
  <2>2. ASSUME NEW x \in Rows, NEW y \in Rows, Root(x) = Root(y)
        PROVE /\ Depth(x) = Depth(y) => x = y
              /\ Children(x)' = {} => Depth(y) <= Depth(x)
    BY <1>16, <2>2 DEF LineInv, Lines
  <2>3. ASSUME NEW y \in Rows, Root(s) = Root(y)
        PROVE Depth(c)' # Depth(y) /\ Depth(y) <= Depth(c)'
    BY <1>4, <1>13, <2>1, <2>3
  <2>4. ASSUME NEW x \in Rows, Root(x) = Root(s) PROVE Children(x)' # {}
    <3> SUFFICES ASSUME Children(x)' = {} PROVE FALSE OBVIOUS
    <3>1. Children(x) = {} /\ x # s BY <1>16
    <3>2. Depth(s) <= Depth(x) /\ Depth(x) <= Depth(s)
      BY <1>4, <2>1, <2>4, <3>1 DEF LineInv, Lines
    <3>3. Depth(x) = Depth(s) BY <1>4, <1>13, <3>2
    <3> QED BY <1>4, <2>4, <3>1, <3>3 DEF LineInv, Lines
  <2>5. ASSUME NEW x \in Rows', NEW y \in Rows', Root(x)' = Root(y)'
        PROVE /\ Depth(x)' = Depth(y)' => x = y
              /\ Children(x)' = {} => Depth(y)' <= Depth(x)'
    <3>1. CASE x \in Rows /\ y \in Rows BY <1>13, <2>2, <2>5, <3>1
    <3>2. CASE x = c /\ y \in Rows BY <1>13, <2>3, <2>5, <3>2
    <3>3. CASE x \in Rows /\ y = c BY <1>13, <2>3, <2>4, <2>5, <3>3
    <3>4. CASE x = c /\ y = c BY <1>4, <1>13, <3>4
    <3> QED BY <1>5, <3>1, <3>2, <3>3, <3>4
  <2> QED BY <2>5 DEF Lines
<1>18. Finished'
  <2>1. ASSUME NEW r \in Rows', parent'[r] # NoRun, NEW a, a = parent'[r] PROVE Dead(a)'
    <3>1. a \in Runs /\ Dead(a)
      <4>1. CASE r \in Rows BY <1>4, <1>14, <2>1, <4>1 DEF LineInv, Finished
      <4>2. CASE r = c BY <1>4, <1>14, <2>1, <4>2
      <4> QED BY <1>5, <4>1, <4>2
    <3> QED BY <1>2, <3>1 DEF Dead, Calm
  <2> QED BY <2>1 DEF Finished
<1>19. AutosDeep'
  <2>1. \A r \in Rows : auto'[r] = auto[r] BY <1>1, <1>3, <1>4 DEF Types
  <2> QED BY <1>4, <1>5, <1>14, <2>1 DEF LineInv, AutosDeep
<1>20. UNCHANGED <<decision, exec>> BY DEF Create, eventVars, execVars
<1>21. Followed'
  <2>1. exec[c] = NoWorker BY <1>1, <1>3, <1>5 DEF SafeInv, Leased, Held
  <2>2. ASSUME NEW r \in Rows, exec[r] # NoWorker, NEW a \in Sources(r) PROVE Led(a)'
    <3>1. Led(a) BY <2>2 DEF LineInv, Followed
    <3> QED BY <1>5, <1>14, <1>20, <3>1 DEF Led
  <2> QED BY <1>5, <1>13, <1>20, <2>1, <2>2 DEF Followed
<1>22. Alone(task[w])'
  <2>1. PICK v : v = task'[w] OBVIOUS
  <2>2. v.pc = "build" /\ v.child = c /\ v.queue = task[w].queue
    BY <1>1, <1>3, <2>1 DEF Task
  <2>3. /\ \A i \in 1..Len(v.queue) : v.queue[i] \in Runs /\ Children(v.queue[i]) = {}
        /\ \A i, j \in 1..Len(v.queue) : i < j => v.queue[i] # v.queue[j]
    BY <1>1, <2>2, TheQueue
  <2>4. \A i \in 1..Len(v.queue) : Children(v.queue[i])' = {} BY <1>4, <1>15, <2>2, <2>3
  <2>5. Children(c)' = {} /\ exec'[c] = NoWorker
    BY <1>1, <1>3, <1>5, <1>15, <1>20 DEF SafeInv, Leased, Held
  <2>6. Alone(v)' BY <2>2, <2>3, <2>4, <2>5 DEF Alone
  <2> QED BY <2>1, <2>6
<1> QED BY <1>1, <1>2, <1>10, <1>17, <1>18, <1>19, <1>20, <1>21, <1>22 DEF LineInv

LEMMA LineKept ==
  ASSUME ReplayAssumption, Prompt, Sole, LineInv, [Next]_vars
  PROVE LineInv'
<1>1. CASE UNCHANGED vars
  <2>1. UNCHANGED <<status, parent, auto, recency, claimed, replayed, decision, exec, lease, risk, task>>
    BY <1>1 DEF vars, rowVars, eventVars, execVars
  <2>2. SafeInv' BY <1>1, SafeKept DEF LineInv
  <2>3. Rows' = Rows /\ \A r \in Runs : /\ Root(r)' = Root(r) /\ Depth(r)' = Depth(r)
                                        /\ Sources(r)' = Sources(r) /\ Children(r)' = Children(r)
    BY <2>1 DEF Rows, Root, Depth, Sources, Children
  <2>4. Trees' BY <2>1, <2>3 DEF LineInv, Trees
  <2>5. (Lines /\ Finished /\ AutosDeep /\ Followed)'
    BY <1>1, <2>1 DEF LineInv, Lines, Finished, AutosDeep, Followed, Led, Dead, Held, Past, Rows,
                      Root, Depth, Sources, Children
  <2>6. ASSUME NEW w \in Workers PROVE Alone(task[w])'
    <3>1. Alone(task[w]) BY DEF LineInv
    <3> QED BY <2>1, <3>1 DEF Alone, Led, Rows, Sources, Children
  <2> QED BY <2>1, <2>2, <2>4, <2>5, <2>6 DEF LineInv
<1>2. ASSUME NEW t \in Tasks, SpawnStep(t) PROVE LineInv'
  BY <1>2, SpawnLine, FollowLine, RefuseLine, StartLine, CreateLine DEF SpawnStep
<1>3. ASSUME NEW c \in Callers PROVE FALSE BY <1>3 DEF Sole
<1> QED BY <1>1, <1>2, <1>3, RunLine, SweepLine DEF Next

LEMMA LineIsOne ==
  ASSUME ReplayAssumption, LineInv
  PROVE OneInBudget
<1>1. Rows \subseteq Runs BY DEF Rows
<1>2. \A r \in Rows : Depth(r) \in Nat
  <2>1. PICK d : Deep(parent, d) BY DEF LineInv, SafeInv, LineageInv, TreeOK
  <2> QED BY <1>1, <2>1, DepthIs DEF Deep
<1>3. OneExecutor
  <2>1. ASSUME NEW r \in Rows, exec[r] # NoWorker PROVE Children(r) = {}
    <3>1. ~Dead(r) BY <2>1 DEF Dead, Held
    <3>2. r # NoRun BY <1>1, NoRunIsNone
    <3> QED BY <3>1, <3>2 DEF LineInv, Finished, Children
  <2>2. ASSUME NEW r \in Rows, NEW q \in Rows, exec[r] # NoWorker, exec[q] # NoWorker, Root(r) = Root(q)
        PROVE r = q
    <3>1. Depth(q) <= Depth(r) /\ Depth(r) <= Depth(q) BY <2>1, <2>2 DEF LineInv, Lines
    <3>2. Depth(r) = Depth(q) BY <1>2, <3>1
    <3> QED BY <2>2, <3>2 DEF LineInv, Lines
  <2> QED BY <2>2 DEF OneExecutor
<1>4. ASSUME NEW r \in Roots
      PROVE Cardinality({c \in Rows : auto[c] /\ Root(c) = r}) <= MaxDepth
  <2> DEFINE S == {c \in Rows : auto[c] /\ Root(c) = r}
             f == [c \in S |-> Depth(c)]
  <2>1. \A c \in S : Depth(c) \in 1..MaxDepth
    <3>1. ASSUME NEW c \in S PROVE Depth(c) # 0
      <4>1. PICK d : Deep(parent, d) BY DEF LineInv, SafeInv, LineageInv, TreeOK
      <4>2. parent[c] # NoRun /\ parent[c] \in Runs
        BY <1>1 DEF LineInv, AutosDeep, SafeInv, LineageInv, TreeOK, Parents
      <4>3. d[c] = 1 + d[parent[c]] /\ d[parent[c]] \in Nat BY <1>1, <4>1, <4>2 DEF Deep, DepthFn
      <4>4. Depth(c) = d[c] BY <1>1, <4>1, DepthIs
      <4> QED BY <4>3, <4>4
    <3>2. \A c \in S : Depth(c) <= MaxDepth
      BY DEF LineInv, SafeInv, LineageInv, LineageSound, DepthBounded
    <3> QED BY <1>2, <3>1, <3>2 DEF ReplayAssumption
  <2>2. f \in [S -> 1..MaxDepth] BY <2>1
  <2>3. \A x, y \in S : f[x] = f[y] => x = y BY DEF LineInv, Lines
  <2>4. IsFiniteSet(S) /\ Cardinality(S) \in Nat
    <3>1. IsFiniteSet(Runs) /\ S \in SUBSET Runs BY <1>1 DEF ReplayAssumption
    <3>2. IsFiniteSet(S) BY <3>1, FS_Subset
    <3> QED BY <3>2, FS_CardinalityType
  <2>5. IsFiniteSet(1..MaxDepth) /\ Cardinality(1..MaxDepth) = MaxDepth
    <3>1. MaxDepth \in Nat /\ 1 \in Int /\ MaxDepth \in Int BY DEF ReplayAssumption
    <3>2. Cardinality(1..MaxDepth) = IF 1 > MaxDepth THEN 0 ELSE MaxDepth - 1 + 1
      BY <3>1, FS_Interval
    <3> QED BY <3>1, <3>2, FS_Interval
  <2> HIDE DEF S, f
  <2>6. ~(Cardinality(1..MaxDepth) < Cardinality(S))
    <3> SUFFICES ASSUME Cardinality(1..MaxDepth) < Cardinality(S) PROVE FALSE OBVIOUS
    <3> DEFINE T == 1..MaxDepth
    <3>1. IsFiniteSet(S) /\ IsFiniteSet(T) /\ Cardinality(T) < Cardinality(S) /\ f \in [S -> T]
      BY <2>2, <2>4, <2>5
    <3> HIDE DEF T
    <3>2. \E x, y \in S : x # y /\ f[x] = f[y] BY ONLY <3>1, FS_PigeonHole
    <3> QED BY <2>3, <3>2
  <2>7. Cardinality(S) <= MaxDepth BY <2>4, <2>5, <2>6 DEF ReplayAssumption
  <2> QED BY <2>7 DEF S
<1>5. AutoBudget BY <1>4 DEF AutoBudget
<1> QED BY <1>3, <1>5 DEF OneInBudget

LEMMA LineLeads == ASSUME ReplayAssumption, LineInv PROVE DecisionsLead
<1> SUFFICES ASSUME NEW c \in Rows, exec[c] # NoWorker, NEW a \in Sources(c)
             PROVE \E x \in {c} \cup Sources(c) :
                      parent[x] = a /\ decision[a] = Decision("follow_replay", x)
  BY DEF DecisionsLead
<1>1. a \in Rows /\ \E y \in {c} \cup Sources(c) : y \in Children(a) BY OnTheWay
<1>2. PICK y \in {c} \cup Sources(c) : y \in Children(a) BY <1>1
<1>3. PICK x \in Rows : parent[x] = a /\ decision[a] = Decision("follow_replay", x)
  BY DEF LineInv, Followed, Led
<1>4. x \in Children(a) BY <1>3 DEF Children
<1>5. x = y BY <1>1, <1>2, <1>4, OnlyChild
<1> QED BY <1>2, <1>3, <1>5

\* With one gateway that sweeps and nobody who asks for replays, of the runs of a
\* tree at most one executes and at most the cap are automatic.
THEOREM OneRunsInBudget == ReplayAssumption /\ Prompt /\ Sole => (Spec => []OneInBudget)
<1> SUFFICES ASSUME ReplayAssumption, Prompt, Sole PROVE Spec => []OneInBudget OBVIOUS
<1>1. Init => LineInv BY LineStart
<1>2. LineInv /\ [Next]_vars => LineInv' BY LineKept
<1>3. LineInv => OneInBudget BY LineIsOne
<1> QED BY <1>1, <1>2, <1>3, PTL DEF Spec

\* And the decisions of the runs that an executing run continues lead to it.
THEOREM DecisionsFollow == ReplayAssumption /\ Prompt /\ Sole => (Spec => []DecisionsLead)
<1> SUFFICES ASSUME ReplayAssumption, Prompt, Sole PROVE Spec => []DecisionsLead OBVIOUS
<1>1. Init => LineInv BY LineStart
<1>2. LineInv /\ [Next]_vars => LineInv' BY LineKept
<1>3. LineInv => DecisionsLead BY LineLeads
<1> QED BY <1>1, <1>2, <1>3, PTL DEF Spec
=============================================================================
