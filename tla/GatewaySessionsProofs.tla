------------------------- MODULE GatewaySessionsProofs -------------------------
(***************************************************************************)
(* Proofs about GatewaySessions, for any number of messages, chats and     *)
(* session tasks, any limits and any clock: its types, that a chat has two *)
(* working agents only after an eviction or a panic, and that nothing but  *)
(* a panic loses a message.                                                *)
(*                                                                         *)
(* The map, the senders that messages are routed with and the tasks must   *)
(* agree (Routed), and every message that was accepted must be in one      *)
(* place of one task (Kept): the three facts below are inductive together. *)
(***************************************************************************)
EXTENDS GatewaySessions, TLAPS

----------------------------------------------------------------------------
(* The inductive invariant.                                                *)

Elements(q) == {q[i] : i \in 1..Len(q)}
Distinct(q) == \A i, j \in 1..Len(q) : q[i] = q[j] => i = j
Reachable(t) == task[t].state \in {"idle", "busy", "dead"}

\* A message has a sender exactly while it is being sent.
TxSet == \A m \in Msgs : At(m, "send") <=> msg[m].tx # None
Typed == TypeOK /\ TxSet

\* A task that is not alive holds nothing, and a busy one works on a message.
TaskShape ==
  \A t \in Tasks :
    /\ task[t].state # "unborn" => task[t].key \in Keys
    /\ ~Alive(t) => task[t].queue = <<>>
    /\ task[t].cur # None <=> task[t].state = "busy"

\* A sender, in the map or of a message that is routed, is of a task of that chat
\* whose receiver has not ended in the orderly way.
MapShape == \A k \in Keys : Open(k) => Reachable(sessions[k]) /\ task[sessions[k]].key = k
TxShape ==
  \A m \in Msgs : msg[m].tx # None => /\ At(m, "send") /\ Reachable(msg[m].tx)
                                      /\ task[msg[m].tx].key = KeyOf[m]

\* The map has the one task of a chat that is alive, was not evicted and saw no
\* panic.
InMap ==
  \A t \in Tasks : (Alive(t) /\ t \notin cleaner.evicted /\ ~Panicked(task[t].key))
                      => sessions[task[t].key] = t
EvictedLived == \A t \in cleaner.evicted : task[t].state # "unborn"
Routed == TaskShape /\ MapShape /\ TxShape /\ InMap /\ EvictedLived

\* What a task holds is of its chat and waits for an answer; it is held once.
HeldWaits ==
  \A t \in Tasks : /\ task[t].state = "busy" => At(task[t].cur, "waiting") /\ KeyOf[task[t].cur] = task[t].key
                   /\ \A m \in Elements(task[t].queue) : At(m, "waiting") /\ KeyOf[m] = task[t].key
Apart(t, u) ==
  /\ t # u => /\ Elements(task[t].queue) \cap Elements(task[u].queue) = {}
              /\ task[t].cur # None => task[t].cur # task[u].cur
  /\ task[t].cur \notin Elements(task[u].queue)
  /\ Distinct(task[t].queue)
HeldOnce == \A t, u \in Tasks : Apart(t, u)
Kept == HeldWaits /\ HeldOnce /\ OnlyPanicsLose

IInv == Typed /\ Routed /\ Kept

----------------------------------------------------------------------------
(* Types, and what each action does to a task and to a message.            *)

TaskType == [state : {"unborn", "idle", "busy", "dead", "ended"}, key : Keys \cup {None},
             queue : Seq(Msgs), cur : Msgs \cup {None}, active : 0..MaxTime]
MsgType == [pc : {"new", "check", "enter", "send", "waiting", "answered"},
            tx : Tasks \cup {None}, answer : Answers]
TaskIs(t, r) == task' = [task EXCEPT ![t] = r]
MsgIs(m, r) == msg' = [msg EXCEPT ![m] = r]
Answered(a) == [pc |-> "answered", tx |-> None, answer |-> a]

LEMMA TypeParts ==
  TypeOK <=> /\ sessions \in [Keys -> Tasks \cup {None}]
             /\ task \in [Tasks -> TaskType] /\ \A t \in Tasks : Len(task[t].queue) <= Capacity
             /\ msg \in [Msgs -> MsgType]
             /\ cleaner \in [now : 0..MaxTime, todo : SUBSET Keys, evicted : SUBSET Tasks]
             /\ clock \in 0..MaxTime
BY Zenon DEF TypeOK, TaskType, MsgType

LEMMA TypesNext ==
  ASSUME sessions' \in [Keys -> Tasks \cup {None}], task' \in [Tasks -> TaskType],
         \A t \in Tasks : Len(task'[t].queue) <= Capacity, msg' \in [Msgs -> MsgType],
         cleaner' \in [now : 0..MaxTime, todo : SUBSET Keys, evicted : SUBSET Tasks],
         clock' \in 0..MaxTime
  PROVE  TypeOK'
BY Zenon DEF TypeOK, TaskType, MsgType

LEMMA InitTypes == Init => Typed
BY SessionAssumption, SMT DEF Init, TypeOK, NoTask, Answers, Typed, TxSet, At

LEMMA TailTypes ==
  ASSUME NEW S, NEW q \in Seq(S), q # <<>>
  PROVE  Head(q) \in S /\ Tail(q) \in Seq(S) /\ Len(Tail(q)) = Len(q) - 1
OBVIOUS

LEMMA AnswerIs == ASSUME NEW m, NEW a PROVE (msg' = Answer(m, a)) <=> MsgIs(m, Answered(a))
BY DEF Answer, MsgIs, Answered

LEMMA AnsweredTypes == ASSUME NEW a \in Answers PROVE Answered(a) \in MsgType
BY DEF Answered, MsgType

\* A step that changes one task, and one message, keeps the types.
LEMMA OneTask ==
  ASSUME NEW t \in Tasks, NEW r \in TaskType, Len(r.queue) <= Capacity,
         task \in [Tasks -> TaskType], \A u \in Tasks : Len(task[u].queue) <= Capacity,
         TaskIs(t, r)
  PROVE  /\ task' \in [Tasks -> TaskType] /\ \A u \in Tasks : Len(task'[u].queue) <= Capacity
         /\ task'[t] = r /\ \A u \in Tasks : u # t => task'[u] = task[u]
BY DEF TaskIs

LEMMA OneMsg ==
  ASSUME NEW m \in Msgs, NEW r \in MsgType, msg \in [Msgs -> MsgType], MsgIs(m, r)
  PROVE  /\ msg' \in [Msgs -> MsgType] 
         /\ msg'[m] = r /\ \A n \in Msgs : n # m => msg'[n] = msg[n]
BY DEF MsgIs

\* CheckLimit, CreateFails and SendFails answer the message, or let it on.
LEMMA CheckLimitIs ==
  ASSUME TypeOK, NEW m \in Msgs, CheckLimit(m)
  PROVE  \E r \in {Answered("full"), [msg[m] EXCEPT !.pc = "enter"]} : r \in MsgType /\ MsgIs(m, r)
<1>1. [msg[m] EXCEPT !.pc = "enter"] \in MsgType
  BY TypeParts DEF MsgType
<1>2. Answered("full") \in MsgType  BY AnsweredTypes DEF Answers
<1>3. MsgIs(m, Answered("full")) \/ MsgIs(m, [msg[m] EXCEPT !.pc = "enter"])
  BY AnswerIs DEF CheckLimit, MsgIs
<1> QED  BY <1>1, <1>2, <1>3

LEMMA TxIsTask ==
  ASSUME TypeOK, TxSet, NEW m \in Msgs, At(m, "send")
  PROVE  msg[m].tx \in Tasks
BY TypeParts DEF TxSet, MsgType

LEMMA FoundIs ==
  ASSUME TypeOK, NEW m \in Msgs, Found(m)
  PROVE  \E t \in Tasks, r \in TaskType, g \in MsgType :
           /\ t = sessions[KeyOf[m]] /\ TaskIs(t, r) /\ MsgIs(m, g)
           /\ r = [task[t] EXCEPT !.active = clock]
           /\ g.pc = "send" /\ g.tx = t /\ g.answer = msg[m].answer
<1> DEFINE t == sessions[KeyOf[m]]
           r == [task[t] EXCEPT !.active = clock]
           g == [msg[m] EXCEPT !.pc = "send", !.tx = t]
<1>1. t \in Tasks  BY SessionAssumption DEF Found, Open, TypeOK
<1>2. task[t] \in TaskType /\ clock \in 0..MaxTime  BY <1>1, TypeParts
<1>3. r \in TaskType  BY <1>2 DEF TaskType
<1>4. msg[m] \in MsgType  BY TypeParts
<1>5. g \in MsgType  BY <1>1, <1>4 DEF MsgType
<1>6. TaskIs(t, r)  BY DEF Found, TaskIs
<1>7. MsgIs(m, g)  BY DEF Found, MsgIs
<1>8. g.pc = "send" /\ g.tx = t /\ g.answer = msg[m].answer  BY <1>4 DEF MsgType
<1> QED  BY <1>1, <1>3, <1>5, <1>6, <1>7, <1>8

LEMMA SpawnIs ==
  ASSUME TypeOK, NEW m \in Msgs, Spawn(m)
  PROVE  \E t \in Tasks, r \in TaskType, g \in MsgType :
           /\ task[t].state = "unborn" /\ TaskIs(t, r) /\ MsgIs(m, g)
           /\ r.state = "idle" /\ r.key = KeyOf[m] /\ r.queue = <<>> /\ r.cur = None
           /\ g.pc = "send" /\ g.tx = t /\ g.answer = msg[m].answer
           /\ sessions' = [sessions EXCEPT ![KeyOf[m]] = t]
<1> DEFINE t == CHOOSE x \in Unborn : TRUE
           r == [NoTask EXCEPT !.state = "idle", !.key = KeyOf[m], !.active = clock]
           g == [msg[m] EXCEPT !.pc = "send", !.tx = t]
<1>1. t \in Unborn  BY DEF Spawn
<1>2. t \in Tasks /\ task[t].state = "unborn"  BY <1>1 DEF Unborn
<1>3. r \in TaskType
  <2>1. KeyOf[m] \in Keys /\ clock \in 0..MaxTime /\ <<>> \in Seq(Msgs)
    BY SessionAssumption, TypeParts
  <2>2. NoTask = [state |-> "unborn", key |-> None, queue |-> <<>>, cur |-> None, active |-> 0]
    BY DEF NoTask
  <2> QED  BY <2>1, <2>2 DEF TaskType
<1>4. msg[m] \in MsgType  BY TypeParts
<1>5. g \in MsgType  BY <1>2, <1>4 DEF MsgType
<1>6. r.state = "idle" /\ r.key = KeyOf[m] /\ r.queue = <<>> /\ r.cur = None  BY DEF NoTask
<1>7. TaskIs(t, r) /\ sessions' = [sessions EXCEPT ![KeyOf[m]] = t] /\ MsgIs(m, g)
  BY DEF Spawn, TaskIs, MsgIs
<1>8. g.pc = "send" /\ g.tx = t /\ g.answer = msg[m].answer  BY <1>4 DEF MsgType
<1> HIDE DEF t, r, g
<1> QED  BY <1>2, <1>3, <1>5, <1>6, <1>7, <1>8

LEMMA SendIs ==
  ASSUME TypeOK, TxSet, NEW m \in Msgs, Send(m)
  PROVE  \E t \in Tasks, r \in TaskType, g \in MsgType :
           /\ t = msg[m].tx /\ TaskIs(t, r) /\ MsgIs(m, g) /\ Len(r.queue) <= Capacity
           /\ r = [task[t] EXCEPT !.queue = Append(task[t].queue, m)]
           /\ g.pc = "waiting" /\ g.tx = None /\ g.answer = msg[m].answer
<1> DEFINE t == msg[m].tx
           r == [task[t] EXCEPT !.queue = Append(task[t].queue, m)]
           g == [msg[m] EXCEPT !.pc = "waiting", !.tx = None]
<1>1. msg[m] \in MsgType  BY TypeParts
<1>2. t \in Tasks  BY <1>1, TxIsTask DEF Send
<1>3. task[t] \in TaskType /\ Len(task[t].queue) < Capacity  BY <1>2, TypeParts DEF Send, HasRoom
<1>4. /\ Append(task[t].queue, m) \in Seq(Msgs)
      /\ Len(Append(task[t].queue, m)) = Len(task[t].queue) + 1 /\ Len(task[t].queue) \in Nat
  BY <1>3 DEF TaskType
<1>a. r \in TaskType /\ r.queue = Append(task[t].queue, m)  BY <1>3, <1>4 DEF TaskType
<1>b. Len(r.queue) <= Capacity  BY <1>3, <1>4, <1>a, SessionAssumption
<1>5. g \in MsgType  BY <1>1 DEF MsgType
<1>6. TaskIs(t, r)  BY DEF Send, TaskIs
<1>7. MsgIs(m, g)  BY DEF Send, MsgIs
<1>8. g.pc = "waiting" /\ g.tx = None /\ g.answer = msg[m].answer  BY <1>1 DEF MsgType
<1> QED  BY <1>2, <1>a, <1>b, <1>5, <1>6, <1>7, <1>8

LEMMA TakeIs ==
  ASSUME TypeOK, NEW t \in Tasks, Take(t)
  PROVE  \E r \in TaskType :
           /\ TaskIs(t, r) /\ Len(r.queue) <= Capacity /\ task[t].queue # <<>>
           /\ r.state = "busy" /\ r.key = task[t].key /\ r.queue = Tail(task[t].queue)
           /\ r.cur = Head(task[t].queue) /\ r.cur \in Msgs
<1> DEFINE q == task[t].queue
           r == [task[t] EXCEPT !.state = "busy", !.cur = Head(q), !.queue = Tail(q), !.active = clock]
<1>1. task[t] \in TaskType /\ Len(q) <= Capacity /\ clock \in 0..MaxTime  BY TypeParts
<1>2. q \in Seq(Msgs) /\ q # <<>>  BY <1>1 DEF Take, TaskType
<1>3. Head(q) \in Msgs /\ Tail(q) \in Seq(Msgs) /\ Len(Tail(q)) = Len(q) - 1  BY <1>2, TailTypes
<1>4. r \in TaskType  BY <1>1, <1>3 DEF TaskType
<1>5. /\ r.state = "busy" /\ r.key = task[t].key /\ r.queue = Tail(q) /\ r.cur = Head(q)
  BY <1>1 DEF TaskType
<1>6. TaskIs(t, r)  BY DEF Take, TaskIs
<1>7. Len(Tail(q)) <= Capacity  BY <1>1, <1>2, <1>3, SessionAssumption
<1> HIDE DEF r
<1> QED  BY <1>2, <1>3, <1>4, <1>5, <1>6, <1>7

LEMMA ReplyIs ==
  ASSUME TypeOK, NEW t \in Tasks, Reply(t)
  PROVE  \E r \in TaskType :
           /\ TaskIs(t, r) /\ Len(r.queue) <= Capacity
           /\ r.state = "idle" /\ r.key = task[t].key /\ r.queue = task[t].queue /\ r.cur = None
           /\ MsgIs(task[t].cur, Answered("reply"))
<1> DEFINE r == [task[t] EXCEPT !.state = "idle", !.cur = None]
<1>1. task[t] \in TaskType /\ Len(task[t].queue) <= Capacity  BY TypeParts
<1>2. r \in TaskType  BY <1>1 DEF TaskType
<1>3. TaskIs(t, r)  BY <1>1 DEF Reply, TaskIs, TaskType
<1>4. MsgIs(task[t].cur, Answered("reply"))  BY AnswerIs DEF Reply
<1>5. r.state = "idle" /\ r.key = task[t].key /\ r.queue = task[t].queue /\ r.cur = None
  BY <1>1 DEF TaskType
<1> QED  BY <1>1, <1>2, <1>3, <1>4, <1>5

LEMMA EndIs ==
  ASSUME TypeOK, NEW t \in Tasks, End(t)
  PROVE  \E r \in TaskType :
           /\ TaskIs(t, r) /\ Len(r.queue) <= Capacity
           /\ r = [task[t] EXCEPT !.state = "ended"]
<1> DEFINE r == [task[t] EXCEPT !.state = "ended"]
<1>1. task[t] \in TaskType /\ Len(task[t].queue) <= Capacity  BY TypeParts
<1>2. r \in TaskType /\ r.queue = task[t].queue  BY <1>1 DEF TaskType
<1>3. TaskIs(t, r)  BY <1>1 DEF End, TaskIs, TaskType
<1> QED  BY <1>1, <1>2, <1>3

LEMMA PanicIs ==
  ASSUME TypeOK, NEW t \in Tasks, Panic(t)
  PROVE  /\ \E r \in TaskType :
               /\ TaskIs(t, r) /\ Len(r.queue) <= Capacity
               /\ r.state = "dead" /\ r.key = task[t].key /\ r.queue = <<>> /\ r.cur = None
         /\ msg' \in [Msgs -> MsgType]
         /\ \A m \in Msgs : msg'[m] = IF m \in Held(t) THEN Answered("dropped") ELSE msg[m]
<1> DEFINE r == [task[t] EXCEPT !.state = "dead", !.cur = None, !.queue = <<>>]
<1>1. task[t] \in TaskType  BY TypeParts
<1>2. r \in TaskType /\ Len(r.queue) <= Capacity
  <2>1. <<>> \in Seq(Msgs) /\ Len(<<>>) = 0  OBVIOUS
  <2>2. r \in TaskType  BY <1>1, <2>1 DEF TaskType
  <2>3. r.queue = <<>>  BY <1>1 DEF TaskType
  <2> QED  BY <2>1, <2>2, <2>3, SessionAssumption
<1>3. TaskIs(t, r)  BY <1>1 DEF Panic, TaskIs, TaskType
<1>4. r.state = "dead" /\ r.key = task[t].key /\ r.queue = <<>> /\ r.cur = None
  BY <1>1 DEF TaskType
<1>5. msg \in [Msgs -> MsgType] /\ Answered("dropped") \in MsgType
  BY TypeParts, AnsweredTypes DEF Answers
<1>6. msg' = [m \in Msgs |-> IF m \in Held(t) THEN Answered("dropped") ELSE msg[m]]
  <2>1. \A m \in Msgs : Answer(m, "dropped")[m] = Answered("dropped")
    BY <1>5 DEF Answer, Answered
  <2> QED  BY <2>1 DEF Panic
<1> QED  BY <1>2, <1>3, <1>4, <1>5, <1>6

\* The routing of a message keeps the types.
LEMMA RouteTypes ==
  ASSUME Typed, NEW m \in Msgs, Route(m)
  PROVE  Typed'
<1> USE DEF Typed
<1>0. /\ sessions \in [Keys -> Tasks \cup {None}] /\ KeyOf[m] \in Keys /\ None \notin Tasks
      /\ task \in [Tasks -> TaskType] /\ msg \in [Msgs -> MsgType]
      /\ \A t \in Tasks : Len(task[t].queue) <= Capacity
      /\ cleaner \in [now : 0..MaxTime, todo : SUBSET Keys, evicted : SUBSET Tasks]
      /\ clock \in 0..MaxTime /\ Capacity \in Nat \ {0}
  BY TypeParts, SessionAssumption
<1>0a. cleaner' = cleaner /\ clock' = clock
  BY DEF Route, CheckLimit, Found, Create, Spawn, CreateFails, Send, SendFails
\* Whatever happens to the message, it has a sender exactly while it is sent.
<1>a. ASSUME NEW g \in MsgType, MsgIs(m, g), g.pc = "send" <=> g.tx # None
      PROVE  TxSet' /\ msg' \in [Msgs -> MsgType]
  BY <1>0, <1>a, OneMsg DEF TxSet, At
<1>b. ASSUME NEW a \in Answers, MsgIs(m, Answered(a))
      PROVE  TxSet' /\ msg' \in [Msgs -> MsgType]
  BY <1>a, <1>b, AnsweredTypes DEF Answered
\* One task at most is another one.
<1>c. ASSUME NEW t \in Tasks, NEW r \in TaskType, TaskIs(t, r), Len(r.queue) <= Capacity,
             msg' \in [Msgs -> MsgType], sessions' \in [Keys -> Tasks \cup {None}]
      PROVE  TypeOK'
  BY <1>0, <1>0a, <1>c, OneTask, TypesNext
<1>d. ASSUME task' = task, msg' \in [Msgs -> MsgType], sessions' \in [Keys -> Tasks \cup {None}]
      PROVE  TypeOK'
  BY <1>0, <1>0a, <1>d, TypesNext
<1>1. CASE CheckLimit(m)
  <2>1. [msg[m] EXCEPT !.pc = "enter"].tx = msg[m].tx /\ [msg[m] EXCEPT !.pc = "enter"].pc = "enter"
        /\ msg[m].tx = None
    BY <1>0, <1>1 DEF CheckLimit, MsgType, TxSet, At
  <2>2. TxSet' /\ msg' \in [Msgs -> MsgType]
    BY <2>1, <1>1, <1>a, <1>b, CheckLimitIs DEF Answers
  <2> QED  BY <1>0, <1>1, <1>d, <2>2 DEF CheckLimit
<1>2. CASE Found(m)
  <2>1. PICK t \in Tasks, r \in TaskType, g \in MsgType :
           /\ t = sessions[KeyOf[m]] /\ TaskIs(t, r) /\ MsgIs(m, g)
           /\ r = [task[t] EXCEPT !.active = clock] /\ g.pc = "send" /\ g.tx = t
    BY <1>2, FoundIs
  <2>2. Len(r.queue) <= Capacity  BY <1>0, <2>1 DEF TaskType
  <2> QED  BY <1>0, <1>2, <1>a, <1>c, <2>1, <2>2 DEF Found
<1>3. CASE Spawn(m)
  <2>1. PICK t \in Tasks, r \in TaskType, g \in MsgType :
           /\ TaskIs(t, r) /\ MsgIs(m, g) /\ g.pc = "send" /\ g.tx = t /\ r.queue = <<>>
           /\ sessions' = [sessions EXCEPT ![KeyOf[m]] = t]
    BY <1>3, SpawnIs
  <2>2. Len(r.queue) <= Capacity  BY <1>0, <2>1
  <2> QED  BY <1>0, <1>a, <1>c, <2>1, <2>2
<1>4. CASE CreateFails(m)
  BY <1>0, <1>4, <1>b, <1>d, AnswerIs DEF CreateFails, Answers
<1>5. CASE Send(m)
  <2>1. PICK t \in Tasks, r \in TaskType, g \in MsgType :
           /\ TaskIs(t, r) /\ MsgIs(m, g) /\ Len(r.queue) <= Capacity
           /\ g.pc = "waiting" /\ g.tx = None
    BY <1>5, SendIs
  <2> QED  BY <1>0, <1>5, <1>a, <1>c, <2>1 DEF Send
<1>6. CASE SendFails(m)
  BY <1>0, <1>6, <1>b, <1>d, AnswerIs DEF SendFails, Answers
<1> QED  BY <1>1, <1>2, <1>3, <1>4, <1>5, <1>6 DEF Route, Create

\* So does the work of a task.
LEMMA WorkTypes ==
  ASSUME Typed, NEW t \in Tasks, Work(t) \/ Panic(t),
         \A u \in Tasks : task[u].state = "busy" => task[u].cur # None
  PROVE  Typed'
<1> USE DEF Typed
<1>0. /\ sessions \in [Keys -> Tasks \cup {None}]
      /\ task \in [Tasks -> TaskType] /\ msg \in [Msgs -> MsgType]
      /\ \A u \in Tasks : Len(task[u].queue) <= Capacity
      /\ cleaner \in [now : 0..MaxTime, todo : SUBSET Keys, evicted : SUBSET Tasks]
      /\ clock \in 0..MaxTime
  BY TypeParts
<1>0a. cleaner' = cleaner /\ clock' = clock /\ sessions' = sessions
  BY DEF Work, Take, Reply, End, Panic
<1>c. ASSUME NEW r \in TaskType, TaskIs(t, r), Len(r.queue) <= Capacity, msg' \in [Msgs -> MsgType]
      PROVE  TypeOK'
  BY <1>0, <1>0a, <1>c, OneTask, TypesNext
<1>1. CASE Take(t)
  BY <1>0, <1>1, <1>c, TakeIs DEF Take, TxSet, At
<1>2. CASE Reply(t)
  <2>1. task[t].cur \in Msgs  BY <1>0, <1>2 DEF Reply, TaskType
  <2>2. MsgIs(task[t].cur, Answered("reply")) /\ Answered("reply") \in MsgType
    BY <1>2, ReplyIs, AnsweredTypes DEF Answers
  <2>3. TxSet' /\ msg' \in [Msgs -> MsgType]
    BY <1>0, <2>1, <2>2, OneMsg DEF Answered, TxSet, At
  <2> QED  BY <1>2, <1>c, <2>3, ReplyIs
<1>3. CASE End(t)
  BY <1>0, <1>3, <1>c, EndIs DEF End, TxSet, At
<1>4. CASE Panic(t)
  <2>1. TxSet'  BY <1>0, <1>4, PanicIs DEF TxSet, At, Answered
  <2> QED  BY <1>4, <1>c, <2>1, PanicIs
<1> QED  BY <1>1, <1>2, <1>3, <1>4 DEF Work

LEMMA SweepTypes ==
  ASSUME Typed, Sweep \/ Advance
  PROVE  Typed'
<1>0. TypeOK /\ TxSet  BY DEF Typed
<1>1. task' = task /\ msg' = msg  BY DEF Sweep, Cleanup, Visit, Advance
<1>2. TxSet'  BY <1>0, <1>1 DEF TxSet, At
<1>3. CASE Cleanup
  BY <1>0, <1>1, <1>2, <1>3 DEF Cleanup, TypeOK, Typed
<1>4. ASSUME NEW k \in Keys, Visit(k) PROVE Typed'
  <2>1. sessions' \in [Keys -> Tasks \cup {None}]  BY <1>0, <1>4 DEF Visit, TypeOK
  <2>2. cleaner' \in [now : 0..MaxTime, todo : SUBSET Keys, evicted : SUBSET Tasks]
    <3>1. cleaner \in [now : 0..MaxTime, todo : SUBSET Keys, evicted : SUBSET Tasks]
          /\ sessions[k] \in Tasks \cup {None}
      BY <1>0 DEF TypeOK
    <3>2. CASE Open(k) /\ Stale(sessions[k])
      <4>1. cleaner' = [cleaner EXCEPT !.todo = cleaner.todo \ {k},
                                       !.evicted = cleaner.evicted \cup {sessions[k]}]
        BY <1>4, <3>2 DEF Visit
      <4>2. sessions[k] \in Tasks  BY <3>1, <3>2 DEF Open
      <4> QED  BY <3>1, <4>1, <4>2
    <3>3. CASE ~(Open(k) /\ Stale(sessions[k]))
      BY <1>4, <3>1, <3>3 DEF Visit
    <3> QED  BY <3>2, <3>3
  <2> QED  BY <1>0, <1>1, <1>2, <1>4, <2>1, <2>2 DEF Visit, TypeOK, Typed
<1>5. CASE Advance
  BY <1>0, <1>1, <1>2, <1>5, SessionAssumption DEF Advance, TypeOK, Typed
<1> QED  BY <1>3, <1>4, <1>5 DEF Sweep

----------------------------------------------------------------------------
(* Who is reached: Routed is kept by every action.                         *)

LEMMA Ranges ==
  ASSUME TypeOK
  PROVE  /\ sessions \in [Keys -> Tasks \cup {None}] /\ None \notin Tasks /\ None \notin Msgs
         /\ task \in [Tasks -> TaskType] /\ msg \in [Msgs -> MsgType]
         /\ \A m \in Msgs : KeyOf[m] \in Keys
         /\ cleaner \in [now : 0..MaxTime, todo : SUBSET Keys, evicted : SUBSET Tasks]
BY TypeParts, SessionAssumption

\* A panic of a chat is not forgotten while dead tasks stay dead.
LEMMA PanickedStays ==
  ASSUME \A t \in Tasks : task[t].state = "dead" => task'[t].state = "dead" /\ task'[t].key = task[t].key,
         NEW k, Panicked(k)
  PROVE  Panicked(k)'
BY DEF Panicked

\* A step of a message that is not being sent, and is not from then on.
LEMMA TalkRouted ==
  ASSUME Typed, Routed, NEW m \in Msgs, NEW g \in MsgType, MsgIs(m, g), g.tx = None,
         UNCHANGED <<sessions, task, cleaner>>
  PROVE  Routed'
<1>1. \A n \in Msgs : n # m => msg'[n] = msg[n]  BY Ranges, OneMsg DEF Typed
<1>2. msg'[m].tx = None  BY Ranges, OneMsg DEF Typed
<1>3. TxShape'  BY <1>1, <1>2 DEF Routed, TxShape, At, Reachable
<1> QED  BY <1>3 DEF Routed, TaskShape, MapShape, InMap, EvictedLived, Alive, Open, Reachable, Panicked

\* A step that moves nothing of what is routed.
LEMMA StillRouted ==
  ASSUME Routed, UNCHANGED <<sessions, task, msg, cleaner.evicted>>
  PROVE  Routed'
BY DEF Routed, TaskShape, MapShape, TxShape, InMap, EvictedLived, Alive, Open, Reachable, Panicked, At

LEMMA FoundRouted ==
  ASSUME Typed, Routed, NEW m \in Msgs, Found(m)
  PROVE  Routed'
<1>0. TypeOK /\ TxSet  BY DEF Typed
<1>1. PICK t \in Tasks, r \in TaskType, g \in MsgType :
        /\ t = sessions[KeyOf[m]] /\ TaskIs(t, r) /\ MsgIs(m, g)
        /\ r = [task[t] EXCEPT !.active = clock] /\ g.pc = "send" /\ g.tx = t
  BY <1>0, FoundIs
<1>2. \A u \in Tasks : /\ task'[u].state = task[u].state /\ task'[u].key = task[u].key
                       /\ task'[u].queue = task[u].queue /\ task'[u].cur = task[u].cur
  BY <1>0, <1>1, Ranges DEF TaskIs, TaskType
<1>3. /\ \A n \in Msgs : n # m => msg'[n] = msg[n]
      /\ msg'[m].tx = t /\ msg'[m].pc = "send"
  BY <1>0, <1>1, Ranges, OneMsg
<1>4. sessions' = sessions /\ cleaner' = cleaner  BY DEF Found
<1>5. Reachable(t) /\ task[t].key = KeyOf[m]
  BY <1>0, <1>1, Ranges DEF Found, Routed, MapShape
<1>6. TxShape'  BY <1>2, <1>3, <1>5, Ranges, <1>0 DEF Routed, TxShape, At, Reachable, MsgType
<1>7. TaskShape' /\ EvictedLived'  BY <1>0, <1>2, <1>4, Ranges DEF Routed, TaskShape, EvictedLived, Alive
<1>8. MapShape'  BY <1>0, <1>2, <1>4, Ranges DEF Routed, MapShape, Open, Reachable
<1>9. InMap'  BY <1>2, <1>4 DEF Routed, InMap, Alive, Panicked
<1> QED  BY <1>6, <1>7, <1>8, <1>9 DEF Routed

LEMMA CreateRouted ==
  ASSUME Typed, Routed, NEW m \in Msgs, Create(m)
  PROVE  Routed'
<1>0. TypeOK /\ TxSet  BY DEF Typed
<1>1. PICK t \in Tasks, r \in TaskType, g \in MsgType :
        /\ task[t].state = "unborn" /\ TaskIs(t, r) /\ MsgIs(m, g)
        /\ r.state = "idle" /\ r.key = KeyOf[m] /\ r.queue = <<>> /\ r.cur = None
        /\ g.pc = "send" /\ g.tx = t /\ sessions' = [sessions EXCEPT ![KeyOf[m]] = t]
  BY <1>0, SpawnIs DEF Create
<1>2. /\ \A u \in Tasks : u # t => task'[u] = task[u]
      /\ task'[t] = r
  BY <1>0, <1>1, Ranges DEF TaskIs
<1>3. /\ \A n \in Msgs : n # m => msg'[n] = msg[n]
      /\ msg'[m].tx = t /\ msg'[m].pc = "send"
  BY <1>0, <1>1, Ranges, OneMsg
<1>4. /\ \A k \in Keys : k # KeyOf[m] => sessions'[k] = sessions[k]
      /\ sessions'[KeyOf[m]] = t /\ sessions[KeyOf[m]] = None /\ cleaner' = cleaner
  BY <1>0, <1>1, Ranges DEF Create, Spawn, Open
<1>5. TaskShape'  BY <1>0, <1>1, <1>2, Ranges DEF Routed, TaskShape, Alive
<1>6. TxShape'
  BY <1>0, <1>1, <1>2, <1>3, Ranges DEF Routed, TxShape, At, Reachable, MsgType
<1>7. MapShape'
  BY <1>0, <1>1, <1>2, <1>4, Ranges DEF Routed, MapShape, Open, Reachable
<1>8. EvictedLived'
  BY <1>0, <1>1, <1>2, <1>4, Ranges DEF Routed, EvictedLived
<1>9. InMap'
  <2> SUFFICES ASSUME NEW u \in Tasks, Alive(u)', u \notin cleaner.evicted, ~Panicked(task[u].key)'
               PROVE  sessions'[task'[u].key] = u
    BY <1>4 DEF InMap
  <2>1. CASE u = t
    BY <1>1, <1>2, <1>4, <2>1
  <2>2. CASE u # t
    <3>1. task'[u] = task[u] /\ Alive(u)  BY <1>2, <2>2 DEF Alive
    <3>2. \A v \in Tasks : task[v].state = "dead" => task'[v].state = "dead" /\ task'[v].key = task[v].key
      BY <1>1, <1>2
    <3>3. ~Panicked(task[u].key)  BY <3>1, <3>2, PanickedStays
    <3>4. sessions[task[u].key] = u  BY <3>1, <3>3 DEF Routed, InMap
    <3>5. task[u].key \in Keys  BY <3>1 DEF Routed, TaskShape, Alive
    <3> QED  BY <1>0, <1>4, <3>1, <3>4, <3>5, Ranges
  <2> QED  BY <2>1, <2>2
<1> QED  BY <1>5, <1>6, <1>7, <1>8, <1>9 DEF Routed

LEMMA SendRouted ==
  ASSUME Typed, Routed, NEW m \in Msgs, Send(m)
  PROVE  Routed'
<1>0. TypeOK /\ TxSet  BY DEF Typed
<1>1. PICK t \in Tasks, r \in TaskType, g \in MsgType :
        /\ t = msg[m].tx /\ TaskIs(t, r) /\ MsgIs(m, g)
        /\ r = [task[t] EXCEPT !.queue = Append(task[t].queue, m)]
        /\ g.tx = None
  BY <1>0, SendIs
<1>2. /\ \A u \in Tasks : /\ task'[u].state = task[u].state /\ task'[u].key = task[u].key
                          /\ task'[u].cur = task[u].cur
      /\ \A u \in Tasks : u # t => task'[u] = task[u]
  BY <1>0, <1>1, Ranges DEF TaskIs, TaskType
<1>3. /\ \A n \in Msgs : n # m => msg'[n] = msg[n]
      /\ msg'[m].tx = None
  BY <1>0, <1>1, Ranges, OneMsg
<1>4. sessions' = sessions /\ cleaner' = cleaner /\ Alive(t)  BY <1>1 DEF Send
<1>6. TxShape'  BY <1>2, <1>3, Ranges, <1>0 DEF Routed, TxShape, At, Reachable, MsgType
<1>7. TaskShape' /\ EvictedLived'  BY <1>0, <1>2, <1>4, Ranges DEF Routed, TaskShape, EvictedLived, Alive
<1>8. MapShape'  BY <1>0, <1>2, <1>4, Ranges DEF Routed, MapShape, Open, Reachable
<1>9. InMap'  BY <1>2, <1>4 DEF Routed, InMap, Alive, Panicked
<1> QED  BY <1>6, <1>7, <1>8, <1>9 DEF Routed

\* The session that is removed is of a chat whose agent has panicked: the sender
\* of the message was to a dead task.
LEMMA GoneIsPanicked ==
  ASSUME Typed, Routed, NEW m \in Msgs, SendFails(m)
  PROVE  Panicked(KeyOf[m])
<1>1. msg[m].tx \in Tasks /\ msg[m].tx # None  BY TxIsTask, Ranges DEF Typed, SendFails
<1>2. task[msg[m].tx].state = "dead" /\ task[msg[m].tx].key = KeyOf[m]
  BY <1>1 DEF Routed, TxShape, Reachable, SendFails, Alive
<1> QED  BY <1>1, <1>2 DEF Panicked

LEMMA SendFailsRouted ==
  ASSUME Typed, Routed, NEW m \in Msgs, SendFails(m)
  PROVE  Routed'
<1>0. TypeOK /\ TxSet  BY DEF Typed
<1>1. task' = task /\ cleaner' = cleaner /\ sessions' = [sessions EXCEPT ![KeyOf[m]] = None]
  BY DEF SendFails
<1>2. /\ \A n \in Msgs : n # m => msg'[n] = msg[n]
      /\ msg'[m].tx = None
  BY <1>0, AnswerIs, AnsweredTypes, Ranges, OneMsg DEF SendFails, Answered, Answers
<1>3. \A k \in Keys : k # KeyOf[m] => sessions'[k] = sessions[k]
  BY <1>0, <1>1, Ranges
<1>4. TaskShape' /\ EvictedLived'  BY <1>1 DEF Routed, TaskShape, EvictedLived, Alive
<1>5. TxShape'  BY <1>1, <1>2 DEF Routed, TxShape, At, Reachable
<1>6. MapShape'  BY <1>0, <1>1, Ranges DEF Routed, MapShape, Open, Reachable
<1>7. InMap'
  <2> SUFFICES ASSUME NEW u \in Tasks, Alive(u), u \notin cleaner.evicted, ~Panicked(task[u].key)
               PROVE  sessions'[task[u].key] = u
    BY <1>1 DEF InMap, Alive, Panicked
  <2>1. task[u].key # KeyOf[m]  BY GoneIsPanicked
  <2>2. task[u].key \in Keys /\ sessions[task[u].key] = u  BY DEF Routed, TaskShape, InMap, Alive
  <2> QED  BY <1>3, <2>1, <2>2
<1> QED  BY <1>4, <1>5, <1>6, <1>7 DEF Routed

\* A task works on, or dies: it stays within reach of its senders, and if it
\* leaves the living the chat has seen a panic.
LEMMA WorkRouted ==
  ASSUME Typed, Routed, NEW t \in Tasks, Take(t) \/ Reply(t) \/ Panic(t)
  PROVE  Routed'
<1>0. TypeOK /\ TxSet  BY DEF Typed
<1>1. PICK r \in TaskType :
        /\ TaskIs(t, r) /\ r.key = task[t].key /\ r.state \in {"busy", "idle", "dead"}
        /\ r.cur # None <=> r.state = "busy"
        /\ r.state = "dead" => r.queue = <<>>
  BY <1>0, TakeIs, ReplyIs, PanicIs, Ranges
<1>2. /\ \A u \in Tasks : u # t => task'[u] = task[u]
      /\ task'[t] = r
  BY <1>0, <1>1, Ranges DEF TaskIs
<1>3. task[t].state \in {"busy", "idle"}  BY DEF Take, Reply, Panic
<1>4. sessions' = sessions /\ cleaner' = cleaner  BY DEF Take, Reply, Panic
<1>5. \A m \in Msgs : msg'[m].tx # None => msg'[m] = msg[m]
  <2>1. CASE Take(t)  BY <2>1 DEF Take
  <2>2. CASE Reply(t)
    <3>1. task[t].cur \in Msgs  BY <1>0, <2>2, Ranges DEF Reply, Routed, TaskShape, TaskType
    <3> QED  BY <1>0, <2>2, <3>1, ReplyIs, Ranges, AnsweredTypes, OneMsg DEF Answered, Answers
  <2>3. CASE Panic(t)  BY <1>0, <2>3, PanicIs DEF Answered
  <2> QED  BY <2>1, <2>2, <2>3
<1>6. \A u \in Tasks : task'[u].key = task[u].key /\ (Reachable(u) => Reachable(u)')
                      /\ (task[u].state = "dead" => task'[u].state = "dead")
                      /\ (task'[u].state = "unborn" <=> task[u].state = "unborn")
  BY <1>1, <1>2, <1>3 DEF Reachable
<1>7. TaskShape'  BY <1>1, <1>2, <1>6 DEF Routed, TaskShape, Alive
<1>8. MapShape'  BY <1>0, <1>4, <1>6, Ranges DEF Routed, MapShape, Open
<1>9. TxShape'
  <2> SUFFICES ASSUME NEW m \in Msgs, msg'[m].tx # None
               PROVE  /\ At(m, "send")' /\ Reachable(msg[m].tx)'
                      /\ task'[msg[m].tx].key = KeyOf[m] /\ msg'[m] = msg[m]
    BY DEF TxShape, Reachable
  <2>1. msg'[m] = msg[m]  BY <1>5
  <2>2. msg[m].tx \in Tasks  BY <1>0, <2>1, Ranges DEF MsgType
  <2>3. At(m, "send") /\ Reachable(msg[m].tx) /\ task[msg[m].tx].key = KeyOf[m]
    BY <2>1 DEF Routed, TxShape
  <2>4. Reachable(msg[m].tx)'  BY <2>1, <2>2, <2>3, <1>6 DEF Reachable
  <2> QED  BY <1>6, <2>1, <2>2, <2>3, <2>4 DEF At
<1>10. EvictedLived'  BY <1>0, <1>4, <1>6, Ranges DEF Routed, EvictedLived
<1>11. InMap'
  <2> SUFFICES ASSUME NEW u \in Tasks, Alive(u)', u \notin cleaner.evicted, ~Panicked(task[u].key)'
               PROVE  sessions[task[u].key] = u
    BY <1>4, <1>6 DEF InMap
  <2>1. Alive(u)  BY <1>2, <1>3 DEF Alive
  <2>2. ~Panicked(task[u].key)  BY <1>6, PanickedStays
  <2> QED  BY <2>1, <2>2 DEF Routed, InMap
<1> QED  BY <1>7, <1>8, <1>9, <1>10, <1>11 DEF Routed

\* A task ends when no sender reaches it.
LEMMA EndRouted ==
  ASSUME Typed, Routed, NEW t \in Tasks, End(t)
  PROVE  Routed'
<1>0. TypeOK /\ TxSet  BY DEF Typed
<1>1. PICK r \in TaskType : TaskIs(t, r) /\ r = [task[t] EXCEPT !.state = "ended"]
  BY <1>0, EndIs
<1>2. /\ \A u \in Tasks : u # t => task'[u] = task[u]
      /\ task'[t].state = "ended" /\ task'[t].key = task[t].key
      /\ task'[t].queue = task[t].queue /\ task'[t].cur = task[t].cur
  BY <1>0, <1>1, Ranges DEF TaskIs, TaskType
<1>3. /\ sessions' = sessions /\ cleaner' = cleaner /\ msg' = msg
      /\ task[t].state = "idle" /\ task[t].queue = <<>>
      /\ \A k \in Keys : sessions[k] # t
      /\ \A m \in Msgs : msg[m].tx # t
  BY DEF End, HasSender
<1>4. TaskShape'  BY <1>2, <1>3 DEF Routed, TaskShape, Alive
<1>5. MapShape'  BY <1>0, <1>2, <1>3, Ranges DEF Routed, MapShape, Open, Reachable
<1>6. TxShape'  BY <1>0, <1>2, <1>3, Ranges DEF Routed, TxShape, At, Reachable, MsgType
<1>7. EvictedLived'  BY <1>0, <1>2, <1>3, Ranges DEF Routed, EvictedLived
<1>8. InMap'
  <2> SUFFICES ASSUME NEW u \in Tasks, Alive(u)', u \notin cleaner.evicted, ~Panicked(task[u].key)'
               PROVE  sessions[task'[u].key] = u
    BY <1>3 DEF InMap
  <2>1. task'[u] = task[u] /\ Alive(u)  BY <1>2 DEF Alive
  <2>2. \A v \in Tasks : task[v].state = "dead" => task'[v].state = "dead" /\ task'[v].key = task[v].key
    BY <1>2, <1>3
  <2>3. ~Panicked(task[u].key)  BY <2>1, <2>2, PanickedStays
  <2> QED  BY <2>1, <2>3 DEF Routed, InMap
<1> QED  BY <1>4, <1>5, <1>6, <1>7, <1>8 DEF Routed

\* The cleanup puts the task whose sender it drops among the evicted.
LEMMA VisitRouted ==
  ASSUME Typed, Routed, NEW k \in Keys, Visit(k)
  PROVE  Routed'
<1>0. TypeOK /\ TxSet /\ task' = task /\ msg' = msg  BY DEF Typed, Visit
<1>1. CASE Open(k) /\ Stale(sessions[k])
  <2>1. /\ sessions' = [sessions EXCEPT ![k] = None]
        /\ cleaner' = [cleaner EXCEPT !.todo = cleaner.todo \ {k},
                                      !.evicted = cleaner.evicted \cup {sessions[k]}]
    BY <1>1 DEF Visit
  <2>2. cleaner'.evicted = cleaner.evicted \cup {sessions[k]}  BY <1>0, <2>1, Ranges
  <2>3. \A l \in Keys : l # k => sessions'[l] = sessions[l]  BY <1>0, <2>1, Ranges
  <2>4. sessions'[k] = None  BY <1>0, <2>1, Ranges
  <2>5. TaskShape' /\ TxShape'  BY <1>0 DEF Routed, TaskShape, TxShape, Alive, Reachable, At
  <2>6. MapShape'  BY <1>0, <2>3, <2>4 DEF Routed, MapShape, Open, Reachable
  <2>7. EvictedLived'  BY <1>0, <1>1, <2>2 DEF Routed, EvictedLived, MapShape, Reachable
  <2>8. InMap'
    <3> SUFFICES ASSUME NEW u \in Tasks, Alive(u), u \notin cleaner.evicted, u # sessions[k],
                        ~Panicked(task[u].key)
                 PROVE  sessions'[task[u].key] = u
      BY <1>0, <2>2 DEF InMap, Alive, Panicked
    <3>1. task[u].key \in Keys /\ sessions[task[u].key] = u  BY DEF Routed, TaskShape, InMap, Alive
    <3> QED  BY <2>3, <3>1
  <2> QED  BY <2>5, <2>6, <2>7, <2>8 DEF Routed
<1>2. CASE ~(Open(k) /\ Stale(sessions[k]))
  <2>1. sessions' = sessions /\ cleaner'.evicted = cleaner.evicted
    BY <1>0, <1>2, Ranges DEF Visit
  <2> QED  BY <1>0, <2>1, StillRouted
<1> QED  BY <1>1, <1>2

----------------------------------------------------------------------------
(* What is held: Kept is kept by every action.                             *)

LEMMA NoElements == Elements(<<>>) = {} /\ Distinct(<<>>)
BY DEF Elements, Distinct

LEMMA AppendElements ==
  ASSUME NEW S, NEW q \in Seq(S), NEW m \in S
  PROVE  /\ Elements(Append(q, m)) = Elements(q) \cup {m}
         /\ Distinct(q) /\ m \notin Elements(q) => Distinct(Append(q, m))
<1>1. /\ Len(q) \in Nat /\ Len(Append(q, m)) = Len(q) + 1 /\ Append(q, m)[Len(q) + 1] = m
      /\ \A i \in 1..Len(q) : Append(q, m)[i] = q[i]
  OBVIOUS
<1> QED  BY <1>1 DEF Elements, Distinct

LEMMA TailElements ==
  ASSUME NEW S, NEW q \in Seq(S), q # <<>>
  PROVE  /\ Elements(q) = Elements(Tail(q)) \cup {Head(q)}
         /\ Distinct(q) => Distinct(Tail(q)) /\ Head(q) \notin Elements(Tail(q))
<1>1. /\ Len(q) \in Nat /\ Len(q) > 0 /\ Len(Tail(q)) = Len(q) - 1 /\ Head(q) = q[1]
      /\ \A i \in 1..Len(Tail(q)) : Tail(q)[i] = q[i + 1]
  OBVIOUS
<1>2. ASSUME NEW i \in 1..Len(q), i # 1 PROVE i - 1 \in 1..Len(Tail(q)) /\ Tail(q)[i - 1] = q[i]
  BY <1>1, <1>2
<1>3. \A i \in 1..Len(Tail(q)) : i + 1 \in 1..Len(q) /\ i + 1 # 1 /\ 1 \in 1..Len(q)
  BY <1>1
<1>4. Elements(q) = Elements(Tail(q)) \cup {Head(q)}
  <2>1. ASSUME NEW x \in Elements(q) PROVE x \in Elements(Tail(q)) \cup {Head(q)}
    <3>1. PICK i \in 1..Len(q) : x = q[i]  BY <2>1 DEF Elements
    <3>2. CASE i = 1  BY <1>1, <3>1, <3>2
    <3>3. CASE i # 1
      <4>1. i - 1 \in 1..Len(Tail(q)) /\ Tail(q)[i - 1] = x  BY <1>2, <3>1, <3>3
      <4> QED  BY <4>1 DEF Elements
    <3> QED  BY <3>2, <3>3
  <2>2. ASSUME NEW x \in Elements(Tail(q)) PROVE x \in Elements(q)
    <3>1. PICK i \in 1..Len(Tail(q)) : x = Tail(q)[i]  BY <2>2 DEF Elements
    <3> QED  BY <1>1, <1>3, <3>1 DEF Elements
  <2>3. Head(q) \in Elements(q)  BY <1>1 DEF Elements
  <2> QED  BY <2>1, <2>2, <2>3
<1>5. ASSUME Distinct(q) PROVE Distinct(Tail(q)) /\ Head(q) \notin Elements(Tail(q))
  <2>1. ASSUME NEW i \in 1..Len(Tail(q)), NEW j \in 1..Len(Tail(q)), Tail(q)[i] = Tail(q)[j]
        PROVE  i = j
    <3>1. q[i + 1] = q[j + 1]  BY <1>1, <2>1
    <3>2. i + 1 = j + 1  BY <1>3, <1>5, <3>1 DEF Distinct
    <3> QED  BY <1>1, <3>2
  <2>2. \A i \in 1..Len(Tail(q)) : Tail(q)[i] # q[1]  BY <1>1, <1>3, <1>5 DEF Distinct
  <2> QED  BY <1>1, <2>1, <2>2 DEF Distinct, Elements
<1> QED  BY <1>4, <1>5

LEMMA HeldIs == \A t \in Tasks : Held(t) = {task[t].cur} \cup Elements(task[t].queue)
BY DEF Held, Elements

\* A step of one message that no task holds, before or after it.
LEMMA OutsideKept ==
  ASSUME Typed, TaskShape, Kept, NEW m \in Msgs, NEW g \in MsgType, MsgIs(m, g),
         ~At(m, "waiting"), g.pc # "waiting",
         g.answer \in {"dropped", "gone"} => Panicked(KeyOf[m])',
         \A u \in Tasks : /\ task'[u].queue = task[u].queue /\ task'[u].cur = task[u].cur
                          /\ Alive(u) => Alive(u)'
                          /\ task'[u].state = "busy" <=> task[u].state = "busy"
                          /\ task[u].state = "dead" => task'[u].state = "dead"
                          /\ task[u].state # "unborn" => task'[u].key = task[u].key
                          /\ task[u].state = "unborn" => task[u].queue = <<>>
  PROVE  Kept'
<1>0. TypeOK  BY DEF Typed
<1>1. /\ \A n \in Msgs : n # m => msg'[n] = msg[n]
      /\ msg'[m] = g
  BY <1>0, Ranges, OneMsg
<1>2. HeldWaits'
  <2> SUFFICES ASSUME NEW u \in Tasks
               PROVE  /\ task[u].state = "busy" => At(task[u].cur, "waiting")'
                                             /\ KeyOf[task[u].cur] = task'[u].key
                      /\ \A n \in Elements(task[u].queue) : At(n, "waiting")' /\ KeyOf[n] = task'[u].key
    BY DEF HeldWaits, At
  <2>2. CASE task[u].state = "unborn"
    BY <2>2, NoElements
  <2>3. CASE task[u].state # "unborn"
    <3>1. task'[u].key = task[u].key  BY <2>3
    <3>2. \A n : At(n, "waiting") => n # m /\ (n \in Msgs => At(n, "waiting")')
      BY <1>1 DEF At
    <3>3. Elements(task[u].queue) \subseteq Msgs
      BY <1>0, Ranges DEF Elements, TaskType
    <3>4. task[u].state = "busy" => At(task[u].cur, "waiting") /\ KeyOf[task[u].cur] = task[u].key
      BY DEF Kept, HeldWaits
    <3>5. \A n \in Elements(task[u].queue) : At(n, "waiting") /\ KeyOf[n] = task[u].key
      BY DEF Kept, HeldWaits
    <3>6. task[u].state = "busy" => task[u].cur \in Msgs
      BY <1>0, Ranges DEF TaskShape, TaskType
    <3> QED  BY <3>1, <3>2, <3>3, <3>4, <3>5, <3>6 DEF At
  <2> QED  BY <2>2, <2>3
<1>3. HeldOnce'  BY DEF Kept, HeldOnce, Apart
<1>4. OnlyPanicsLose'
  <2> SUFFICES ASSUME NEW n \in Msgs
               PROVE  /\ At(n, "waiting")' => \E t \in Tasks : Alive(t)' /\ n \in Held(t)'
                      /\ msg'[n].answer \in {"dropped", "gone"} => Panicked(KeyOf[n])'
    BY DEF OnlyPanicsLose
  <2>1. \A u \in Tasks : Held(u)' = Held(u)  BY DEF Held
  <2>2. \A k : Panicked(k) => Panicked(k)'  BY DEF Panicked
  <2>3. CASE n = m  BY <1>1, <2>3 DEF At
  <2>4. CASE n # m  BY <1>1, <2>1, <2>2, <2>4 DEF At, Kept, OnlyPanicsLose
  <2> QED  BY <2>3, <2>4
<1> QED  BY <1>2, <1>3, <1>4 DEF Kept

\* A step that moves nothing of what is held.
LEMMA StillKept ==
  ASSUME Kept, UNCHANGED <<task, msg>>
  PROVE  Kept'
BY DEF Kept, HeldWaits, HeldOnce, Apart, OnlyPanicsLose, At, Alive, Held, Panicked

\* Routing a message to its task holds nothing yet; neither does giving it up.
LEMMA RouteKept ==
  ASSUME Typed, Routed, Kept, NEW m \in Msgs,
         Arrive(m) \/ CheckLimit(m) \/ Found(m) \/ Create(m) \/ CreateFails(m) \/ SendFails(m)
  PROVE  Kept'
<1>0. TypeOK /\ TxSet /\ TaskShape  BY DEF Typed, Routed
<1>1. ~At(m, "waiting")  BY DEF Arrive, CheckLimit, Found, Create, CreateFails, SendFails, At
<1>2. \A u \in Tasks : task[u].state = "unborn" => task[u].queue = <<>> /\ task[u].cur = None
  BY DEF Routed, TaskShape, Alive
<1>3. msg[m] \in MsgType  BY <1>0, Ranges
<1>a. ASSUME task' = task, NEW g \in MsgType, MsgIs(m, g), g.pc # "waiting",
             g.answer \in {"dropped", "gone"} => Panicked(KeyOf[m])
      PROVE  Kept'
  <2>1. Panicked(KeyOf[m]) => Panicked(KeyOf[m])'  BY <1>a DEF Panicked
  <2>2. \A u \in Tasks : Alive(u) => Alive(u)'  BY <1>a DEF Alive
  <2> QED  BY <1>0, <1>1, <1>2, <1>a, <2>1, <2>2, OutsideKept
<1>b. \A a \in Answers : Answered(a) \in MsgType /\ Answered(a).pc # "waiting" /\ Answered(a).answer = a
  BY AnsweredTypes DEF Answered
<1>c. msg[m].answer \in {"dropped", "gone"} => Panicked(KeyOf[m])
  BY DEF Kept, OnlyPanicsLose
<1>4. CASE Arrive(m)
  <2> DEFINE g == [msg[m] EXCEPT !.pc = "check"]
  <2>1. g \in MsgType /\ g.pc = "check" /\ g.answer = msg[m].answer  BY <1>3 DEF MsgType
  <2>2. MsgIs(m, g) /\ task' = task  BY <1>4 DEF Arrive, MsgIs
  <2> QED  BY <1>a, <1>c, <2>1, <2>2
<1>5. CASE CheckLimit(m)
  <2>1. [msg[m] EXCEPT !.pc = "enter"].pc = "enter" /\ [msg[m] EXCEPT !.pc = "enter"].answer = msg[m].answer
    BY <1>3 DEF MsgType
  <2>2. task' = task  BY <1>5 DEF CheckLimit
  <2> QED  BY <1>0, <1>5, <1>a, <1>b, <1>c, <2>1, <2>2, CheckLimitIs DEF Answers
<1>6. CASE CreateFails(m)
  BY <1>6, <1>a, <1>b, AnswerIs DEF CreateFails, Answers
<1>7. CASE SendFails(m)
  BY <1>7, <1>a, <1>b, AnswerIs, GoneIsPanicked DEF SendFails, Answers
<1>8. CASE Found(m)
  <2>1. PICK t \in Tasks, r \in TaskType, g \in MsgType :
           /\ TaskIs(t, r) /\ MsgIs(m, g)
           /\ r = [task[t] EXCEPT !.active = clock] /\ g.pc = "send" /\ g.answer = msg[m].answer
    BY <1>0, <1>8, FoundIs
  <2>2. \A u \in Tasks : /\ task'[u].state = task[u].state /\ task'[u].key = task[u].key
                         /\ task'[u].queue = task[u].queue /\ task'[u].cur = task[u].cur
    BY <1>0, <2>1, Ranges DEF TaskIs, TaskType
  <2>3. Panicked(KeyOf[m]) => Panicked(KeyOf[m])'  BY <2>2 DEF Panicked
  <2> QED  BY <1>0, <1>1, <1>2, <1>c, <2>1, <2>2, <2>3, OutsideKept DEF Alive
<1>9. CASE Create(m)
  <2>1. PICK t \in Tasks, r \in TaskType, g \in MsgType :
           /\ task[t].state = "unborn" /\ TaskIs(t, r) /\ MsgIs(m, g)
           /\ r.state = "idle" /\ r.queue = <<>> /\ r.cur = None
           /\ g.pc = "send" /\ g.answer = msg[m].answer
    BY <1>0, <1>9, SpawnIs DEF Create
  <2>2. /\ \A u \in Tasks : u # t => task'[u] = task[u]
        /\ task'[t] = r
    BY <1>0, <2>1, Ranges DEF TaskIs
  <2>3. Panicked(KeyOf[m]) => Panicked(KeyOf[m])'  BY <2>1, <2>2 DEF Panicked
  <2> QED  BY <1>0, <1>1, <1>2, <1>c, <2>1, <2>2, <2>3, OutsideKept DEF Alive
<1> QED  BY <1>4, <1>5, <1>6, <1>7, <1>8, <1>9

\* A message that is sent is put behind the others, and nowhere else.
LEMMA SendKept ==
  ASSUME Typed, Routed, Kept, NEW m \in Msgs, Send(m)
  PROVE  Kept'
<1>0. TypeOK /\ TxSet /\ TaskShape /\ HeldWaits /\ HeldOnce /\ OnlyPanicsLose
  BY DEF Typed, Routed, Kept
<1>1. PICK t \in Tasks, r \in TaskType, g \in MsgType :
        /\ t = msg[m].tx /\ TaskIs(t, r) /\ MsgIs(m, g)
        /\ r = [task[t] EXCEPT !.queue = Append(task[t].queue, m)]
        /\ g.pc = "waiting" /\ g.tx = None /\ g.answer = msg[m].answer
  BY <1>0, SendIs
<1>2. /\ \A u \in Tasks : /\ task'[u].state = task[u].state /\ task'[u].key = task[u].key
                          /\ task'[u].cur = task[u].cur
                          /\ u # t => task'[u].queue = task[u].queue
      /\ task'[t].queue = Append(task[t].queue, m)
  BY <1>0, <1>1, Ranges DEF TaskIs, TaskType
<1>3. /\ \A n \in Msgs : n # m => msg'[n] = msg[n]
      /\ msg'[m] = g
  BY <1>0, <1>1, Ranges, OneMsg
<1>4. At(m, "send") /\ Alive(t)  BY <1>1 DEF Send
<1>5. task[t].key = KeyOf[m]  BY <1>0, <1>1, Ranges DEF Routed, TxShape
<1>6. \A u \in Tasks : task[u].queue \in Seq(Msgs) /\ Elements(task[u].queue) \subseteq Msgs
  BY <1>0, Ranges DEF TaskType, Elements
\* Nobody holds it so far.
<1>7. \A u \in Tasks : m \notin Elements(task[u].queue) /\ m # task[u].cur
  <2> TAKE u \in Tasks
  <2>1. m \notin Elements(task[u].queue)  BY <1>0, <1>4 DEF HeldWaits, At
  <2>2. task[u].state = "busy" => m # task[u].cur  BY <1>0, <1>4 DEF HeldWaits, At
  <2>3. task[u].state # "busy" => m # task[u].cur  BY <1>0, Ranges DEF TaskShape
  <2> QED  BY <2>1, <2>2, <2>3
<1>8. /\ Elements(task'[t].queue) = Elements(task[t].queue) \cup {m}
      /\ Distinct(task[t].queue) => Distinct(task'[t].queue)
  BY <1>2, <1>6, <1>7, AppendElements
<1>9. HeldWaits'
  <2> SUFFICES ASSUME NEW u \in Tasks
               PROVE  /\ task'[u].state = "busy" => msg'[task'[u].cur].pc = "waiting"
                                                /\ KeyOf[task'[u].cur] = task'[u].key
                      /\ \A n \in Elements(task'[u].queue) : At(n, "waiting")' /\ KeyOf[n] = task'[u].key
    BY DEF HeldWaits, At
  <2>1. task[u].state = "busy" => task[u].cur \in Msgs  BY <1>0, Ranges DEF TaskShape, TaskType
  <2>2. \A n \in Msgs : At(n, "waiting") => At(n, "waiting")'  BY <1>3, <1>4 DEF At
  <2>3. At(m, "waiting")'  BY <1>1, <1>3 DEF At
  <2>4. task[u].state = "busy" => At(task[u].cur, "waiting") /\ KeyOf[task[u].cur] = task[u].key
    BY <1>0 DEF HeldWaits
  <2>5. \A n \in Elements(task[u].queue) : At(n, "waiting")' /\ KeyOf[n] = task[u].key
    BY <1>0, <1>6, <2>2 DEF HeldWaits
  <2>6. \A n \in Elements(task'[u].queue) : At(n, "waiting")' /\ KeyOf[n] = task'[u].key
    BY <1>2, <1>5, <1>8, <2>3, <2>5
  <2> QED  BY <1>2, <2>1, <2>2, <2>4, <2>6 DEF At
<1>10. HeldOnce'
  <2> SUFFICES ASSUME NEW u \in Tasks, NEW v \in Tasks
               PROVE  Apart(u, v)'
    BY DEF HeldOnce
  <2>1. Apart(u, v)  BY <1>0 DEF HeldOnce
  <2>2. u # v => Elements(task'[u].queue) \cap Elements(task'[v].queue) = {}
    BY <1>2, <1>7, <1>8, <2>1 DEF Apart
  <2>3. task'[u].cur \notin Elements(task'[v].queue)  BY <1>2, <1>7, <1>8, <2>1 DEF Apart
  <2>4. Distinct(task'[u].queue)  BY <1>2, <1>8, <2>1 DEF Apart
  <2>5. u # v => (task'[u].cur # None => task'[u].cur # task'[v].cur)  BY <1>2, <2>1 DEF Apart
  <2> QED  BY <2>2, <2>3, <2>4, <2>5 DEF Apart
<1>11. OnlyPanicsLose'
  <2> SUFFICES ASSUME NEW n \in Msgs
               PROVE  /\ At(n, "waiting")' => \E u \in Tasks : Alive(u)' /\ n \in Held(u)'
                      /\ msg'[n].answer \in {"dropped", "gone"} => Panicked(KeyOf[n])'
    BY DEF OnlyPanicsLose
  <2>1. \A u \in Tasks : Alive(u)' <=> Alive(u)  BY <1>2 DEF Alive
  <2>2. \A u \in Tasks : Held(u)' = {task'[u].cur} \cup Elements(task'[u].queue)  BY DEF Held, Elements
  <2>3. \A u \in Tasks : Held(u) \subseteq Held(u)' /\ m \in Held(t)'
    BY <1>2, <1>8, <2>2, HeldIs
  <2>4. \A k : Panicked(k) => Panicked(k)'  BY <1>2 DEF Panicked
  <2>5. msg'[n].answer = msg[n].answer  BY <1>1, <1>3
  <2>6. CASE n = m  BY <1>0, <1>4, <2>1, <2>3, <2>4, <2>5, <2>6 DEF OnlyPanicsLose
  <2>7. CASE n # m  BY <1>0, <1>3, <2>1, <2>3, <2>4, <2>7 DEF OnlyPanicsLose, At
  <2> QED  BY <2>6, <2>7
<1> QED  BY <1>9, <1>10, <1>11 DEF Kept

\* The first of the queue is taken: the task holds what it held.
LEMMA TakeKept ==
  ASSUME Typed, Routed, Kept, NEW t \in Tasks, Take(t)
  PROVE  Kept'
<1>0. TypeOK /\ TaskShape /\ HeldWaits /\ HeldOnce /\ OnlyPanicsLose
  BY DEF Typed, Routed, Kept
<1>1. PICK r \in TaskType :
        /\ TaskIs(t, r) /\ task[t].queue # <<>>
        /\ r.state = "busy" /\ r.key = task[t].key /\ r.queue = Tail(task[t].queue)
        /\ r.cur = Head(task[t].queue) /\ r.cur \in Msgs
  BY <1>0, TakeIs
<1>2. /\ \A u \in Tasks : u # t => task'[u] = task[u]
      /\ task'[t] = r
  BY <1>0, <1>1, Ranges DEF TaskIs
<1>3. msg' = msg /\ task[t].state = "idle" /\ task[t].cur = None
  BY <1>0 DEF Take, TaskShape
<1>4. /\ Elements(task[t].queue) = Elements(r.queue) \cup {r.cur}
      /\ Distinct(task[t].queue) => Distinct(r.queue) /\ r.cur \notin Elements(r.queue)
  BY <1>0, <1>1, TailElements, Ranges DEF TaskType
<1>5. HeldWaits'
  <2> SUFFICES ASSUME NEW u \in Tasks
               PROVE  /\ task'[u].state = "busy" => msg[task'[u].cur].pc = "waiting"
                                                /\ KeyOf[task'[u].cur] = task'[u].key
                      /\ \A n \in Elements(task'[u].queue) : At(n, "waiting") /\ KeyOf[n] = task'[u].key
    BY <1>3 DEF HeldWaits, At
  <2>1. \A n \in Elements(task[u].queue) : At(n, "waiting") /\ KeyOf[n] = task[u].key
    BY <1>0 DEF HeldWaits
  <2>2. CASE u = t  BY <1>1, <1>2, <1>4, <2>1, <2>2 DEF At
  <2>3. CASE u # t  BY <1>0, <1>2, <2>1, <2>3 DEF HeldWaits, At
  <2> QED  BY <2>2, <2>3
<1>6. HeldOnce'
  <2> SUFFICES ASSUME NEW u \in Tasks, NEW v \in Tasks
               PROVE  Apart(u, v)'
    BY DEF HeldOnce
  <2>1. Apart(u, v) /\ Apart(v, u) /\ Apart(t, v) /\ Apart(u, t)  BY <1>0 DEF HeldOnce
  <2>2. u # v => Elements(task'[u].queue) \cap Elements(task'[v].queue) = {}
    BY <1>1, <1>2, <1>4, <2>1 DEF Apart
  <2>3. task'[u].cur \notin Elements(task'[v].queue)
    BY <1>1, <1>2, <1>4, <2>1 DEF Apart
  <2>4. Distinct(task'[u].queue)  BY <1>1, <1>2, <1>4, <2>1 DEF Apart
  <2>5. u # v => (task'[u].cur # None => task'[u].cur # task'[v].cur)
    BY <1>1, <1>2, <1>3, <1>4, <2>1, Ranges, <1>0 DEF Apart
  <2> QED  BY <2>2, <2>3, <2>4, <2>5 DEF Apart
<1>7. OnlyPanicsLose'
  <2> SUFFICES ASSUME NEW n \in Msgs
               PROVE  /\ At(n, "waiting") => \E u \in Tasks : Alive(u)' /\ n \in Held(u)'
                      /\ msg[n].answer \in {"dropped", "gone"} => Panicked(KeyOf[n])'
    BY <1>3 DEF OnlyPanicsLose, At
  <2>1. \A u \in Tasks : Alive(u)' <=> Alive(u)  BY <1>1, <1>2, <1>3 DEF Alive
  <2>2. \A u \in Tasks : Held(u)' = {task'[u].cur} \cup Elements(task'[u].queue)  BY DEF Held, Elements
  <2>3. \A u \in Tasks : n \in Held(u) => n \in Held(u)'
    BY <1>0, <1>1, <1>2, <1>3, <1>4, <2>2, HeldIs, Ranges
  <2>4. \A k : Panicked(k) => Panicked(k)'  BY <1>1, <1>2, <1>3 DEF Panicked
  <2> QED  BY <1>0, <2>1, <2>3, <2>4 DEF OnlyPanicsLose
<1> QED  BY <1>5, <1>6, <1>7 DEF Kept

\* What is answered was held by this task only, and once.
LEMMA ReplyKept ==
  ASSUME Typed, Routed, Kept, NEW t \in Tasks, Reply(t)
  PROVE  Kept'
<1>0. TypeOK /\ TaskShape /\ HeldWaits /\ HeldOnce /\ OnlyPanicsLose
  BY DEF Typed, Routed, Kept
<1> DEFINE c == task[t].cur
<1>1. PICK r \in TaskType :
        /\ TaskIs(t, r) /\ r.state = "idle" /\ r.key = task[t].key
        /\ r.queue = task[t].queue /\ r.cur = None /\ MsgIs(c, Answered("reply"))
  BY <1>0, ReplyIs
<1>2. /\ \A u \in Tasks : u # t => task'[u] = task[u]
      /\ task'[t] = r
  BY <1>0, <1>1, Ranges DEF TaskIs
<1>3. task[t].state = "busy" /\ c \in Msgs
  BY <1>0, Ranges DEF Reply, TaskShape, TaskType
<1>4. /\ \A n \in Msgs : n # c => msg'[n] = msg[n]
      /\ msg'[c] = Answered("reply")
  BY <1>0, <1>1, <1>3, Ranges, OneMsg, AnsweredTypes DEF Answers
<1>5. \A u \in Tasks : c \notin Elements(task[u].queue) /\ (u # t => task[u].cur # c)
  BY <1>0, <1>3, Ranges DEF HeldOnce, Apart
<1>6. \A u \in Tasks : Elements(task[u].queue) \subseteq Msgs
                      /\ (task[u].state = "busy" => task[u].cur \in Msgs)
  BY <1>0, Ranges DEF TaskType, Elements, TaskShape
<1> HIDE DEF c
<1>7. HeldWaits'
  <2> SUFFICES ASSUME NEW u \in Tasks
               PROVE  /\ task'[u].state = "busy" => msg'[task'[u].cur].pc = "waiting"
                                                /\ KeyOf[task'[u].cur] = task'[u].key
                      /\ \A n \in Elements(task'[u].queue) : msg'[n].pc = "waiting" /\ KeyOf[n] = task'[u].key
    BY DEF HeldWaits, At
  <2>1. /\ task[u].state = "busy" => At(task[u].cur, "waiting") /\ KeyOf[task[u].cur] = task[u].key
        /\ \A n \in Elements(task[u].queue) : At(n, "waiting") /\ KeyOf[n] = task[u].key
    BY <1>0 DEF HeldWaits
  <2>2. \A n \in Elements(task[u].queue) : msg'[n] = msg[n]  BY <1>4, <1>5, <1>6
  <2>3. CASE u = t  BY <1>1, <1>2, <2>1, <2>2, <2>3 DEF At
  <2>4. CASE u # t  BY <1>2, <1>4, <1>5, <1>6, <2>1, <2>2, <2>4 DEF At
  <2> QED  BY <2>3, <2>4
<1>8. HeldOnce'
  <2> SUFFICES ASSUME NEW u \in Tasks, NEW v \in Tasks
               PROVE  Apart(u, v)'
    BY DEF HeldOnce
  <2>1. Apart(u, v)  BY <1>0 DEF HeldOnce
  <2>2. \A w \in Tasks : task'[w].queue = task[w].queue /\ task'[w].cur \in {task[w].cur, None}
    BY <1>1, <1>2
  <2>3. None \notin Elements(task[v].queue)  BY <1>0, <1>6, Ranges
  <2>4. task'[u].cur \notin Elements(task'[v].queue)  BY <2>1, <2>2, <2>3 DEF Apart
  <2> QED  BY <2>1, <2>2, <2>4 DEF Apart
<1>9. OnlyPanicsLose'
  <2> SUFFICES ASSUME NEW n \in Msgs
               PROVE  /\ At(n, "waiting")' => \E u \in Tasks : Alive(u)' /\ n \in Held(u)'
                      /\ msg'[n].answer \in {"dropped", "gone"} => Panicked(KeyOf[n])'
    BY DEF OnlyPanicsLose
  <2>1. \A u \in Tasks : Alive(u)' <=> Alive(u)  BY <1>1, <1>2, <1>3 DEF Alive
  <2>2. \A u \in Tasks : Held(u)' = {task'[u].cur} \cup Elements(task'[u].queue)  BY DEF Held, Elements
  <2>3. n # c => \A u \in Tasks : n \in Held(u) => n \in Held(u)'
    BY <1>1, <1>2, <2>2, HeldIs DEF c
  <2>4. \A k : Panicked(k) => Panicked(k)'  BY <1>1, <1>2, <1>3 DEF Panicked
  <2>5. CASE n = c  BY <1>4, <2>5 DEF Answered, At
  <2>6. CASE n # c  BY <1>0, <1>4, <2>1, <2>3, <2>4, <2>6 DEF OnlyPanicsLose, At
  <2> QED  BY <2>5, <2>6
<1> QED  BY <1>7, <1>8, <1>9 DEF Kept

\* A panic drops what the task held, and nothing else.
LEMMA PanicKept ==
  ASSUME Typed, Routed, Kept, NEW t \in Tasks, Panic(t)
  PROVE  Kept'
<1>0. TypeOK /\ TaskShape /\ HeldWaits /\ HeldOnce /\ OnlyPanicsLose
  BY DEF Typed, Routed, Kept
<1>1. PICK r \in TaskType :
        /\ TaskIs(t, r) /\ r.state = "dead" /\ r.key = task[t].key /\ r.queue = <<>> /\ r.cur = None
  BY <1>0, PanicIs
<1>2. /\ \A u \in Tasks : u # t => task'[u] = task[u]
      /\ task'[t] = r
  BY <1>0, <1>1, Ranges DEF TaskIs
<1>3. task[t].state = "busy"  BY DEF Panic
<1>4. \A n \in Msgs : /\ n \in Held(t) => msg'[n] = Answered("dropped")
                      /\ n \notin Held(t) => msg'[n] = msg[n]
  BY <1>0, PanicIs
<1>5. \A u \in Tasks : Elements(task[u].queue) \subseteq Msgs
                      /\ (task[u].state = "busy" => task[u].cur \in Msgs)
  BY <1>0, Ranges DEF TaskType, Elements, TaskShape
\* The others hold nothing of it.
<1>6. ASSUME NEW u \in Tasks, u # t
      PROVE  /\ Elements(task[u].queue) \cap Held(t) = {}
             /\ task[u].state = "busy" => task[u].cur \notin Held(t)
  <2>1. Apart(u, t) /\ Apart(t, u)  BY <1>0 DEF HeldOnce
  <2>2. task[u].state = "busy" => task[u].cur # None  BY <1>0 DEF TaskShape
  <2> QED  BY <1>6, <2>1, <2>2, HeldIs DEF Apart
<1>7. HeldWaits'
  <2> SUFFICES ASSUME NEW u \in Tasks
               PROVE  /\ task'[u].state = "busy" => msg'[task'[u].cur].pc = "waiting"
                                                /\ KeyOf[task'[u].cur] = task'[u].key
                      /\ \A n \in Elements(task'[u].queue) : msg'[n].pc = "waiting" /\ KeyOf[n] = task'[u].key
    BY DEF HeldWaits, At
  <2>1. /\ task[u].state = "busy" => At(task[u].cur, "waiting") /\ KeyOf[task[u].cur] = task[u].key
        /\ \A n \in Elements(task[u].queue) : At(n, "waiting") /\ KeyOf[n] = task[u].key
    BY <1>0 DEF HeldWaits
  <2>2. CASE u = t  BY <1>1, <1>2, <2>2, NoElements
  <2>3. CASE u # t  BY <1>2, <1>4, <1>5, <1>6, <2>1, <2>3 DEF At
  <2> QED  BY <2>2, <2>3
<1>8. HeldOnce'
  <2> SUFFICES ASSUME NEW u \in Tasks, NEW v \in Tasks
               PROVE  Apart(u, v)'
    BY DEF HeldOnce
  <2>1. Apart(u, v)  BY <1>0 DEF HeldOnce
  <2>2. \A w \in Tasks : /\ task'[w].queue = task[w].queue \/ task'[w].queue = <<>>
                         /\ task'[w].cur \in {task[w].cur, None}
    BY <1>1, <1>2
  <2>3. \A w \in Tasks : Elements(task'[w].queue) \subseteq Elements(task[w].queue)
                         /\ (Distinct(task[w].queue) => Distinct(task'[w].queue))
    BY <2>2, NoElements
  <2>4. None \notin Elements(task[v].queue)  BY <1>0, <1>5, Ranges
  <2>5. task'[u].cur \notin Elements(task'[v].queue)  BY <2>1, <2>2, <2>3, <2>4 DEF Apart
  <2> QED  BY <2>1, <2>2, <2>3, <2>5 DEF Apart
<1>9. OnlyPanicsLose'
  <2> SUFFICES ASSUME NEW n \in Msgs
               PROVE  /\ At(n, "waiting")' => \E u \in Tasks : Alive(u)' /\ n \in Held(u)'
                      /\ msg'[n].answer \in {"dropped", "gone"} => Panicked(KeyOf[n])'
    BY DEF OnlyPanicsLose
  <2>1. \A u \in Tasks : u # t => (Alive(u)' <=> Alive(u)) /\ Held(u)' = Held(u)
    BY <1>2 DEF Alive, Held
  <2>2. task'[t].state = "dead" /\ task'[t].key = task[t].key  BY <1>1, <1>2
  <2>3. \A k : Panicked(k) => Panicked(k)'  BY <1>1, <1>2, <1>3 DEF Panicked
  <2>4. CASE n \in Held(t)
    <3>1. KeyOf[n] = task[t].key  BY <1>0, <1>3, <2>4, HeldIs DEF HeldWaits
    <3>2. msg'[n] = Answered("dropped")  BY <1>4, <2>4
    <3>a. Answered("dropped").pc = "answered"  BY DEF Answered
    <3>3. Panicked(KeyOf[n])'  BY <2>2, <3>1 DEF Panicked
    <3> QED  BY <3>2, <3>a, <3>3 DEF At
  <2>5. CASE n \notin Held(t)  BY <1>0, <1>4, <2>1, <2>3, <2>5 DEF OnlyPanicsLose, At
  <2> QED  BY <2>4, <2>5
<1> QED  BY <1>7, <1>8, <1>9 DEF Kept

\* A task that ends holds nothing.
LEMMA EndKept ==
  ASSUME Typed, Routed, Kept, NEW t \in Tasks, End(t)
  PROVE  Kept'
<1>0. TypeOK /\ TaskShape /\ HeldWaits /\ HeldOnce /\ OnlyPanicsLose
  BY DEF Typed, Routed, Kept
<1>1. PICK r \in TaskType : TaskIs(t, r) /\ r = [task[t] EXCEPT !.state = "ended"]
  BY <1>0, EndIs
<1>2. /\ \A u \in Tasks : u # t => task'[u] = task[u]
      /\ task'[t].state = "ended" /\ task'[t].key = task[t].key
      /\ task'[t].queue = task[t].queue /\ task'[t].cur = task[t].cur
  BY <1>0, <1>1, Ranges DEF TaskIs, TaskType
<1>3. msg' = msg /\ task[t].state = "idle" /\ task[t].queue = <<>> /\ task[t].cur = None
  BY <1>0 DEF End, TaskShape
<1>4. \A u \in Tasks : /\ task'[u].queue = task[u].queue /\ task'[u].cur = task[u].cur
                       /\ task'[u].key = task[u].key
                       /\ task'[u].state = "busy" <=> task[u].state = "busy"
                       /\ task'[u].state = "dead" <=> task[u].state = "dead"
  BY <1>2, <1>3
<1>5. HeldWaits' /\ HeldOnce'
  <2>1. HeldWaits'
    <3> SUFFICES ASSUME NEW u \in Tasks
                 PROVE  /\ task'[u].state = "busy" => msg[task'[u].cur].pc = "waiting"
                                                /\ KeyOf[task'[u].cur] = task'[u].key
                        /\ \A n \in Elements(task'[u].queue) : At(n, "waiting") /\ KeyOf[n] = task'[u].key
      BY <1>3 DEF HeldWaits, At
    <3> QED  BY <1>0, <1>4 DEF HeldWaits, At
  <2>2. ASSUME NEW u \in Tasks, NEW v \in Tasks PROVE Apart(u, v)'
    BY <1>0, <1>4 DEF HeldOnce, Apart
  <2> QED  BY <2>1, <2>2 DEF HeldOnce
<1>6. OnlyPanicsLose'
  <2> SUFFICES ASSUME NEW n \in Msgs
               PROVE  /\ At(n, "waiting") => \E u \in Tasks : Alive(u)' /\ n \in Held(u)'
                      /\ msg[n].answer \in {"dropped", "gone"} => Panicked(KeyOf[n])'
    BY <1>3 DEF OnlyPanicsLose, At
  <2>1. \A u \in Tasks : u # t => (Alive(u)' <=> Alive(u)) /\ Held(u)' = Held(u)
    BY <1>2 DEF Alive, Held
  <2>2. n \notin Held(t)  BY <1>0, <1>3, HeldIs, NoElements, Ranges
  <2>3. \A k : Panicked(k) => Panicked(k)'  BY <1>4 DEF Panicked
  <2> QED  BY <1>0, <2>1, <2>2, <2>3 DEF OnlyPanicsLose
<1> QED  BY <1>5, <1>6 DEF Kept

----------------------------------------------------------------------------
(* The theorems.                                                           *)

LEMMA InitInductive == Init => IInv
<1> SUFFICES ASSUME Init PROVE IInv  OBVIOUS
<1>1. Typed  BY InitTypes
<1>2. \A t \in Tasks : task[t].state = "unborn" /\ task[t].queue = <<>> /\ task[t].cur = None
  BY DEF Init, NoTask
<1>3. \A m \in Msgs : msg[m].pc = "new" /\ msg[m].tx = None /\ msg[m].answer = "none"
  BY DEF Init
<1>4. \A k \in Keys : sessions[k] = None  BY DEF Init
<1>5. cleaner.evicted = {}  BY DEF Init
<1>6. Routed
  BY <1>2, <1>3, <1>4, <1>5 DEF Routed, TaskShape, MapShape, TxShape, InMap, EvictedLived, Alive, Open
<1>7. HeldWaits /\ HeldOnce  BY <1>1, <1>2, NoElements, Ranges DEF HeldWaits, HeldOnce, Apart, Typed
<1>8. OnlyPanicsLose  BY <1>3 DEF OnlyPanicsLose, At
<1> QED  BY <1>1, <1>6, <1>7, <1>8 DEF IInv, Kept

LEMMA NextInductive == IInv /\ [Next]_vars => IInv'
<1> SUFFICES ASSUME Typed, Routed, Kept, [Next]_vars PROVE Typed' /\ Routed' /\ Kept'  BY DEF IInv
<1>0. TypeOK /\ TxSet /\ TaskShape  BY DEF Typed, Routed
<1>1. CASE UNCHANGED vars
  <2>1. UNCHANGED <<sessions, task, msg, cleaner, clock, cleaner.evicted>>  BY <1>1 DEF vars
  <2>2. Typed'  BY <1>0, <2>1 DEF Typed, TypeOK, TxSet, At
  <2> QED  BY <2>1, <2>2, StillRouted, StillKept
<1>2. CASE Advance
  <2>1. UNCHANGED <<sessions, task, msg, cleaner.evicted>>  BY <1>2 DEF Advance
  <2> QED  BY <1>2, <2>1, SweepTypes, StillRouted, StillKept
<1>3. CASE Sweep
  <2>1. UNCHANGED <<task, msg>>  BY <1>3 DEF Sweep, Cleanup, Visit
  <2>2. CASE Cleanup
    <3>1. UNCHANGED <<sessions, task, msg, cleaner.evicted>>  BY <1>0, <2>2, Ranges DEF Cleanup
    <3> QED  BY <1>3, <3>1, SweepTypes, StillRouted, StillKept
  <2> QED  BY <1>3, <2>1, <2>2, SweepTypes, VisitRouted, StillKept DEF Sweep
<1>4. ASSUME NEW m \in Msgs, Arrive(m) PROVE Typed' /\ Routed' /\ Kept'
  <2> DEFINE g == [msg[m] EXCEPT !.pc = "check"]
  <2>1. msg[m] \in MsgType /\ msg[m].tx = None  BY <1>0, <1>4, Ranges DEF Arrive, TxSet, At
  <2>2. g \in MsgType /\ g.tx = None /\ g.pc = "check"  BY <2>1 DEF MsgType
  <2>3. MsgIs(m, g) /\ UNCHANGED <<sessions, task, cleaner, clock>>  BY <1>4 DEF Arrive, MsgIs
  <2> HIDE DEF g
  <2>4. /\ msg' \in [Msgs -> MsgType] /\ msg'[m] = g
        /\ \A n \in Msgs : n # m => msg'[n] = msg[n]
    BY <1>0, <2>2, <2>3, Ranges, OneMsg
  <2>5. TxSet'  BY <1>0, <2>2, <2>4 DEF TxSet, At
  <2>6. TypeOK'  BY <1>0, <2>3, <2>4, TypeParts, TypesNext
  <2> QED  BY <1>4, <2>2, <2>3, <2>5, <2>6, TalkRouted, RouteKept DEF Typed
<1>5. ASSUME NEW m \in Msgs, Route(m) PROVE Typed' /\ Routed' /\ Kept'
  <2>1. Typed'  BY <1>5, RouteTypes
  <2>2. Kept'  BY <1>5, RouteKept, SendKept DEF Route
  <2>3. CASE CheckLimit(m)
    <3>1. PICK g \in {Answered("full"), [msg[m] EXCEPT !.pc = "enter"]} : g \in MsgType /\ MsgIs(m, g)
      BY <1>0, <2>3, CheckLimitIs
    <3>2. msg[m] \in MsgType /\ msg[m].tx = None  BY <1>0, <2>3, Ranges DEF CheckLimit, TxSet, At
    <3>3. g.tx = None  BY <3>2 DEF Answered, MsgType
    <3> QED  BY <2>1, <2>2, <2>3, <3>1, <3>3, TalkRouted DEF CheckLimit
  <2>4. CASE CreateFails(m)
    <3>1. MsgIs(m, Answered("error")) /\ Answered("error") \in MsgType /\ Answered("error").tx = None
      BY <2>4, AnswerIs, AnsweredTypes DEF CreateFails, Answered, Answers
    <3> QED  BY <2>1, <2>2, <2>4, <3>1, TalkRouted DEF CreateFails
  <2> QED  BY <1>5, <2>1, <2>2, <2>3, <2>4, FoundRouted, CreateRouted, SendRouted, SendFailsRouted DEF Route
<1>6. ASSUME NEW t \in Tasks, Work(t) \/ Panic(t) PROVE Typed' /\ Routed' /\ Kept'
  <2>1. Typed'  BY <1>0, <1>6, WorkTypes DEF TaskShape
  <2> QED  BY <1>6, <2>1, WorkRouted, EndRouted, TakeKept, ReplyKept, PanicKept, EndKept DEF Work
<1> QED  BY <1>1, <1>2, <1>3, <1>4, <1>5, <1>6 DEF Next

THEOREM Inductive == Spec => []IInv
<1> QED  BY InitInductive, NextInductive, PTL DEF Spec

\* A queue never holds more than the channel has room for, a clock reading never
\* passes the clock: the types of the router's state.
THEOREM TypesHold == Spec => []TypeOK
<1>1. IInv => TypeOK  BY DEF IInv, Typed
<1> QED  BY <1>1, Inductive, PTL

\* However many messages are routed at once, a chat has two agents at work only
\* when the cleanup evicted one of them or an agent of the chat panicked.
THEOREM OneAgent == Spec => []OneAtATime
<1>1. IInv => OneAtATime
  <2> SUFFICES ASSUME Routed, NEW t \in Tasks, NEW u \in Tasks, t # u,
                      task[t].state = "busy", task[u].state = "busy", task[t].key = task[u].key,
                      t \notin cleaner.evicted, u \notin cleaner.evicted, ~Panicked(task[t].key)
               PROVE  FALSE
    BY DEF IInv, OneAtATime
  <2>1. sessions[task[t].key] = t  BY DEF Routed, InMap, Alive
  <2>2. sessions[task[t].key] = u  BY DEF Routed, InMap, Alive
  <2> QED  BY <2>1, <2>2
<1> QED  BY <1>1, Inductive, PTL

\* A message that was accepted is held by a living task until it is answered, and
\* only the panic of an agent of its chat leaves it without a reply.
THEOREM NothingLost == Spec => []OnlyPanicsLose
<1>1. IInv => OnlyPanicsLose  BY DEF IInv, Kept
<1> QED  BY <1>1, Inductive, PTL

LEMMA SmallRemainder == ASSUME NEW w \in Nat, NEW i \in Nat, i < w PROVE i % w = i
OBVIOUS

\* A clock reading that the cleanup holds is not of the future.
LEMMA ReadingIsPast == Spec => [](cleaner.now <= clock)
<1>1. Init => cleaner.now <= clock  BY DEF Init
<1>2. TypeOK /\ cleaner.now <= clock /\ [Next]_vars => (cleaner.now <= clock)'
  <2> SUFFICES ASSUME TypeOK, cleaner.now <= clock, [Next]_vars PROVE cleaner'.now <= clock'
    OBVIOUS
  <2>1. /\ cleaner \in [now : 0..MaxTime, todo : SUBSET Keys, evicted : SUBSET Tasks]
        /\ clock \in Nat /\ cleaner.now \in Nat
    BY SessionAssumption DEF TypeOK
  <2>2. CASE Advance  BY <2>1, <2>2 DEF Advance
  <2>3. CASE Cleanup  BY <2>1, <2>3 DEF Cleanup
  <2>4. ASSUME NEW k \in Keys, Visit(k) PROVE cleaner'.now = cleaner.now /\ clock' = clock
    BY <2>1, <2>4 DEF Visit
  <2>5. CASE UNCHANGED vars  BY <2>5 DEF vars
  <2>6. ASSUME NEW m \in Msgs, Arrive(m) \/ Route(m) PROVE cleaner' = cleaner /\ clock' = clock
    BY <2>6 DEF Arrive, Route, CheckLimit, Found, Create, Spawn, CreateFails, Send, SendFails
  <2>7. ASSUME NEW t \in Tasks, Work(t) \/ Panic(t) PROVE cleaner' = cleaner /\ clock' = clock
    BY <2>7 DEF Work, Take, Reply, End, Panic
  <2> QED  BY <2>2, <2>3, <2>4, <2>5, <2>6, <2>7 DEF Next, Sweep
<1> QED  BY <1>1, <1>2, TypesHold, PTL DEF Spec

\* The cleanup evicts a session that was idle past the timeout, or one that was used
\* after the pass had read the clock, and no other.
THEOREM EvictionsHold == Spec => EvictsIdleOrUsed
<1>1. TypeOK /\ cleaner.now <= clock /\ [Next]_vars
        => [\A k \in Keys : Visit(k) /\ sessions'[k] # sessions[k]
                               => \/ clock - task[sessions[k]].active >= Timeout
                                  \/ task[sessions[k]].active > cleaner.now]_vars
  <2> SUFFICES ASSUME TypeOK, cleaner.now <= clock, NEW k \in Keys, Visit(k), sessions'[k] # sessions[k],
                      ~(task[sessions[k]].active > cleaner.now)
               PROVE  clock - task[sessions[k]].active >= Timeout
    OBVIOUS
  <2> DEFINE t == sessions[k]
  <2>1. Open(k) /\ Stale(t)  BY DEF Visit
  <2>2. t \in Tasks  BY <2>1 DEF Open, TypeOK
  <2>3. task[t].active \in 0..MaxTime /\ cleaner.now \in 0..MaxTime /\ clock \in 0..MaxTime
    BY <2>2, TypeParts DEF TaskType
  <2>4. /\ MaxTime \in Nat /\ Timeout \in Nat /\ Word \in Nat /\ Word > MaxTime + Timeout
    BY SessionAssumption
  <2> DEFINE idle == cleaner.now - task[t].active
  <2>5. idle \in Nat /\ idle < Word  BY <2>3, <2>4
  <2>a. Stale(t) <=> idle % Word >= Timeout  BY DEF Stale
  <2> HIDE DEF idle
  <2>6. idle % Word = idle  BY <2>4, <2>5, SmallRemainder
  <2>7. idle >= Timeout  BY <2>1, <2>6, <2>a
  <2> QED  BY <2>3, <2>4, <2>7 DEF idle
<1> QED  BY <1>1, TypesHold, ReadingIsPast, PTL DEF Spec, EvictsIdleOrUsed
=============================================================================
