-------------------------- MODULE RunHandoffsProofs --------------------------
(***************************************************************************)
(* What holds of RunHandoffs for batches of any size, any number of        *)
(* batches and crashes and any capacity of the relay, and of RunTakeover   *)
(* for chains of any length.                                               *)
(***************************************************************************)
EXTENDS MCRunReplay, FiniteSetTheorems, TLAPS

\* The conditions of the theorems: of the browser and of MCP a batch holds one call
\* each, and what a process or an action announced is stored before it acts further.
Announced == MaxBatch \in Nat /\ ~Mixed /\ RelayKeepsUp

Tools == Process \cup Browser \cup Mcp
Phases == {"todo", "spawned", "announced", "announced_mcp", "served", "acted", "answered", "stored"}
News == [about : {"nothing", "session", "runtime"}, live : BOOLEAN]

TypesOK ==
  /\ pc \in {"model", "tools", "save", "down", "review"}
  /\ batch \in Seq(Tools) /\ DOMAIN batch \subseteq Calls
  /\ phase \in [Calls -> Phases] /\ failed \subseteq Calls /\ acts \in [Calls -> Nat]
  /\ relay \in Seq(Process \cup Browser)
  /\ last \in [Families -> [tool : Tools \cup {"none"}, young : BOOLEAN]]
  /\ sessionCp \in BOOLEAN /\ runtimeCp \in BOOLEAN /\ pending \in [Calls -> News]
  /\ seen \in [active : BOOLEAN, unresolved : BOOLEAN]
  /\ session \in BOOLEAN /\ subscribed \in BOOLEAN
  /\ believes \in [session : BOOLEAN, subscribed : BOOLEAN] /\ saved \in Nat

\* The events, stored or on their way, know of a call of the family.
Noted(f) == last[f].young \/ \E k \in DOMAIN relay : Family(relay[k]) = f

\* They know of no call that the batch does not hold.
NotesOK ==
  /\ \A f \in Families : last[f].young =>
       \E j \in DOMAIN batch : batch[j] = last[f].tool /\ Family(batch[j]) = f
  /\ \A k \in DOMAIN relay : \E j \in DOMAIN batch : batch[j] = relay[k]
  /\ pc \in {"model", "down", "review"} => relay = <<>>

Alone == \A i, j \in DOMAIN batch : i # j /\ Family(batch[i]) = Family(batch[j]) => batch[i] \in Process
BatchOK ==
  /\ Alone
  /\ pc = "model" => batch = <<>>
  /\ \A i \in Calls \ DOMAIN batch : phase[i] = "todo" /\ acts[i] = 0 /\ i \notin failed
  /\ pc \in {"down", "review"} => \A i \in Calls : phase[i] # "spawned"

\* A call that may have acted, or whose success may be believed, is known.
CallOK(i) ==
  /\ phase[i] = "spawned" => batch[i] \in Process
  /\ phase[i] = "announced" => batch[i] \in Browser
  /\ phase[i] = "acted" => batch[i] \in Process \cup Browser
  /\ phase[i] \in {"announced_mcp", "served"} => batch[i] \in Mcp
  /\ acts[i] \in 0..1
  /\ acts[i] = 1 => batch[i] \in Effects
  /\ phase[i] \in {"todo", "announced", "announced_mcp"} => acts[i] = 0
  /\ phase[i] \in {"todo", "announced"} => i \notin failed
  /\ \/ phase[i] \in {"announced", "announced_mcp", "acted", "served"}
     \/ phase[i] = "answered" /\ (i \notin failed \/ acts[i] = 1)
     => Noted(Family(batch[i]))

HandoffInv == TypesOK /\ NotesOK /\ BatchOK /\ \A i \in DOMAIN batch : CallOK(i)

\* While the process lives the checkpoint of a successful call waits for its result.
NewsOK(i) ==
  /\ i \notin failed /\ batch[i] \in Browser /\ phase[i] \in {"acted", "answered"} =>
       pending[i].about = "session" /\ (batch[i] # "close" => pending[i].live)
  /\ i \notin failed /\ batch[i] = "subscribe" /\ phase[i] = "answered" =>
       pending[i].about = "runtime" /\ pending[i].live
  /\ pending[i].about = "session" => /\ batch[i] \in Browser /\ i \notin failed
                                     /\ phase[i] \in {"acted", "answered", "stored"}
                                     /\ ~pending[i].live => batch[i] = "close"
  /\ pending[i].about = "runtime" => /\ batch[i] \in Mcp /\ phase[i] \in {"answered", "stored"}
                                     /\ ~pending[i].live => batch[i] = "unsubscribe" /\ i \notin failed

PendingOK ==
  /\ \A i \in Calls \ DOMAIN batch : pending[i].about = "nothing"
  /\ pc \in {"down", "review"} => \A i \in Calls : pending[i].about = "nothing"
  /\ pc \in {"tools", "save"} => \A i \in DOMAIN batch : NewsOK(i)

\* Results are stored in the order of the calls, each before its checkpoint.
SavedOK ==
  /\ saved <= Len(batch)
  /\ \A i \in DOMAIN batch :
       /\ i <= saved => phase[i] = "stored" /\ pending[i].about = "nothing"
       /\ phase[i] = "stored" => i <= saved + 1

\* The result that is stored, and whose checkpoint is not.
Between(i, about) ==
  /\ pc \in {"save", "down", "review"} /\ i = saved + 1 /\ phase[i] = "stored"
  /\ Noted(Family(batch[i]))
  /\ pc = "save" => pending[i].about = about /\ pending[i].live

BeliefsOK ==
  /\ believes.session =>
       sessionCp \/ \E i \in DOMAIN batch : Between(i, "session") /\ batch[i] \in Browser \ {"close"}
  /\ believes.subscribed =>
       runtimeCp \/ \E i \in DOMAIN batch : Between(i, "runtime") /\ batch[i] = "subscribe"
  /\ \A i \in DOMAIN batch : phase[i] = "stored" /\ ~pending[i].live =>
       /\ pending[i].about = "session" => ~believes.session
       /\ pending[i].about = "runtime" => ~believes.subscribed

NewsInv == HandoffInv /\ PendingOK /\ SavedOK /\ BeliefsOK

-----------------------------------------------------------------------------
(* The events and the calls of a batch *)

LEMMA FamilyType == \A t : Family(t) \in Families
  BY DEF Family, Families

LEMMA InitHolds == Announced /\ Init => NewsInv
<1> SUFFICES ASSUME Announced, Init PROVE NewsInv
  OBVIOUS
<1> USE DEF Init
<1>1. DOMAIN batch = {} /\ Len(relay) = 0 /\ DOMAIN relay = {}
  OBVIOUS
<1>2. TypesOK
  <2>1. /\ last \in [Families -> [tool : Tools \cup {"none"}, young : BOOLEAN]]
        /\ pending \in [Calls -> News] /\ phase \in [Calls -> Phases] /\ acts \in [Calls -> Nat]
    BY DEF Tools, Phases, News, NoMilestone, NoNews
  <2>2. /\ seen \in [active : BOOLEAN, unresolved : BOOLEAN]
        /\ believes \in [session : BOOLEAN, subscribed : BOOLEAN]
    OBVIOUS
  <2>3. batch \in Seq(Tools) /\ DOMAIN batch \subseteq Calls /\ relay \in Seq(Process \cup Browser)
    BY <1>1
  <2> QED
    BY <2>1, <2>2, <2>3 DEF TypesOK
<1>3. NotesOK /\ BatchOK
  BY <1>1 DEF NotesOK, BatchOK, Alone, NoMilestone
<1>4. BeliefsOK /\ \A i \in Calls : pending[i].about = "nothing"
  BY <1>1 DEF BeliefsOK, NoNews
<1> QED
  BY <1>1, <1>2, <1>3, <1>4 DEF NewsInv, HandoffInv, PendingOK, SavedOK

\* A delta that is sent is known of, and nothing is forgotten.
LEMMA EmitNotes ==
  ASSUME TypesOK, NotesOK, NEW i \in DOMAIN batch, batch[i] \in Process \cup Browser,
         Emit(i), last' = last, batch' = batch, pc = "tools", pc' = pc
  PROVE  /\ relay' \in Seq(Process \cup Browser) /\ NotesOK'
         /\ \A f \in Families : Noted(f) => Noted(f)'
         /\ Noted(Family(batch[i]))'
<1> DEFINE n == Len(relay)
<1>1. /\ relay' = Append(relay, batch[i]) /\ relay \in Seq(Process \cup Browser) /\ n \in Nat
  BY DEF Emit, TypesOK
<1>2. /\ relay' \in Seq(Process \cup Browser) /\ DOMAIN relay' = 1..(n + 1) /\ DOMAIN relay = 1..n
      /\ relay'[n + 1] = batch[i] /\ \A k \in 1..n : relay'[k] = relay[k]
  BY <1>1
<1>3. n + 1 \in DOMAIN relay' /\ \A k \in DOMAIN relay : k \in DOMAIN relay' /\ relay'[k] = relay[k]
  BY <1>1, <1>2
<1>4. \A k \in DOMAIN relay' : k \in DOMAIN relay \/ k = n + 1
  BY <1>1, <1>2
<1> HIDE DEF n
<1>5. \A f \in Families : Noted(f) => Noted(f)'
  BY <1>3 DEF Noted
<1>6. Noted(Family(batch[i]))'
  BY <1>2, <1>3 DEF Noted
<1>7. NotesOK'
  BY <1>2, <1>3, <1>4 DEF NotesOK
<1> QED
  BY <1>2, <1>5, <1>6, <1>7

LEMMA CallStays ==
  ASSUME NEW j \in DOMAIN batch, CallOK(j), batch' = batch, phase'[j] = phase[j],
         acts'[j] = acts[j], j \in failed' <=> j \in failed,
         \A f \in Families : Noted(f) => Noted(f)'
  PROVE  CallOK(j)'
<1>1. Noted(Family(batch[j])) => Noted(Family(batch[j]))'
  <2>1. Family(batch[j]) \in Families
    BY FamilyType
  <2>2. PICK f \in Families : f = Family(batch[j])
    BY <2>1
  <2>3. f = Family(batch'[j])
    BY <2>2
  <2> QED
    BY <2>2, <2>3 DEF Noted
<1> QED
  BY <1>1 DEF CallOK

\* A step of one call leaves the others alone.
LEMMA CallMoves ==
  ASSUME HandoffInv, NEW i \in Calls, i \in DOMAIN batch, pc \in {"tools", "save"}, pc' = pc, batch' = batch,
         NEW CONSTANT p \in Phases, Advance(i, p), TypesOK', NotesOK',
         \A f \in Families : Noted(f) => Noted(f)',
         \A j \in Calls \ {i} : acts'[j] = acts[j] /\ (j \in failed' <=> j \in failed),
         CallOK(i)'
  PROVE  HandoffInv'
<1>1. /\ phase' = [phase EXCEPT ![i] = p] /\ phase \in [Calls -> Phases] /\ DOMAIN batch \subseteq Calls
  BY DEF Advance, HandoffInv, TypesOK
<1>2. \A j \in Calls \ {i} : phase'[j] = phase[j]
  BY <1>1
<1>3. ASSUME NEW j \in DOMAIN batch' PROVE CallOK(j)'
  <2>1. CASE j = i
    BY <2>1
  <2>2. CASE j # i
    BY <1>1, <1>2, <2>2, CallStays DEF HandoffInv
  <2> QED
    BY <2>1, <2>2
<1>4. BatchOK'
  BY <1>1, <1>2 DEF HandoffInv, BatchOK, Alone
<1> QED
  BY <1>3, <1>4 DEF HandoffInv

\* What CanStep finds.
LEMMA StepFinds ==
  ASSUME TypesOK, NEW i \in Calls, NEW p, CanStep(i, p)
  PROVE  /\ i \in DOMAIN batch /\ batch[i] \in Tools /\ phase[i] = p /\ pc = "tools"
         /\ phase \in [Calls -> Phases] /\ acts \in [Calls -> Nat] /\ DOMAIN batch \subseteq Calls
  BY DEF CanStep, TypesOK

-----------------------------------------------------------------------------
(* The steps of a call *)

LEMMA SpawnHandoff == ASSUME HandoffInv, NEW i \in Calls, Spawn(i) PROVE HandoffInv'
<1> USE DEF Spawn
<1>1. /\ i \in DOMAIN batch /\ batch[i] \in Process /\ phase[i] = "todo" /\ pc = "tools" /\ acts[i] = 0
      /\ phase \in [Calls -> Phases] /\ acts \in [Calls -> Nat] /\ CallOK(i)
  BY StepFinds DEF HandoffInv, CallOK
<1>2. acts' \in [Calls -> Nat] /\ acts'[i] \in 0..1 /\ \A j \in Calls \ {i} : acts'[j] = acts[j]
  BY <1>1 DEF Acted
<1>3. phase' \in [Calls -> Phases] /\ phase'[i] = "spawned"
  BY <1>1 DEF Advance, Phases
<1>4. TypesOK'
  BY <1>2, <1>3 DEF HandoffInv, TypesOK, storeVars, worldVars
<1>5. NotesOK' /\ \A f \in Families : Noted(f) => Noted(f)'
  BY DEF HandoffInv, NotesOK, Noted, storeVars
<1>6. CallOK(i)'
  BY <1>1, <1>2, <1>3 DEF CallOK, Process, Effects
<1> QED
  BY <1>1, <1>2, <1>4, <1>5, <1>6, CallMoves DEF Phases

LEMMA AnnounceProcessHandoff == ASSUME HandoffInv, NEW i \in Calls, AnnounceProcess(i) PROVE HandoffInv'
<1> USE DEF AnnounceProcess
<1>1. /\ i \in DOMAIN batch /\ batch[i] \in Process /\ phase[i] = "spawned" /\ pc = "tools"
      /\ phase \in [Calls -> Phases] /\ CallOK(i)
  BY StepFinds DEF HandoffInv, CallOK
<1>2. /\ relay' \in Seq(Process \cup Browser) /\ NotesOK' /\ \A f \in Families : Noted(f) => Noted(f)'
      /\ Noted(Family(batch[i]))'
  BY <1>1, EmitNotes DEF HandoffInv, storeVars
<1>3. phase' \in [Calls -> Phases] /\ phase'[i] = "acted"
  BY <1>1 DEF Advance, Phases
<1>4. TypesOK'
  BY <1>2, <1>3 DEF HandoffInv, TypesOK, storeVars, worldVars
<1>6. CallOK(i)'
  BY <1>1, <1>2, <1>3 DEF CallOK
<1> QED
  BY <1>1, <1>2, <1>4, <1>6, CallMoves DEF Phases

LEMMA ProcessEndsHandoff == ASSUME HandoffInv, NEW i \in Calls, ProcessEnds(i) PROVE HandoffInv'
<1> USE DEF ProcessEnds
<1>1. /\ i \in DOMAIN batch /\ batch[i] \in Process /\ phase[i] = "acted" /\ pc = "tools"
      /\ phase \in [Calls -> Phases] /\ CallOK(i)
  BY StepFinds DEF HandoffInv, CallOK
<1>2. /\ relay' \in Seq(Process \cup Browser) /\ NotesOK' /\ \A f \in Families : Noted(f) => Noted(f)'
      /\ Noted(Family(batch[i]))'
  BY <1>1, EmitNotes DEF HandoffInv, storeVars
<1>3. phase' \in [Calls -> Phases] /\ phase'[i] = "answered"
  BY <1>1 DEF Advance, Phases
<1>4. TypesOK'
  BY <1>2, <1>3 DEF HandoffInv, TypesOK, storeVars, worldVars
<1>6. CallOK(i)'
  BY <1>1, <1>2, <1>3 DEF CallOK
<1> QED
  BY <1>1, <1>2, <1>4, <1>6, CallMoves DEF Phases

LEMMA AnnounceActionHandoff == ASSUME HandoffInv, NEW i \in Calls, AnnounceAction(i) PROVE HandoffInv'
<1> USE DEF AnnounceAction
<1>1. /\ i \in DOMAIN batch /\ batch[i] \in Browser /\ phase[i] = "todo" /\ pc = "tools"
      /\ phase \in [Calls -> Phases] /\ CallOK(i)
  BY StepFinds DEF HandoffInv, CallOK
<1>2. /\ relay' \in Seq(Process \cup Browser) /\ NotesOK' /\ \A f \in Families : Noted(f) => Noted(f)'
      /\ Noted(Family(batch[i]))'
  BY <1>1, EmitNotes DEF HandoffInv, storeVars
<1>3. phase' \in [Calls -> Phases] /\ phase'[i] = "announced"
  BY <1>1 DEF Advance, Phases
<1>4. TypesOK'
  BY <1>2, <1>3 DEF HandoffInv, TypesOK, storeVars
<1>6. CallOK(i)'
  BY <1>1, <1>2, <1>3 DEF CallOK
<1> QED
  BY <1>1, <1>2, <1>4, <1>6, CallMoves DEF Phases

LEMMA LaunchFailsHandoff == ASSUME HandoffInv, NEW i \in Calls, LaunchFails(i) PROVE HandoffInv'
<1> USE DEF LaunchFails
<1>1. /\ i \in DOMAIN batch /\ phase[i] = "todo" /\ pc = "tools" /\ acts[i] = 0
      /\ phase \in [Calls -> Phases] /\ CallOK(i)
  BY StepFinds DEF HandoffInv, CallOK
<1>3. phase' \in [Calls -> Phases] /\ phase'[i] = "answered"
  BY <1>1 DEF Advance, Phases
<1>4. TypesOK'
  BY <1>3 DEF HandoffInv, TypesOK, storeVars, worldVars
<1>5. NotesOK' /\ \A f \in Families : Noted(f) => Noted(f)'
  BY DEF HandoffInv, NotesOK, Noted, storeVars
<1>6. CallOK(i)'
  BY <1>1, <1>3 DEF CallOK
<1> QED
  BY <1>1, <1>4, <1>5, <1>6, CallMoves DEF Phases

LEMMA ActHandoff == ASSUME HandoffInv, NEW i \in Calls, Act(i) PROVE HandoffInv'
<1> USE DEF Act
<1>1. /\ i \in DOMAIN batch /\ batch[i] \in Browser /\ phase[i] = "announced" /\ pc = "tools" /\ acts[i] = 0
      /\ phase \in [Calls -> Phases] /\ acts \in [Calls -> Nat] /\ CallOK(i)
      /\ Noted(Family(batch[i])) /\ failed \subseteq Calls /\ pending \in [Calls -> News]
  BY StepFinds DEF HandoffInv, CallOK, TypesOK
<1>2. /\ acts' \in [Calls -> Nat] /\ acts'[i] \in 0..1 /\ (acts'[i] = 1 => batch[i] \in Effects)
      /\ \A j \in Calls \ {i} : acts'[j] = acts[j]
  BY <1>1 DEF Acted
<1>3. phase' \in [Calls -> Phases] /\ phase'[i] = "acted"
  BY <1>1 DEF Advance, Phases
<1>4. /\ failed' \subseteq Calls /\ pending' \in [Calls -> News] /\ session' \in BOOLEAN
      /\ \A j \in Calls \ {i} : j \in failed' <=> j \in failed
  <2>1. CASE failed' = failed \cup {i} /\ UNCHANGED <<session, pending>>
    BY <1>1, <2>1 DEF HandoffInv, TypesOK
  <2>2. CASE /\ session' = (batch[i] # "close") /\ UNCHANGED failed
             /\ pending' = [pending EXCEPT ![i] =
                  [about |-> "session", live |-> ~(batch[i] = "close" /\ session)]]
    BY <1>1, <2>2 DEF HandoffInv, TypesOK, News
  <2> QED
    BY <2>1, <2>2
<1>5. TypesOK'
  BY <1>2, <1>3, <1>4 DEF HandoffInv, TypesOK, storeVars
<1>6. NotesOK' /\ \A f \in Families : Noted(f) => Noted(f)'
  BY DEF HandoffInv, NotesOK, Noted, storeVars
<1>7. Noted(Family(batch[i]))'
  BY <1>1 DEF Noted, storeVars
<1>8. CallOK(i)'
  BY <1>1, <1>2, <1>3, <1>7 DEF CallOK
<1> QED
  BY <1>1, <1>2, <1>4, <1>5, <1>6, <1>8, CallMoves DEF Phases

LEMMA ActionEndsHandoff == ASSUME HandoffInv, NEW i \in Calls, ActionEnds(i) PROVE HandoffInv'
<1> USE DEF ActionEnds
<1>1. /\ i \in DOMAIN batch /\ batch[i] \in Browser /\ phase[i] = "acted" /\ pc = "tools"
      /\ phase \in [Calls -> Phases] /\ CallOK(i)
  BY StepFinds DEF HandoffInv, CallOK
<1>2. /\ relay' \in Seq(Process \cup Browser) /\ NotesOK' /\ \A f \in Families : Noted(f) => Noted(f)'
      /\ Noted(Family(batch[i]))'
  BY <1>1, EmitNotes DEF HandoffInv, storeVars
<1>3. phase' \in [Calls -> Phases] /\ phase'[i] = "answered"
  BY <1>1 DEF Advance, Phases
<1>4. TypesOK'
  BY <1>2, <1>3 DEF HandoffInv, TypesOK, storeVars, worldVars
<1>6. CallOK(i)'
  BY <1>1, <1>2, <1>3 DEF CallOK
<1> QED
  BY <1>1, <1>2, <1>4, <1>6, CallMoves DEF Phases

\* The observer's milestone takes the place of the one before.
LEMMA ObserverNotes ==
  ASSUME TypesOK, NotesOK, NEW i \in DOMAIN batch, batch[i] \in Mcp, pc = "tools", pc' = pc,
         last' = [last EXCEPT !["mcp"] = Milestone(batch[i])], relay' = relay, batch' = batch
  PROVE  /\ last' \in [Families -> [tool : Tools \cup {"none"}, young : BOOLEAN]] /\ NotesOK'
         /\ \A f \in Families : Noted(f) => Noted(f)'
         /\ Noted(Family(batch[i]))'
<1>1. /\ Family(batch[i]) = "mcp" /\ "mcp" \in Families
      /\ last \in [Families -> [tool : Tools \cup {"none"}, young : BOOLEAN]]
      /\ Milestone(batch[i]) \in [tool : Tools \cup {"none"}, young : BOOLEAN]
      /\ Milestone(batch[i]).young /\ Milestone(batch[i]).tool = batch[i]
  BY DEF Family, Mcp, Process, Browser, Families, TypesOK, Milestone, Tools
<1>2. /\ last'["mcp"] = Milestone(batch[i]) /\ \A f \in Families \ {"mcp"} : last'[f] = last[f]
      /\ last' \in [Families -> [tool : Tools \cup {"none"}, young : BOOLEAN]]
  BY <1>1
<1>3. \A f \in Families : Noted(f) => Noted(f)'
  BY <1>1, <1>2 DEF Noted
<1>4. Noted(Family(batch[i]))'
  BY <1>1, <1>2 DEF Noted
<1>5. NotesOK'
  BY <1>1, <1>2 DEF NotesOK
<1> QED
  BY <1>2, <1>3, <1>4, <1>5

LEMMA CallMcpHandoff == ASSUME HandoffInv, NEW i \in Calls, CallMcp(i) PROVE HandoffInv'
<1> USE DEF CallMcp
<1>1. /\ i \in DOMAIN batch /\ batch[i] \in Mcp /\ phase[i] = "todo" /\ pc = "tools"
      /\ phase \in [Calls -> Phases] /\ CallOK(i)
  BY StepFinds DEF HandoffInv, CallOK
<1>2. /\ last' \in [Families -> [tool : Tools \cup {"none"}, young : BOOLEAN]] /\ NotesOK'
      /\ \A f \in Families : Noted(f) => Noted(f)'
      /\ Noted(Family(batch[i]))'
  BY <1>1, ObserverNotes DEF HandoffInv
<1>3. phase' \in [Calls -> Phases] /\ phase'[i] = "announced_mcp"
  BY <1>1 DEF Advance, Phases
<1>4. TypesOK'
  BY <1>2, <1>3 DEF HandoffInv, TypesOK, worldVars
<1>6. CallOK(i)'
  BY <1>1, <1>2, <1>3 DEF CallOK
<1> QED
  BY <1>1, <1>2, <1>4, <1>6, CallMoves DEF Phases

LEMMA ServeMcpHandoff == ASSUME HandoffInv, NEW i \in Calls, ServeMcp(i) PROVE HandoffInv'
<1> USE DEF ServeMcp
<1>1. /\ i \in DOMAIN batch /\ batch[i] \in Mcp /\ phase[i] = "announced_mcp" /\ pc = "tools" /\ acts[i] = 0
      /\ phase \in [Calls -> Phases] /\ acts \in [Calls -> Nat] /\ CallOK(i)
      /\ Noted(Family(batch[i])) /\ failed \subseteq Calls /\ subscribed \in BOOLEAN
  BY StepFinds DEF HandoffInv, CallOK, TypesOK
<1>2. /\ acts' \in [Calls -> Nat] /\ acts'[i] \in 0..1 /\ (acts'[i] = 1 => batch[i] \in Effects)
      /\ \A j \in Calls \ {i} : acts'[j] = acts[j]
  <2>1. CASE Acted(i)
    BY <1>1, <2>1 DEF Acted
  <2>2. CASE acts' = acts
    BY <1>1, <2>2
  <2> QED
    BY <2>1, <2>2
<1>3. phase' \in [Calls -> Phases] /\ phase'[i] = "served"
  BY <1>1 DEF Advance, Phases
<1>4. /\ failed' \subseteq Calls /\ subscribed' \in BOOLEAN
      /\ \A j \in Calls \ {i} : j \in failed' <=> j \in failed
  BY <1>1
<1>5. TypesOK'
  BY <1>2, <1>3, <1>4 DEF HandoffInv, TypesOK, storeVars
<1>6. NotesOK' /\ \A f \in Families : Noted(f) => Noted(f)'
  BY DEF HandoffInv, NotesOK, Noted, storeVars
<1>7. Noted(Family(batch[i]))'
  BY <1>1 DEF Noted, storeVars
<1>8. CallOK(i)'
  BY <1>1, <1>2, <1>3, <1>7 DEF CallOK
<1> QED
  BY <1>1, <1>2, <1>4, <1>5, <1>6, <1>8, CallMoves DEF Phases

LEMMA McpEndsHandoff == ASSUME HandoffInv, NEW i \in Calls, McpEnds(i) PROVE HandoffInv'
<1> USE DEF McpEnds
<1>1. /\ i \in DOMAIN batch /\ batch[i] \in Mcp /\ phase[i] = "served" /\ pc = "tools"
      /\ phase \in [Calls -> Phases] /\ CallOK(i) /\ pending \in [Calls -> News]
      /\ seen \in [active : BOOLEAN, unresolved : BOOLEAN]
  BY StepFinds DEF HandoffInv, CallOK, TypesOK
<1>2. /\ last' \in [Families -> [tool : Tools \cup {"none"}, young : BOOLEAN]] /\ NotesOK'
      /\ \A f \in Families : Noted(f) => Noted(f)'
      /\ Noted(Family(batch[i]))'
  BY <1>1, ObserverNotes DEF HandoffInv
<1>3. phase' \in [Calls -> Phases] /\ phase'[i] = "answered"
  BY <1>1 DEF Advance, Phases
<1>4. seen' \in [active : BOOLEAN, unresolved : BOOLEAN]
  BY <1>1 DEF SeenAfter
<1>5. pending' \in [Calls -> News]
  <2>1. [about |-> "runtime", live |-> seen'.active \/ seen'.unresolved] \in News
    BY DEF News
  <2> QED
    BY <1>1, <2>1
<1>6. TypesOK'
  BY <1>2, <1>3, <1>4, <1>5 DEF HandoffInv, TypesOK, worldVars
<1>7. CallOK(i)'
  BY <1>1, <1>2, <1>3 DEF CallOK
<1> QED
  BY <1>1, <1>2, <1>6, <1>7, CallMoves DEF Phases

-----------------------------------------------------------------------------
(* The relay and the agent *)

LEMMA RelayHandoff == ASSUME HandoffInv, Relay
                      PROVE  HandoffInv' /\ \A f \in Families : Noted(f) => Noted(f)'
<1> USE DEF Relay, agentVars, worldVars
<1> DEFINE h == Head(relay)
<1>1. /\ relay \in Seq(Process \cup Browser) /\ relay # <<>> /\ Len(relay) \in Nat \ {0}
      /\ h = relay[1] /\ h \in Process \cup Browser /\ 1 \in DOMAIN relay
      /\ relay' \in Seq(Process \cup Browser) /\ DOMAIN relay' = 1..(Len(relay) - 1)
      /\ \A k \in DOMAIN relay' : k + 1 \in DOMAIN relay /\ relay'[k] = relay[k + 1]
  BY DEF HandoffInv, TypesOK
<1>2. \A k \in DOMAIN relay : k = 1 \/ (k - 1 \in DOMAIN relay' /\ relay'[k - 1] = relay[k])
  BY <1>1
<1>3. /\ Family(h) \in Families /\ Milestone(h).young /\ Milestone(h).tool = h
      /\ Milestone(h) \in [tool : Tools \cup {"none"}, young : BOOLEAN]
      /\ last \in [Families -> [tool : Tools \cup {"none"}, young : BOOLEAN]]
  BY <1>1, FamilyType DEF Milestone, Tools, HandoffInv, TypesOK
<1>4. last' = [last EXCEPT ![Family(h)] = Milestone(h)]
  OBVIOUS
<1> HIDE DEF h
<1>5. /\ last' \in [Families -> [tool : Tools \cup {"none"}, young : BOOLEAN]]
      /\ last'[Family(h)] = Milestone(h) /\ \A f \in Families \ {Family(h)} : last'[f] = last[f]
  BY <1>3, <1>4
<1>6. \A f \in Families : Noted(f) => Noted(f)'
  <2> SUFFICES ASSUME NEW f \in Families, Noted(f) PROVE Noted(f)'
    OBVIOUS
  <2>1. CASE f = Family(h)
    BY <1>3, <1>5, <2>1 DEF Noted
  <2>2. CASE f # Family(h) /\ last[f].young
    BY <1>5, <2>2 DEF Noted
  <2>3. CASE f # Family(h) /\ ~last[f].young
    <3>1. PICK k \in DOMAIN relay : Family(relay[k]) = f
      BY <2>3 DEF Noted
    <3>2. k - 1 \in DOMAIN relay' /\ Family(relay'[k - 1]) = f
      BY <1>1, <1>2, <2>3, <3>1
    <3> QED
      BY <3>2 DEF Noted
  <2> QED
    BY <2>1, <2>2, <2>3
<1>7. PICK d \in DOMAIN batch : batch[d] = h
  BY <1>1 DEF HandoffInv, NotesOK
<1>8. NotesOK'
  BY <1>1, <1>3, <1>5, <1>7 DEF HandoffInv, NotesOK
<1>9. TypesOK'
  BY <1>1, <1>5 DEF HandoffInv, TypesOK
<1>10. \A j \in DOMAIN batch' : CallOK(j)'
  BY <1>6, CallStays DEF HandoffInv
<1>11. BatchOK'
  BY DEF HandoffInv, BatchOK, Alone
<1> QED
  BY <1>6, <1>8, <1>9, <1>10, <1>11 DEF HandoffInv

LEMMA AllAnsweredHandoff == ASSUME HandoffInv, AllAnswered PROVE HandoffInv'
<1> USE DEF AllAnswered, agentVars, storeVars, worldVars
<1>1. TypesOK' /\ NotesOK' /\ BatchOK'
  BY DEF HandoffInv, TypesOK, NotesOK, BatchOK, Alone
<1>2. \A f \in Families : Noted(f) => Noted(f)'
  BY DEF Noted
<1>3. \A j \in DOMAIN batch' : CallOK(j)'
  BY <1>2, CallStays DEF HandoffInv
<1> QED
  BY <1>1, <1>3 DEF HandoffInv

LEMMA SaveResultHandoff == ASSUME HandoffInv, SaveResult PROVE HandoffInv'
<1> USE DEF SaveResult
<1>1. saved + 1 \in Calls /\ saved + 1 \in DOMAIN batch
  BY DEF HandoffInv, TypesOK
<1>2. PICK i \in Calls : i = saved + 1
  BY <1>1
<1>3. /\ i \in DOMAIN batch /\ phase[i] = "answered" /\ pc = "save"
      /\ phase \in [Calls -> Phases] /\ CallOK(i)
  BY <1>1, <1>2 DEF HandoffInv, TypesOK
<1>4. /\ Advance(i, "stored") /\ phase' \in [Calls -> Phases] /\ phase'[i] = "stored"
  BY <1>2, <1>3 DEF Advance, Phases
<1>5. believes' \in [session : BOOLEAN, subscribed : BOOLEAN]
  BY DEF HandoffInv, TypesOK, Believed
<1>6. TypesOK'
  BY <1>4, <1>5 DEF HandoffInv, TypesOK, worldVars
<1>7. NotesOK' /\ \A f \in Families : Noted(f) => Noted(f)'
  BY DEF HandoffInv, NotesOK, Noted
<1>8. CallOK(i)'
  BY <1>3, <1>4 DEF CallOK
<1> QED
  BY <1>3, <1>4, <1>6, <1>7, <1>8, CallMoves DEF Phases

LEMMA SaveNewsHandoff == ASSUME HandoffInv, SaveNews PROVE HandoffInv'
<1> USE DEF SaveNews, agentVars, worldVars
<1>1. saved' \in Nat /\ sessionCp' \in BOOLEAN /\ runtimeCp' \in BOOLEAN /\ pending' \in [Calls -> News]
  <2>1. /\ saved \in Nat /\ saved + 1 \in Calls /\ pending \in [Calls -> News]
        /\ sessionCp \in BOOLEAN /\ runtimeCp \in BOOLEAN
    BY DEF HandoffInv, TypesOK
  <2>2. pending[saved + 1].live \in BOOLEAN /\ NoNews \in News
    BY <2>1 DEF News, NoNews
  <2> QED
    BY <2>1, <2>2
<1>2. TypesOK'
  BY <1>1 DEF HandoffInv, TypesOK
<1>3. NotesOK' /\ BatchOK'
  BY DEF HandoffInv, NotesOK, BatchOK, Alone
<1>4. \A f \in Families : Noted(f) => Noted(f)'
  BY DEF Noted
<1>5. \A j \in DOMAIN batch' : CallOK(j)'
  BY <1>4, CallStays DEF HandoffInv
<1> QED
  BY <1>2, <1>3, <1>5 DEF HandoffInv

LEMMA ClosedType ==
  ASSUME TypesOK
  PROVE  /\ Closed \in [Families -> [tool : Tools \cup {"none"}, young : BOOLEAN]]
         /\ \A f \in Families : ~Closed[f].young
  BY DEF TypesOK, Closed

LEMMA CheckpointHandoff == ASSUME HandoffInv, Announced, ContinuationCheckpoint PROVE HandoffInv'
<1> USE DEF ContinuationCheckpoint, NoCalls
<1>1. batch' = <<>> /\ relay = <<>> /\ relay' = <<>> /\ DOMAIN batch' = {} /\ DOMAIN relay' = {}
  BY DEF Announced
<1>2. /\ last' \in [Families -> [tool : Tools \cup {"none"}, young : BOOLEAN]]
      /\ \A f \in Families : ~last'[f].young
  BY ClosedType DEF HandoffInv
<1>3. phase' \in [Calls -> Phases] /\ acts' \in [Calls -> Nat] /\ batch' \in Seq(Tools)
  BY <1>1 DEF Phases
<1>4. TypesOK'
  BY <1>1, <1>2, <1>3 DEF HandoffInv, TypesOK, worldVars
<1>5. NotesOK' /\ BatchOK'
  BY <1>1, <1>2 DEF NotesOK, BatchOK, Alone
<1> QED
  BY <1>1, <1>4, <1>5 DEF HandoffInv

LEMMA RespondHandoff == ASSUME HandoffInv, Announced, Respond PROVE HandoffInv'
<1> USE DEF Respond
<1>1. PICK n \in 1..MaxBatch : \E b \in [1..n -> Tools] :
        /\ Mixed \/ \A i, j \in 1..n : i # j /\ Family(b[i]) = Family(b[j]) => b[i] \in Process
        /\ batch' = b
  BY DEF Tools
<1>2. /\ DOMAIN batch' = 1..n /\ batch' \in [1..n -> Tools] /\ n \in Nat /\ 1..n \subseteq Calls
      /\ \A i, j \in 1..n : i # j /\ Family(batch'[i]) = Family(batch'[j]) => batch'[i] \in Process
  BY <1>1 DEF Announced, Calls
<1>3. batch' \in Seq(Tools)
  BY <1>2
<1>4. /\ last' \in [Families -> [tool : Tools \cup {"none"}, young : BOOLEAN]]
      /\ \A f \in Families : ~last'[f].young
  BY ClosedType DEF HandoffInv
<1>5. relay' = <<>> /\ DOMAIN relay' = {} /\ \A i \in Calls : phase'[i] = "todo" /\ acts'[i] = 0 /\ i \notin failed'
  <2>1. relay = <<>> /\ batch = <<>> /\ DOMAIN batch = {}
    BY DEF HandoffInv, NotesOK, BatchOK
  <2> QED
    BY <2>1 DEF HandoffInv, BatchOK
<1>6. TypesOK'
  BY <1>2, <1>3, <1>4 DEF HandoffInv, TypesOK, worldVars
<1>7. NotesOK' /\ BatchOK'
  BY <1>2, <1>4, <1>5 DEF NotesOK, BatchOK, Alone
<1>8. \A i \in DOMAIN batch' : CallOK(i)'
  BY <1>2, <1>5 DEF CallOK
<1> QED
  BY <1>6, <1>7, <1>8 DEF HandoffInv

-----------------------------------------------------------------------------
(* The end of the process *)

LEMMA CrashHandoff == ASSUME HandoffInv, Announced, Crash PROVE HandoffInv'
<1> USE DEF Crash, agentVars, storeVars
<1>1. relay = <<>> /\ relay' = <<>> /\ DOMAIN relay' = {}
  BY DEF Announced
<1>2. pending' \in [Calls -> News]
  BY DEF NoNews, News
<1>3. TypesOK'
  BY <1>2, <1>1 DEF HandoffInv, TypesOK
<1>4. NotesOK'
  BY <1>1 DEF HandoffInv, NotesOK
<1>5. BatchOK'
  BY DEF HandoffInv, BatchOK, Alone, Announced, Unannounced
<1>6. \A f \in Families : Noted(f) => Noted(f)'
  BY <1>1 DEF Noted
<1>7. \A j \in DOMAIN batch' : CallOK(j)'
  BY <1>6, CallStays DEF HandoffInv
<1> QED
  BY <1>3, <1>4, <1>5, <1>7 DEF HandoffInv

LEMMA RefuseHandoff == ASSUME HandoffInv, Refuse PROVE HandoffInv'
<1> USE DEF Refuse, agentVars, storeVars, worldVars
<1>1. TypesOK' /\ NotesOK' /\ BatchOK'
  BY DEF HandoffInv, TypesOK, NotesOK, BatchOK, Alone
<1>2. \A f \in Families : Noted(f) => Noted(f)'
  BY DEF Noted
<1>3. \A j \in DOMAIN batch' : CallOK(j)'
  BY <1>2, CallStays DEF HandoffInv
<1> QED
  BY <1>1, <1>3 DEF HandoffInv

\* Of a process that is gone the events themselves know a call: it is the latest of
\* its family, unless it is a process like the latest.
LEMMA DownKnows ==
  ASSUME HandoffInv, pc = "down", NEW i \in DOMAIN batch, Noted(Family(batch[i]))
  PROVE  /\ last[Family(batch[i])].young
         /\ batch[i] \notin Process => last[Family(batch[i])].tool = batch[i]
<1>1. relay = <<>> /\ DOMAIN relay = {} /\ Family(batch[i]) \in Families
  BY FamilyType DEF HandoffInv, NotesOK
<1>2. last[Family(batch[i])].young
  BY <1>1 DEF Noted
<1>3. PICK j \in DOMAIN batch :
        batch[j] = last[Family(batch[i])].tool /\ Family(batch[j]) = Family(batch[i])
  BY <1>1, <1>2 DEF HandoffInv, NotesOK
<1>4. i = j \/ batch[i] \in Process
  BY <1>3 DEF HandoffInv, BatchOK, Alone
<1> QED
  BY <1>2, <1>3, <1>4

\* Where such a call is known that is not harmless, the verdict is to review.
LEMMA RiskIsSeen ==
  ASSUME HandoffInv, pc = "down", NEW i \in DOMAIN batch, Noted(Family(batch[i])),
         batch[i] \in Effects \/ batch[i] \in Browser \ {"close"}
  PROVE  Verdict = "review"
<1>1. /\ last[Family(batch[i])].young
      /\ batch[i] \notin Process => last[Family(batch[i])].tool = batch[i]
  BY DownKnows
<1>2. CASE batch[i] \in Process
  BY <1>1, <1>2 DEF Verdict, Unresolved, Family
<1>3. CASE batch[i] \in Browser \ {"close"}
  <2>1. Family(batch[i]) = "browser" /\ batch[i] \notin Process
    BY <1>3 DEF Family, Browser, Process
  <2> QED
    BY <1>1, <1>3, <2>1 DEF Verdict, Unresolved, BrowserRisk
<1>4. CASE batch[i] \in Mcp \ {"resource_read"}
  <2>1. Family(batch[i]) = "mcp" /\ batch[i] \notin Process
    BY <1>4 DEF Family, Browser, Process, Mcp
  <2> QED
    BY <1>1, <1>4, <2>1 DEF Verdict, Unresolved, McpRisk
<1> QED
  BY <1>2, <1>3, <1>4 DEF Effects, Process, Browser, Mcp

LEMMA ReplayHandoff == ASSUME HandoffInv, Replay PROVE HandoffInv'
<1> USE DEF Replay
<1>1. /\ pc = "down" /\ Verdict # "review" /\ relay = <<>> /\ relay' = <<>> /\ DOMAIN relay' = {}
      /\ phase \in [Calls -> Phases] /\ acts \in [Calls -> Nat] /\ DOMAIN batch \subseteq Calls
  BY DEF HandoffInv, NotesOK, TypesOK
<1>2. ASSUME NEW i \in DOMAIN batch, phase[i] # "stored" PROVE acts[i] = 0
  <2>1. CallOK(i) /\ phase[i] # "spawned" /\ phase[i] \in Phases
    BY <1>1, <1>2 DEF HandoffInv, BatchOK
  <2>2. SUFFICES ASSUME acts[i] = 1 PROVE FALSE
    BY <2>1 DEF CallOK
  <2>3. Noted(Family(batch[i])) /\ batch[i] \in Effects
    BY <1>2, <2>1, <2>2 DEF CallOK, Phases
  <2> QED
    BY <1>1, <2>3, RiskIsSeen
<1>3. /\ phase' \in [Calls -> Phases]
      /\ \A i \in Calls : phase'[i] = IF phase[i] = "stored" THEN "stored" ELSE "todo"
  BY <1>1 DEF Phases
<1>4. saved' \in Nat
  <2>1. IsFiniteSet({i \in DOMAIN batch : phase[i] = "stored"})
    <3>1. IsFiniteSet(DOMAIN batch)
      <4>1. Len(batch) \in Nat /\ DOMAIN batch = 1..Len(batch)
        BY DEF HandoffInv, TypesOK
      <4> QED
        BY <4>1, FS_Interval
    <3> QED
      BY <3>1, FS_Subset
  <2> QED
    BY <2>1, FS_CardinalityType
<1>5. /\ last' \in [Families -> [tool : Tools \cup {"none"}, young : BOOLEAN]]
      /\ \A f \in Families : ~last'[f].young
  BY DEF NoMilestone
<1>6. TypesOK'
  BY <1>1, <1>3, <1>4, <1>5 DEF HandoffInv, TypesOK, worldVars
<1>7. NotesOK'
  BY <1>1, <1>5 DEF NotesOK
<1>8. BatchOK'
  BY <1>1, <1>3 DEF HandoffInv, BatchOK, Alone
<1>9. ASSUME NEW i \in DOMAIN batch' PROVE CallOK(i)'
  BY <1>1, <1>2, <1>3, <1>9 DEF HandoffInv, CallOK
<1> QED
  BY <1>6, <1>7, <1>8, <1>9 DEF HandoffInv

LEMMA HandoffNext == Announced /\ HandoffInv /\ [Next]_hvars => HandoffInv'
<1> SUFFICES ASSUME Announced, HandoffInv, [Next]_hvars PROVE HandoffInv'
  OBVIOUS
<1>1. CASE UNCHANGED hvars
  <2> USE <1>1 DEF hvars, agentVars, storeVars, worldVars
  <2>1. TypesOK' /\ NotesOK' /\ BatchOK'
    BY DEF HandoffInv, TypesOK, NotesOK, BatchOK, Alone
  <2>2. \A f \in Families : Noted(f) => Noted(f)'
    BY DEF Noted
  <2>3. \A j \in DOMAIN batch' : CallOK(j)'
    BY <2>2, CallStays DEF HandoffInv
  <2> QED
    BY <2>1, <2>3 DEF HandoffInv
<1>2. ASSUME NEW i \in Calls, CallStep(i) PROVE HandoffInv'
  BY <1>2, SpawnHandoff, AnnounceProcessHandoff, ProcessEndsHandoff, AnnounceActionHandoff,
     LaunchFailsHandoff, ActHandoff, ActionEndsHandoff, CallMcpHandoff, ServeMcpHandoff,
     McpEndsHandoff DEF CallStep
<1> QED
  BY <1>1, <1>2, RelayHandoff, AllAnsweredHandoff, SaveResultHandoff, SaveNewsHandoff,
     CheckpointHandoff, RespondHandoff, CrashHandoff, RefuseHandoff, ReplayHandoff DEF Next

LEMMA HandoffHolds == ASSUME Announced PROVE Spec => []HandoffInv
<1>1. Init => HandoffInv
  BY InitHolds DEF NewsInv
<1>2. HandoffInv /\ [Next]_hvars => HandoffInv'
  BY HandoffNext
<1> QED
  BY <1>1, <1>2, PTL DEF Spec

\* A replay never repeats what a call has done: each call of an assistant message acts
\* at most once over all the processes that work on it (run_summary.rs), where a batch
\* holds one call of the browser and of MCP and deltas are stored in time.
THEOREM ActsOnce == Announced => (Spec => []EffectOnce)
<1> SUFFICES ASSUME Announced PROVE Spec => []EffectOnce
  OBVIOUS
<1>1. HandoffInv => EffectOnce
  BY DEF HandoffInv, TypesOK, BatchOK, CallOK, EffectOnce
<1> QED
  BY <1>1, HandoffHolds, PTL
-----------------------------------------------------------------------------
(* What the stored results say, and what the checkpoints say *)

\* A step of one call adds at most news of its own.
LEMMA NewsMoves ==
  ASSUME NewsInv, HandoffInv', NEW i \in Calls, i \in DOMAIN batch, pc = "tools", pc' = pc,
         batch' = batch, phase[i] # "stored",
         NEW CONSTANT p \in Phases \ {"stored"}, Advance(i, p),
         \A j \in Calls \ {i} : pending'[j] = pending[j] /\ (j \in failed' <=> j \in failed),
         UNCHANGED <<sessionCp, runtimeCp, believes, saved>>, NewsOK(i)'
  PROVE  NewsInv'
<1>1. /\ phase[i] # "stored" /\ phase'[i] # "stored" /\ phase'[i] = p /\ DOMAIN batch \subseteq Calls
      /\ \A j \in Calls \ {i} : phase'[j] = phase[j]
  BY DEF Advance, NewsInv, HandoffInv, TypesOK
<1>2. PendingOK'
  <2>1. ASSUME NEW j \in DOMAIN batch PROVE NewsOK(j)'
    <3>1. CASE j = i
      BY <3>1
    <3>2. CASE j # i
      BY <1>1, <3>2 DEF NewsInv, PendingOK, NewsOK
    <3> QED
      BY <3>1, <3>2
  <2> QED
    BY <1>1, <2>1 DEF NewsInv, PendingOK
<1>3. SavedOK'
  BY <1>1 DEF NewsInv, SavedOK
<1>4. BeliefsOK'
  BY <1>1 DEF NewsInv, BeliefsOK, Between
<1> QED
  BY <1>2, <1>3, <1>4 DEF NewsInv

\* A call that brings no news: it is not a success of the browser, nor a subscription.
LEMMA NoNewsMoves ==
  ASSUME NewsInv, HandoffInv', NEW i \in Calls, NEW CONSTANT q, CanStep(i, q), q # "stored",
         pc' = pc, batch' = batch, NEW CONSTANT p \in Phases \ {"stored"}, Advance(i, p),
         pending' = pending, \A j \in Calls \ {i} : j \in failed' <=> j \in failed,
         UNCHANGED <<sessionCp, runtimeCp, believes, saved>>,
         pending[i].about = "nothing",
         p \in {"acted", "answered"} => i \in failed' \/ batch[i] \notin Browser,
         p = "answered" => i \in failed' \/ batch[i] # "subscribe"
  PROVE  NewsInv'
<1>1. i \in DOMAIN batch /\ phase[i] = q /\ pc = "tools"
  BY DEF CanStep
<1>2. phase'[i] = p
  BY DEF Advance, NewsInv, HandoffInv, TypesOK
<1>3. NewsOK(i)'
  BY <1>1, <1>2 DEF NewsOK
<1> QED
  BY <1>1, <1>3, NewsMoves

LEMMA QuietBefore ==
  ASSUME NewsInv, NEW i \in Calls, NEW q, CanStep(i, q), q \notin {"acted", "answered", "stored"}
  PROVE  pending[i].about = "nothing"
<1>1. i \in DOMAIN batch /\ phase[i] = q /\ pc = "tools" /\ pending \in [Calls -> News]
  BY DEF CanStep, NewsInv, HandoffInv, TypesOK
<1>2. NewsOK(i)
  BY <1>1 DEF NewsInv, PendingOK
<1> QED
  BY <1>1, <1>2 DEF NewsOK, News

LEMMA CallNews == ASSUME NewsInv, NEW i \in Calls, CallStep(i) PROVE NewsInv'
<1>0. /\ HandoffInv /\ HandoffInv' /\ pending \in [Calls -> News]
  <2>1. HandoffInv /\ pending \in [Calls -> News]
    BY DEF NewsInv, HandoffInv, TypesOK
  <2> QED
    BY <2>1, SpawnHandoff, AnnounceProcessHandoff, ProcessEndsHandoff, AnnounceActionHandoff,
       LaunchFailsHandoff, ActHandoff, ActionEndsHandoff, CallMcpHandoff, ServeMcpHandoff,
       McpEndsHandoff DEF CallStep
<1>1. CASE Spawn(i)
  <2> USE <1>1 DEF Spawn
  <2>1. pending[i].about = "nothing"
    BY QuietBefore
  <2> QED
    BY <1>0, <2>1, NoNewsMoves DEF Phases, storeVars
<1>2. CASE AnnounceProcess(i)
  <2> USE <1>2 DEF AnnounceProcess
  <2>1. pending[i].about = "nothing" /\ batch[i] \notin Browser
    BY <1>0, QuietBefore DEF CanStep, HandoffInv, CallOK, Process, Browser
  <2> QED
    BY <1>0, <2>1, NoNewsMoves DEF Phases, storeVars
<1>3. CASE ProcessEnds(i)
  <2> USE <1>3 DEF ProcessEnds
  <2>1. batch[i] \notin Browser /\ batch[i] \notin Mcp /\ i \in DOMAIN batch /\ pc = "tools"
    BY DEF CanStep, Process, Browser, Mcp
  <2>2. pending[i].about = "nothing" /\ batch[i] # "subscribe"
    BY <1>0, <2>1 DEF NewsInv, PendingOK, NewsOK, News, Mcp
  <2> QED
    BY <1>0, <2>1, <2>2, NoNewsMoves DEF Phases, storeVars
<1>4. CASE AnnounceAction(i)
  <2> USE <1>4 DEF AnnounceAction
  <2>1. pending[i].about = "nothing"
    BY QuietBefore
  <2> QED
    BY <1>0, <2>1, NoNewsMoves DEF Phases, storeVars
<1>5. CASE LaunchFails(i)
  <2> USE <1>5 DEF LaunchFails
  <2>1. pending[i].about = "nothing"
    BY QuietBefore
  <2> QED
    BY <1>0, <2>1, NoNewsMoves DEF Phases, storeVars
<1>6. CASE Act(i)
  <2> USE <1>6 DEF Act
  <2>1. /\ i \in DOMAIN batch /\ batch[i] \in Browser /\ phase[i] = "announced" /\ pc = "tools"
        /\ pending[i].about = "nothing" /\ phase'[i] = "acted" /\ DOMAIN batch \subseteq Calls
    BY <1>0, QuietBefore DEF CanStep, HandoffInv, CallOK, Advance, TypesOK
  <2>2. /\ i \in failed' => pending'[i].about = "nothing"
        /\ i \notin failed' => /\ pending'[i].about = "session"
                               /\ pending'[i].live <=> ~(batch[i] = "close" /\ session)
        /\ \A j \in Calls \ {i} : pending'[j] = pending[j] /\ (j \in failed' <=> j \in failed)
    <3>1. CASE failed' = failed \cup {i} /\ UNCHANGED <<session, pending>>
      BY <2>1, <3>1
    <3>2. CASE /\ UNCHANGED failed
               /\ pending' = [pending EXCEPT ![i] =
                    [about |-> "session", live |-> ~(batch[i] = "close" /\ session)]]
      <4>1. i \notin failed
        BY <1>0, <2>1 DEF HandoffInv, CallOK
      <4> QED
        BY <1>0, <3>2, <4>1
    <3> QED
      BY <3>1, <3>2
  <2>3. NewsOK(i)'
    BY <2>1, <2>2 DEF NewsOK, Browser, Mcp
  <2> QED
    BY <1>0, <2>1, <2>2, <2>3, NewsMoves DEF Phases, storeVars
<1>7. CASE ActionEnds(i)
  <2> USE <1>7 DEF ActionEnds
  <2>1. /\ i \in DOMAIN batch /\ batch[i] \in Browser /\ phase[i] = "acted" /\ pc = "tools"
        /\ phase'[i] = "answered" /\ NewsOK(i)
    BY <1>0 DEF CanStep, HandoffInv, Advance, TypesOK, NewsInv, PendingOK
  <2>2. NewsOK(i)'
    BY <2>1 DEF NewsOK, Browser
  <2> QED
    BY <1>0, <2>1, <2>2, NewsMoves DEF Phases, storeVars
<1>8. CASE CallMcp(i)
  <2> USE <1>8 DEF CallMcp
  <2>1. pending[i].about = "nothing"
    BY QuietBefore
  <2> QED
    BY <1>0, <2>1, NoNewsMoves DEF Phases
<1>9. CASE ServeMcp(i)
  <2> USE <1>9 DEF ServeMcp
  <2>1. pending[i].about = "nothing"
    BY QuietBefore
  <2> QED
    BY <1>0, <2>1, NoNewsMoves DEF Phases, storeVars
<1>10. CASE McpEnds(i)
  <2> USE <1>10 DEF McpEnds
  <2>1. /\ i \in DOMAIN batch /\ batch[i] \in Mcp /\ phase[i] = "served" /\ pc = "tools"
        /\ pending[i].about = "nothing" /\ phase'[i] = "answered"
        /\ seen \in [active : BOOLEAN, unresolved : BOOLEAN]
    BY <1>0, QuietBefore DEF CanStep, HandoffInv, CallOK, Advance, TypesOK
  <2>2. CASE batch[i] = "resource_read"
    BY <1>0, <2>1, <2>2, NoNewsMoves DEF Phases, Browser
  <2>3. CASE batch[i] # "resource_read"
    <3>1. /\ pending'[i].about = "runtime"
          /\ pending'[i].live <=> seen'.active \/ seen'.unresolved
          /\ \A j \in Calls \ {i} : pending'[j] = pending[j]
      BY <1>0, <2>3
    <3>2. /\ seen'.active <=> IF batch[i] = "subscribe" /\ i \notin failed THEN TRUE
                              ELSE IF batch[i] = "unsubscribe" /\ i \notin failed THEN FALSE
                              ELSE seen.active
          /\ seen'.unresolved <=> seen.unresolved \/ batch[i] = "mcp_call" \/ i \in failed
      BY <2>1, <2>3 DEF SeenAfter
    <3>3. batch[i] = "subscribe" /\ i \notin failed => pending'[i].live
      BY <3>1, <3>2
    <3>4. ~pending'[i].live => batch[i] = "unsubscribe" /\ i \notin failed
      BY <2>1, <2>3, <3>1, <3>2 DEF Mcp
    <3>5. batch' = batch /\ failed' = failed
      OBVIOUS
    <3> HIDE DEF McpEnds
    <3>6. NewsOK(i)'
      BY <2>1, <3>1, <3>3, <3>4, <3>5 DEF NewsOK, Mcp, Browser
    <3> QED
      BY <1>0, <1>10, <2>1, <3>1, <3>6, NewsMoves DEF Phases, McpEnds
  <2> QED
    BY <2>2, <2>3
<1> QED
  BY <1>1, <1>2, <1>3, <1>4, <1>5, <1>6, <1>7, <1>8, <1>9, <1>10 DEF CallStep

\* A step that changes neither a call nor a result keeps what they promise.
LEMMA QuietNews ==
  ASSUME NewsInv, HandoffInv', UNCHANGED <<agentVars, sessionCp, runtimeCp, believes, saved, pending>>,
         \A f \in Families : Noted(f) => Noted(f)',
         pc' = pc \/ (pc = "tools" /\ pc' = "save") \/ (pc = "down" /\ pc' = "review")
  PROVE  NewsInv'
<1> USE DEF agentVars
<1>1. PendingOK'
  BY DEF NewsInv, PendingOK, NewsOK
<1>2. SavedOK'
  BY DEF NewsInv, SavedOK
<1>3. ASSUME NEW j \in DOMAIN batch, NEW about, Between(j, about) PROVE Between(j, about)'
  <2>1. Family(batch[j]) \in Families /\ batch' = batch
    BY FamilyType
  <2>2. PICK f \in Families : f = Family(batch[j])
    BY <2>1
  <2>3. f = Family(batch'[j])
    BY <2>1, <2>2
  <2> QED
    BY <1>3, <2>2, <2>3 DEF Between
<1>4. BeliefsOK'
  BY <1>3 DEF NewsInv, BeliefsOK
<1> QED
  BY <1>1, <1>2, <1>4 DEF NewsInv

LEMMA RelayNews == ASSUME NewsInv, Relay PROVE NewsInv'
<1>1. HandoffInv' /\ \A f \in Families : Noted(f) => Noted(f)'
  BY RelayHandoff DEF NewsInv
<1> QED
  BY <1>1, QuietNews DEF Relay, agentVars

LEMMA AllAnsweredNews == ASSUME NewsInv, AllAnswered PROVE NewsInv'
<1>1. HandoffInv' /\ \A f \in Families : Noted(f) => Noted(f)'
  BY AllAnsweredHandoff DEF NewsInv, AllAnswered, storeVars, Noted
<1> QED
  BY <1>1, QuietNews DEF AllAnswered, agentVars, storeVars

LEMMA RefuseNews == ASSUME NewsInv, Refuse PROVE NewsInv'
<1>1. HandoffInv' /\ \A f \in Families : Noted(f) => Noted(f)'
  BY RefuseHandoff DEF NewsInv, Refuse, storeVars, Noted
<1> QED
  BY <1>1, QuietNews DEF Refuse, agentVars, storeVars

LEMMA SaveResultNews == ASSUME NewsInv, SaveResult PROVE NewsInv'
<1>1. /\ HandoffInv /\ HandoffInv' /\ saved + 1 \in Calls /\ saved \in Nat /\ saved + 1 <= Len(batch)
      /\ believes \in [session : BOOLEAN, subscribed : BOOLEAN]
  BY SaveResultHandoff DEF NewsInv, HandoffInv, TypesOK, SaveResult
<1>2. PICK k \in Calls : k = saved + 1
  BY <1>1
<1>3. /\ pc = "save" /\ k \in DOMAIN batch /\ phase[k] = "answered" /\ CallOK(k) /\ NewsOK(k)
      /\ batch[k] \in Tools
  BY <1>1, <1>2 DEF SaveResult, NewsInv, HandoffInv, TypesOK, PendingOK
<1>4. /\ phase'[k] = "stored" /\ \A j \in Calls \ {k} : phase'[j] = phase[j]
      /\ UNCHANGED <<pc, batch, failed, relay, last, sessionCp, runtimeCp, saved, pending>>
      /\ believes' = Believed(batch[k], k \in failed) /\ DOMAIN batch \subseteq Calls
  BY <1>2 DEF SaveResult, Advance, NewsInv, HandoffInv, TypesOK
<1>5. /\ believes'.session <=> IF batch[k] \in Browser /\ k \notin failed THEN batch[k] # "close"
                               ELSE believes.session
      /\ believes'.subscribed <=> IF batch[k] = "subscribe" /\ k \notin failed THEN TRUE
                                  ELSE IF batch[k] = "unsubscribe" /\ k \notin failed THEN FALSE
                                  ELSE believes.subscribed
  BY <1>1, <1>4 DEF Believed
<1>6. PendingOK'
  <2>1. ASSUME NEW j \in DOMAIN batch PROVE NewsOK(j)'
    <3>1. NewsOK(j) /\ (j = k \/ phase'[j] = phase[j])
      BY <1>3, <1>4 DEF NewsInv, PendingOK
    <3> QED
      BY <1>3, <1>4, <3>1 DEF NewsOK
  <2> QED
    BY <1>3, <1>4, <2>1 DEF NewsInv, PendingOK
<1>7. SavedOK'
  BY <1>1, <1>2, <1>3, <1>4 DEF NewsInv, SavedOK
<1>8. k \notin failed => Noted(Family(batch[k]))'
  BY <1>3, <1>4 DEF CallOK, Noted
\* The call before which nothing stood between is the one that is stored now.
<1>9. (believes.session => sessionCp) /\ (believes.subscribed => runtimeCp)
  BY <1>2, <1>3 DEF NewsInv, BeliefsOK, Between
<1>10. ASSUME believes'.session
       PROVE  sessionCp' \/ \E i \in DOMAIN batch' : Between(i, "session")' /\ batch'[i] \in Browser \ {"close"}
  <2>1. CASE batch[k] \in Browser /\ k \notin failed
    <3>1. batch[k] # "close" /\ pending[k].about = "session" /\ pending[k].live
      BY <1>3, <1>5, <1>10, <2>1 DEF NewsOK
    <3>2. Between(k, "session")'
      BY <1>2, <1>3, <1>4, <1>8, <2>1, <3>1 DEF Between
    <3> QED
      BY <1>3, <1>4, <2>1, <3>1, <3>2
  <2> QED
    BY <1>4, <1>5, <1>9, <1>10, <2>1
<1>11. ASSUME believes'.subscribed
       PROVE  runtimeCp' \/ \E i \in DOMAIN batch' : Between(i, "runtime")' /\ batch'[i] = "subscribe"
  <2>1. CASE batch[k] = "subscribe" /\ k \notin failed
    <3>1. pending[k].about = "runtime" /\ pending[k].live
      BY <1>3, <2>1 DEF NewsOK
    <3>2. Between(k, "runtime")'
      BY <1>2, <1>3, <1>4, <1>8, <2>1, <3>1 DEF Between
    <3> QED
      BY <1>3, <1>4, <2>1, <3>1, <3>2
  <2> QED
    BY <1>4, <1>5, <1>9, <1>11, <2>1
<1>12. ASSUME NEW i \in DOMAIN batch, phase'[i] = "stored", ~pending[i].live
       PROVE  /\ pending[i].about = "session" => ~believes'.session
              /\ pending[i].about = "runtime" => ~believes'.subscribed
  <2>1. NewsOK(i)
    BY <1>3 DEF NewsInv, PendingOK
  <2>2. CASE i = k
    BY <1>3, <1>5, <1>12, <2>1, <2>2 DEF NewsOK
  <2>3. CASE i # k
    <3>1. /\ phase[i] = "stored" /\ batch[i] \in Tools
          /\ pending[i].about = "session" => ~believes.session
          /\ pending[i].about = "runtime" => ~believes.subscribed
      BY <1>1, <1>4, <1>12, <2>3 DEF NewsInv, BeliefsOK, HandoffInv, TypesOK
    <3>2. batch[i] \in Browser => batch[k] \notin Browser
      BY <1>1, <1>3, <2>3 DEF HandoffInv, BatchOK, Alone, Family, Browser, Process
    <3>3. batch[i] \in Mcp => batch[k] \notin Mcp
      BY <1>1, <1>3, <2>3 DEF HandoffInv, BatchOK, Alone, Family, Browser, Process, Mcp
    <3> QED
      BY <1>5, <2>1, <3>1, <3>2, <3>3 DEF NewsOK, Mcp
  <2> QED
    BY <2>2, <2>3
<1>13. BeliefsOK'
  BY <1>4, <1>10, <1>11, <1>12 DEF BeliefsOK
<1> QED
  BY <1>1, <1>6, <1>7, <1>13 DEF NewsInv

LEMMA SaveNewsNews == ASSUME NewsInv, SaveNews PROVE NewsInv'
<1>1. /\ HandoffInv /\ HandoffInv' /\ saved + 1 \in Calls /\ saved \in Nat /\ Len(batch) \in Nat
      /\ saved + 1 <= Len(batch) /\ pending \in [Calls -> News] /\ DOMAIN batch = 1..Len(batch)
      /\ DOMAIN batch \subseteq Calls
  BY SaveNewsHandoff DEF NewsInv, HandoffInv, TypesOK, SaveNews
<1>2. PICK k \in Calls : k = saved + 1
  BY <1>1
<1>3. /\ pc = "save" /\ k \in DOMAIN batch /\ phase[k] = "stored" /\ saved' = k
      /\ UNCHANGED <<pc, batch, phase, failed, relay, last, believes>>
      /\ sessionCp' = IF pending[k].about = "session" THEN pending[k].live ELSE sessionCp
      /\ runtimeCp' = IF pending[k].about = "runtime" THEN pending[k].live ELSE runtimeCp
  BY <1>1, <1>2 DEF SaveNews, agentVars
<1>4. pending'[k].about = "nothing" /\ \A j \in Calls \ {k} : pending'[j] = pending[j]
  BY <1>1, <1>2 DEF SaveNews, NoNews
<1>5. PendingOK'
  <2>1. ASSUME NEW j \in DOMAIN batch PROVE NewsOK(j)'
    <3>1. CASE j = k
      BY <1>3, <1>4, <3>1 DEF NewsOK
    <3>2. CASE j # k
      BY <1>1, <1>3, <1>4, <3>2 DEF NewsInv, PendingOK, NewsOK
    <3> QED
      BY <3>1, <3>2
  <2> QED
    BY <1>1, <1>3, <1>4, <2>1 DEF NewsInv, PendingOK
<1>6. SavedOK'
  BY <1>1, <1>2, <1>3, <1>4 DEF NewsInv, SavedOK
<1>7. believes.session => sessionCp'
  BY <1>2, <1>3 DEF NewsInv, BeliefsOK, Between
<1>8. believes.subscribed => runtimeCp'
  BY <1>2, <1>3 DEF NewsInv, BeliefsOK, Between
<1>9. BeliefsOK'
  BY <1>1, <1>3, <1>4, <1>7, <1>8 DEF NewsInv, BeliefsOK
<1> QED
  BY <1>1, <1>5, <1>6, <1>9 DEF NewsInv

LEMMA CheckpointNews == ASSUME NewsInv, Announced, ContinuationCheckpoint PROVE NewsInv'
<1> USE DEF ContinuationCheckpoint, NoCalls
<1>1. /\ HandoffInv /\ HandoffInv' /\ batch' = <<>> /\ DOMAIN batch' = {} /\ Len(batch') = 0
      /\ saved' = 0 /\ pc' = "model" /\ DOMAIN batch = 1..Len(batch) /\ Len(batch) \in Nat
  BY CheckpointHandoff DEF NewsInv, HandoffInv, TypesOK
<1>2. (believes.session => sessionCp) /\ (believes.subscribed => runtimeCp)
  BY <1>1 DEF NewsInv, BeliefsOK, Between
<1>3. \A i \in Calls : pending[i].about = "nothing"
  BY <1>1 DEF NewsInv, SavedOK, PendingOK
<1>4. PendingOK' /\ SavedOK' /\ BeliefsOK'
  BY <1>1, <1>2, <1>3 DEF PendingOK, SavedOK, BeliefsOK
<1> QED
  BY <1>1, <1>4 DEF NewsInv

LEMMA RespondNews == ASSUME NewsInv, Announced, Respond PROVE NewsInv'
<1>1. /\ HandoffInv /\ HandoffInv' /\ pc = "model" /\ pc' = "tools" /\ batch = <<>> /\ DOMAIN batch = {}
      /\ UNCHANGED <<phase, failed, sessionCp, runtimeCp, believes, saved, pending>>
      /\ DOMAIN batch' \subseteq Calls /\ Len(batch') \in Nat /\ DOMAIN batch' = 1..Len(batch')
  BY RespondHandoff DEF NewsInv, HandoffInv, BatchOK, Respond, TypesOK
<1>2. /\ saved = 0 /\ (believes.session => sessionCp) /\ (believes.subscribed => runtimeCp)
      /\ \A i \in Calls : phase[i] = "todo" /\ pending[i].about = "nothing"
  BY <1>1 DEF NewsInv, SavedOK, BeliefsOK, PendingOK, HandoffInv, BatchOK, TypesOK
<1>3. PendingOK'
  <2>1. \A i \in DOMAIN batch' : NewsOK(i)'
    BY <1>1, <1>2 DEF NewsOK
  <2> QED
    BY <1>1, <1>2, <2>1 DEF PendingOK
<1>4. SavedOK' /\ BeliefsOK'
  BY <1>1, <1>2 DEF SavedOK, BeliefsOK
<1> QED
  BY <1>1, <1>3, <1>4 DEF NewsInv

LEMMA CrashNews == ASSUME NewsInv, Announced, Crash PROVE NewsInv'
<1>1. /\ HandoffInv /\ HandoffInv' /\ pc \in {"model", "tools", "save"} /\ pc' = "down" /\ relay = <<>> /\ relay' = <<>>
      /\ UNCHANGED <<batch, phase, failed, last, sessionCp, runtimeCp, believes, saved>>
      /\ \A i \in Calls : pending'[i].about = "nothing"
      /\ DOMAIN batch \subseteq Calls
  BY CrashHandoff DEF NewsInv, HandoffInv, TypesOK, Announced, Crash, agentVars, storeVars, NoNews
<1>2. PendingOK' /\ SavedOK'
  BY <1>1 DEF NewsInv, SavedOK, PendingOK
<1>3. ASSUME NEW i \in DOMAIN batch, NEW about, NEW other, Between(i, about) PROVE Between(i, other)'
  BY <1>1, <1>3 DEF Between, Noted
<1>4. BeliefsOK'
  BY <1>1, <1>3 DEF NewsInv, BeliefsOK
<1> QED
  BY <1>1, <1>2, <1>4 DEF NewsInv

\* What an interrupted run believes in keeps it from being replayed.
LEMMA BeliefIsSeen == ASSUME NewsInv, pc = "down", Verdict # "review"
                      PROVE  ~believes.session /\ ~believes.subscribed
<1>1. HandoffInv /\ ~sessionCp /\ ~runtimeCp
  BY DEF NewsInv, Verdict
<1>2. ~believes.session
  <2>1. SUFFICES ASSUME believes.session PROVE FALSE
    OBVIOUS
  <2>2. PICK i \in DOMAIN batch : Between(i, "session") /\ batch[i] \in Browser \ {"close"}
    BY <1>1, <2>1 DEF NewsInv, BeliefsOK
  <2> QED
    BY <1>1, <2>2, RiskIsSeen DEF Between
<1>3. ~believes.subscribed
  <2>1. SUFFICES ASSUME believes.subscribed PROVE FALSE
    OBVIOUS
  <2>2. PICK i \in DOMAIN batch : Between(i, "runtime") /\ batch[i] = "subscribe"
    BY <1>1, <2>1 DEF NewsInv, BeliefsOK
  <2> QED
    BY <1>1, <2>2, RiskIsSeen DEF Between, Effects
<1> QED
  BY <1>2, <1>3

LEMMA ReplayNews == ASSUME NewsInv, Replay PROVE NewsInv'
<1>1. /\ HandoffInv /\ HandoffInv' /\ pc = "down" /\ pc' \in {"model", "tools"}
      /\ UNCHANGED <<batch, believes, pending>>
      /\ ~believes.session /\ ~believes.subscribed
      /\ \A i \in Calls : phase'[i] = IF phase[i] = "stored" THEN "stored" ELSE "todo"
      /\ saved' = Cardinality({i \in DOMAIN batch : phase[i] = "stored"})
  BY ReplayHandoff, BeliefIsSeen DEF NewsInv, Replay
<1>2. /\ \A i \in Calls : pending[i].about = "nothing"
      /\ DOMAIN batch \subseteq Calls /\ DOMAIN batch = 1..Len(batch) /\ Len(batch) \in Nat /\ saved \in Nat
  BY <1>1 DEF NewsInv, PendingOK, HandoffInv, TypesOK
<1>3. PendingOK'
  <2>1. \A i \in DOMAIN batch : NewsOK(i)'
    BY <1>1, <1>2 DEF NewsOK
  <2> QED
    BY <1>1, <1>2, <2>1 DEF PendingOK
\* The stored results are the first ones.
<1>4. \E m \in 0..Len(batch) : {i \in DOMAIN batch : phase[i] = "stored"} = 1..m
  <2>1. CASE \E i \in DOMAIN batch : phase[i] = "stored" /\ i = saved + 1
    <3>1. {i \in DOMAIN batch : phase[i] = "stored"} = 1..(saved + 1) /\ saved + 1 \in 0..Len(batch)
      BY <1>2, <2>1 DEF NewsInv, SavedOK
    <3> QED
      BY <3>1
  <2>2. CASE ~\E i \in DOMAIN batch : phase[i] = "stored" /\ i = saved + 1
    <3>1. {i \in DOMAIN batch : phase[i] = "stored"} = 1..saved /\ saved \in 0..Len(batch)
      BY <1>2, <2>2 DEF NewsInv, SavedOK
    <3> QED
      BY <3>1
  <2> QED
    BY <2>1, <2>2
<1>5. PICK m \in 0..Len(batch) : {i \in DOMAIN batch : phase[i] = "stored"} = 1..m
  BY <1>4
<1>6. saved' = m
  <2>1. Cardinality(1..m) = m
    BY <1>2, FS_Interval
  <2> QED
    BY <1>1, <1>5, <2>1
<1>7. SavedOK'
  <2>1. ASSUME NEW i \in DOMAIN batch PROVE phase[i] = "stored" <=> i <= m
    <3>1. phase[i] = "stored" <=> i \in 1..m
      BY <1>5
    <3> QED
      BY <1>2, <3>1
  <2>2. m \in Nat /\ m <= Len(batch) /\ \A i \in DOMAIN batch : i \in Nat /\ i \in Calls
    BY <1>2
  <2>3. /\ batch' = batch /\ saved' = m
        /\ \A i \in DOMAIN batch : /\ phase'[i] = "stored" <=> phase[i] = "stored"
                                  /\ pending'[i].about = "nothing"
    BY <1>1, <1>2, <1>6
  <2>4. \A i \in DOMAIN batch : phase'[i] = "stored" => i <= m + 1
    BY <2>1, <2>2, <2>3
  <2> QED
    BY <2>1, <2>2, <2>3, <2>4 DEF SavedOK
<1>8. BeliefsOK'
  BY <1>1, <1>2 DEF BeliefsOK
<1> QED
  BY <1>1, <1>3, <1>7, <1>8 DEF NewsInv

LEMMA NewsNext == Announced /\ NewsInv /\ [Next]_hvars => NewsInv'
<1> SUFFICES ASSUME Announced, NewsInv, [Next]_hvars PROVE NewsInv'
  OBVIOUS
<1>1. CASE UNCHANGED hvars
  <2> USE <1>1 DEF hvars, agentVars, storeVars, worldVars
  <2>1. HandoffInv' /\ \A f \in Families : Noted(f) => Noted(f)'
    BY HandoffNext DEF NewsInv, Noted
  <2> QED
    BY <2>1, QuietNews
<1> QED
  BY <1>1, RelayNews, AllAnsweredNews, SaveResultNews, SaveNewsNews, CheckpointNews, RespondNews,
     CrashNews, RefuseNews, ReplayNews, CallNews DEF Next

\* A run is replayed in a new process only when its stored results speak of no browser
\* session and of no subscription: what a tool left behind is checkpointed before the
\* milestone of its call is closed, at whatever step the process dies.
THEOREM LossIsSeen == Announced => (Spec => NothingLost)
<1> SUFFICES ASSUME Announced PROVE Spec => NothingLost
  OBVIOUS
<1>1. Init => NewsInv
  BY InitHolds
<1>2. NewsInv /\ [Next]_hvars => NewsInv'
  BY NewsNext
<1>3. NewsInv /\ [Next]_hvars =>
        [pc = "down" /\ pc' # "down" /\ pc' # "review" => ~believes.session /\ ~believes.subscribed]_hvars
  <2> SUFFICES ASSUME NewsInv, Next, pc = "down", pc' # "down", pc' # "review"
               PROVE  ~believes.session /\ ~believes.subscribed
    OBVIOUS
  <2>1. Replay
    <3>1. \A i \in Calls : ~CallStep(i)
      BY DEF CallStep, Spawn, AnnounceProcess, ProcessEnds, AnnounceAction, LaunchFails, Act,
             ActionEnds, CallMcp, ServeMcp, McpEnds, CanStep
    <3> QED
      BY <3>1 DEF Next, Relay, AllAnswered, SaveResult, SaveNews, ContinuationCheckpoint, Respond,
                  Crash, Refuse
  <2> QED
    BY <2>1, BeliefIsSeen DEF Replay
<1> QED
  BY <1>1, <1>2, <1>3, PTL DEF Spec, NothingLost

----------------------------------------------------------------------------
(* The logs of a chain of replays (RunTakeover).  At any time one run of   *)
(* the chain is its last; every walk that is under way is about it, and    *)
(* each source it continues has been told of it as it is now, or somebody  *)
(* has still to come past: a walk, the sweep, or whoever reconciles a run  *)
(* that nobody attends to.                                                 *)

WalkStates == {"none", "running"} \cup Chain!Ended
Journeys == [pc : {"idle"} \cup Chain!StartSteps \cup Chain!WalkSteps, state : WalkStates,
             owner : BOOLEAN, at : Nat]
ChainTypes ==
  /\ state \in [Chain!Members -> {"none"} \cup Chain!Active \cup Chain!Ended]
  /\ live \in [Chain!Members -> BOOLEAN]
  /\ told \in [Chain!Members ->
                [run : Nat, state : {"none", "active"} \cup Chain!Ended, owner : BOOLEAN]]
  /\ follow \in [Chain!Members -> [child : Nat, leaf : Nat, state : WalkStates]]
  /\ walk \in [Chain!Walks -> Journeys]
  /\ swept \subseteq Chain!Members

\* The run l is the last that has a row.
ChainRows(l) ==
  /\ \A i \in Chain!Members : state[i] # "none" <=> i <= l
  /\ \A i \in Chain!Members : i < l => state[i] \in Chain!Ended
  /\ \A i \in Chain!Members : live[i] => state[i] = "running"
  /\ \A i \in swept : i = l /\ state[l] = "interrupted"

\* A walk is about the last run, knows its state once it looks at a log, and is at a source.
OnItsWay(t, l) ==
  /\ t[2] = l
  /\ IF t[1] = "start"
     THEN /\ l > 1 /\ ~live[l] /\ walk[t].state = "running" /\ walk[t].pc # "load"
          /\ state[l] = IF walk[t].pc = "claim" THEN "pending" ELSE "running"
     ELSE /\ state[l] \in Chain!Ended /\ walk[t].pc \in Chain!WalkSteps
          /\ walk[t].pc # "load" => walk[t].state = state[l]
  /\ walk[t].pc \in {"load", "claim", "establish", "replayed", "decide"} => walk[t].at = l - 1
  /\ walk[t].pc \in {"look", "tell"} => walk[t].at \in 1..l - 1
  /\ walk[t].pc = "follow" => walk[t].at \in 1..l - 2
ChainWalks(l) == \A t \in Chain!Walks : walk[t].pc # "idle" => OnItsWay(t, l)

\* Who will tell the source s of the last run: the sweep, a walk that has not
\* passed it, or whoever reconciles the run.
Early == {"load", "claim", "establish", "replayed", "decide"}
Orphan(l) == state[l] \in Chain!Active /\ ~live[l] /\ walk[<<"start", l>>].pc = "idle"
Ahead(t, s) ==
  \/ walk[t].pc \in Early
  \/ walk[t].pc \in {"look", "tell"} /\ s <= walk[t].at
AheadOfFollow(t, s) ==
  \/ walk[t].pc \in Early \cup {"look", "tell"}
  \/ walk[t].pc = "follow" /\ s <= walk[t].at
Owed(l) == Orphan(l) \/ l \in swept
LogTold(l, s) ==
  \/ Owed(l) \/ \E t \in Chain!Walks : Ahead(t, s)
  \/ told[s].run = l /\ told[s].state = Chain!Label(state[l])
LogFollows(l, s) ==
  \/ Owed(l) \/ \E t \in Chain!Walks : AheadOfFollow(t, s)
  \/ follow[s].leaf = l /\ follow[s].state = state[l]
ChainLogs(l) ==
  l \notin cut =>
    /\ \A s \in Chain!Members : s < l => LogTold(l, s)
    /\ \A s \in Chain!Members : s < l - 1 => LogFollows(l, s)

ChainAt(l) == ChainRows(l) /\ ChainWalks(l) /\ ChainLogs(l)
ChainInv == ChainTypes /\ \E l \in Chain!Members : ChainAt(l)

IsTold(l, s) == told[s].run = l /\ told[s].state = Chain!Label(state[l])
IsDecided(l, s) == follow[s].leaf = l /\ follow[s].state = state[l]

LEMMA ChainLast ==
  ASSUME NEW l \in Chain!Members, ChainRows(l), NEW s \in Chain!Members
  PROVE Chain!Leaf(s) = l
<1>1. l \in 1..Length /\ s \in 1..Length BY DEF Chain!Members
<1>2. /\ state[l] # "none"
      /\ \A j \in Chain!Members : state[j] # "none" => j <= l
  BY <1>1 DEF ChainRows
<1>3. ASSUME NEW i \in Chain!Members, state[i] # "none",
             \A j \in Chain!Members : state[j] # "none" => j <= i
      PROVE i = l
  BY <1>1, <1>2, <1>3 DEF Chain!Members
<1> QED BY <1>2, <1>3 DEF Chain!Leaf

LEMMA ChainEndsWell ==
  ASSUME ChainInv PROVE LogsAgreeWithRows
<1> SUFFICES ASSUME Chain!Quiet, NEW s \in Chain!Members, Chain!ReplayChild(s),
                    Chain!Leaf(s) \notin cut
             PROVE Chain!Tells(s)
  BY DEF LogsAgreeWithRows, Chain!LogsAgreeWithRows
<1>1. PICK l \in Chain!Members : ChainAt(l) BY DEF ChainInv
<1>2. ChainRows(l) /\ ChainLogs(l) BY <1>1 DEF ChainAt
<1>3. Chain!Leaf(s) = l BY <1>2, ChainLast
<1>4. s < l
  BY <1>2 DEF Chain!ReplayChild, ChainRows, Chain!Members
<1>5. /\ swept = {}
      /\ \A t \in Chain!Walks : walk[t].pc = "idle"
      /\ \A i \in Chain!Members : state[i] \in Chain!Active => live[i]
  BY DEF Chain!Quiet, Chain!Idle
<1>6. ~Owed(l) BY <1>5 DEF Owed, Orphan
<1>7. \A t \in Chain!Walks : ~Ahead(t, s) /\ ~AheadOfFollow(t, s)
  BY <1>5 DEF Ahead, AheadOfFollow, Early
<1>8. told[s].run = l /\ told[s].state = Chain!Label(state[l])
  BY <1>2, <1>3, <1>4, <1>6, <1>7 DEF ChainLogs, LogTold
<1>9. ASSUME s + 1 < l PROVE follow[s] = Chain!Aligned(s)
  <2>1. s < l - 1 BY <1>9 DEF Chain!Members
  <2>2. follow[s].leaf = l /\ follow[s].state = state[l]
    BY <1>2, <1>3, <2>1, <1>6, <1>7 DEF ChainLogs, LogFollows
  <2>3. follow[s] \in [child : Nat, leaf : Nat, state : WalkStates]
    BY DEF ChainInv, ChainTypes
  <2>4. [follow[s] EXCEPT !.leaf = l, !.state = state[l]] = follow[s] BY <2>2, <2>3
  <2> QED BY <1>3, <2>4 DEF Chain!Aligned, Chain!Takeover
<1> QED BY <1>3, <1>8, <1>9 DEF Chain!Tells, Chain!Takeover

LEMMA ChainStarts == ReplayInit => ChainInv
<1> SUFFICES ASSUME ReplayInit PROVE ChainInv OBVIOUS
<1>0. Length \in Nat \ {0} /\ 1 \in Chain!Members BY ChainAssumption DEF Chain!Members
<1>1. Chain!Init BY DEF ReplayInit
<1>2. ChainTypes
  BY <1>1 DEF Chain!Init, ChainTypes, Chain!Active, Chain!Ended, Chain!Nothing, Chain!Undecided,
    Chain!Idle, Journeys, WalkStates
<1>3. ChainRows(1)
  <2>1. /\ state = [i \in Chain!Members |-> IF i = 1 THEN "running" ELSE "none"]
        /\ live = [i \in Chain!Members |-> i = 1] /\ swept = {}
    BY <1>1 DEF Chain!Init
  <2>2. \A i \in Chain!Members : i \in Nat \ {0} BY <1>0 DEF Chain!Members
  <2>3. \A i \in Chain!Members : (state[i] # "none" <=> i <= 1) /\ ~(i < 1)
    BY <2>1, <2>2
  <2> QED BY <2>1, <2>3 DEF ChainRows
<1>4. ChainWalks(1) BY <1>1 DEF Chain!Init, ChainWalks, Chain!Idle
<1>5. ChainLogs(1) BY <1>0 DEF ChainLogs, Chain!Members
<1> QED BY <1>0, <1>2, <1>3, <1>4, <1>5 DEF ChainInv, ChainAt

\* One walk moves: whoever it passes has been told.
Passes(t, l) ==
  /\ \A s \in Chain!Members : s < l /\ (IsTold(l, s) \/ Ahead(t, s))
                              => (IsTold(l, s) \/ Ahead(t, s))'
  /\ \A s \in Chain!Members : s < l - 1 /\ (IsDecided(l, s) \/ AheadOfFollow(t, s))
                              => (IsDecided(l, s) \/ AheadOfFollow(t, s))'

LEMMA ChainMoves ==
  ASSUME NEW l \in Chain!Members, ChainAt(l), NEW t \in Chain!Walks, walk[t].pc # "idle",
         ChainRows(l)', state'[l] = state[l] \/ t[1] = "start", live' = live \/ t[1] = "start",
         \A u \in Chain!Walks \ {t} : walk'[u] = walk[u],
         walk'[t].pc # "idle" => OnItsWay(t, l)',
         Owed(l) => Owed(l)', Passes(t, l), cut' = cut
  PROVE ChainAt(l)'
<1>1. ChainWalks(l)'
  <2> SUFFICES ASSUME NEW u \in Chain!Walks, walk'[u].pc # "idle", u # t PROVE OnItsWay(u, l)'
    BY DEF ChainWalks
  <2>1. walk'[u] = walk[u] OBVIOUS
  <2>2. OnItsWay(u, l) /\ OnItsWay(t, l) BY <2>1 DEF ChainAt, ChainWalks
  <2>3. t[1] # "start" /\ u[1] # "start"
    <3>1. t[2] = u[2] BY <2>2 DEF OnItsWay
    <3>2. t[1] # u[1] BY <3>1 DEF Chain!Walks
    <3> QED BY <2>2, <3>2 DEF OnItsWay, Chain!Ended
  <2> QED BY <2>1, <2>2, <2>3 DEF OnItsWay
<1>2. ChainLogs(l)'
  <2>1. ASSUME l \notin cut, NEW s \in Chain!Members, s < l PROVE LogTold(l, s)'
    <3>1. LogTold(l, s) BY <2>1 DEF ChainAt, ChainLogs
    <3>2. IsTold(l, s) \/ Ahead(t, s) => (IsTold(l, s) \/ Ahead(t, s))' BY <2>1 DEF Passes
    <3>3. ASSUME NEW u \in Chain!Walks \ {t}, Ahead(u, s) PROVE Ahead(u, s)' BY <3>3 DEF Ahead
    <3> QED BY <3>1, <3>2, <3>3 DEF LogTold, IsTold
  <2>2. ASSUME l \notin cut, NEW s \in Chain!Members, s < l - 1 PROVE LogFollows(l, s)'
    <3>1. LogFollows(l, s) BY <2>2 DEF ChainAt, ChainLogs
    <3>2. IsDecided(l, s) \/ AheadOfFollow(t, s) => (IsDecided(l, s) \/ AheadOfFollow(t, s))'
      BY <2>2 DEF Passes
    <3>3. ASSUME NEW u \in Chain!Walks \ {t}, AheadOfFollow(u, s) PROVE AheadOfFollow(u, s)'
      BY <3>3 DEF AheadOfFollow
    <3> QED BY <3>1, <3>2, <3>3 DEF LogFollows, IsDecided
  <2> QED BY <2>1, <2>2 DEF ChainLogs
<1> QED BY <1>1, <1>2 DEF ChainAt

\* What a walk becomes when it has told one source.
LEMMA HigherIs ==
  ASSUME NEW t \in Chain!Walks, NEW l \in Chain!Members, t[2] = l, walk[t] \in Journeys,
         walk[t].at \in 1..l - 1
  PROVE LET w == Chain!Higher(t) IN
        /\ w \in Journeys
        /\ w.pc # "idle" => w.state = walk[t].state
        /\ \/ walk[t].at > 1 /\ w.pc = "look" /\ w.at = walk[t].at - 1
           \/ walk[t].at = 1 /\ l > 2 /\ w.pc = "follow" /\ w.at = l - 2
           \/ walk[t].at = 1 /\ l <= 2 /\ w.pc = (IF t[1] = "start" THEN "go" ELSE "idle")
<1>1. l \in Nat BY ChainAssumption DEF Chain!Members
<1>2. CASE walk[t].at > 1
  <2>1. Chain!Higher(t) = [walk[t] EXCEPT !.pc = "look", !.at = walk[t].at - 1]
    BY <1>2 DEF Chain!Higher
  <2>2. walk[t].at - 1 \in Nat BY <1>1, <1>2
  <2> QED BY <1>2, <2>1, <2>2 DEF Journeys, Chain!WalkSteps
<1>3. CASE walk[t].at = 1 /\ l > 2
  <2>1. Chain!Higher(t) = [walk[t] EXCEPT !.pc = "follow", !.at = l - 2]
    BY <1>3 DEF Chain!Higher
  <2>2. l - 2 \in Nat BY <1>1, <1>3
  <2> QED BY <1>3, <2>1, <2>2 DEF Journeys, Chain!WalkSteps
<1>4. CASE walk[t].at = 1 /\ l <= 2
  <2>1. Chain!Higher(t) = Chain!Over(t) BY <1>1, <1>4 DEF Chain!Higher
  <2>2. CASE t[1] = "start"
    <3>1. Chain!Over(t) = [walk[t] EXCEPT !.pc = "go"] BY <2>2 DEF Chain!Over
    <3> QED BY <1>4, <2>1, <2>2, <3>1 DEF Journeys, Chain!StartSteps
  <2>3. CASE t[1] # "start"
    <3>1. Chain!Over(t) = Chain!Idle BY <2>3 DEF Chain!Over
    <3> QED BY <1>4, <2>1, <2>3, <3>1 DEF Journeys, Chain!Idle, WalkStates
  <2> QED BY <2>2, <2>3
<1> QED BY <1>1, <1>2, <1>3, <1>4

\* The parts of a walk's step that all walks share.
LEMMA ChainWay ==
  ASSUME NEW l \in Chain!Members, ChainTypes, ChainAt(l), NEW t \in Chain!Walks,
         walk[t].pc # "idle"
  PROVE /\ OnItsWay(t, l) /\ t[2] = l /\ walk[t] \in Journeys /\ walk[t].at \in Nat
        /\ l \in Nat \ {0} /\ l <= Length
        /\ t = <<t[1], l>> /\ t[1] \in {"start", "end", "cancel", "sweep"}
<1>1. OnItsWay(t, l) /\ t[2] = l BY DEF ChainAt, ChainWalks, OnItsWay
<1>2. walk[t] \in Journeys /\ walk[t].at \in Nat BY DEF ChainTypes, Journeys
<1>3. l \in Nat \ {0} /\ l <= Length BY ChainAssumption DEF Chain!Members
<1>4. t = <<t[1], t[2]>> /\ t[1] \in {"start", "end", "cancel", "sweep"} BY DEF Chain!Walks
<1> QED BY <1>1, <1>2, <1>3, <1>4

\* A walk that stays on its way, with the rows as they are.
LEMMA ChainKeeps ==
  ASSUME NEW l \in Chain!Members, ChainTypes, ChainAt(l), NEW t \in Chain!Walks,
         walk[t].pc # "idle", NEW w \in Journeys, walk' = [walk EXCEPT ![t] = w],
         t[1] = "start" => w.pc # "idle", w.pc # "idle" => OnItsWay(t, l)', Passes(t, l),
         UNCHANGED <<state, live, swept, cut>>
  PROVE ChainAt(l)' /\ walk' \in [Chain!Walks -> Journeys] /\ walk'[t] = w
<1>1. walk \in [Chain!Walks -> Journeys] BY DEF ChainTypes
<1>2. /\ walk' \in [Chain!Walks -> Journeys] /\ walk'[t] = w
      /\ \A u \in Chain!Walks \ {t} : walk'[u] = walk[u]
  BY <1>1
<1>3. ChainRows(l)' BY DEF ChainAt, ChainRows
<1>4. Owed(l) => Owed(l)'
  <2>1. <<"start", l>> \in Chain!Walks BY DEF Chain!Walks
  <2> QED BY <1>2, <2>1 DEF Owed, Orphan
<1> QED BY <1>2, <1>3, <1>4, ChainMoves

LEMMA ChainLoads ==
  ASSUME NEW l \in Chain!Members, ChainTypes, ChainAt(l), NEW t \in Chain!Walks, Chain!LoadRow(t)
  PROVE ChainTypes' /\ ChainAt(l)'
<1>1. /\ walk[t].pc = "load" /\ UNCHANGED <<state, live, told, follow, swept, cut>>
  BY DEF Chain!LoadRow, Chain!logVars
<1>2. /\ OnItsWay(t, l) /\ t[2] = l /\ walk[t] \in Journeys /\ l \in Nat \ {0} /\ l <= Length
  BY <1>1, ChainWay
<1>3. walk[t].at = l - 1 /\ t[1] # "start" /\ state[l] \in Chain!Ended
  BY <1>1, <1>2 DEF OnItsWay
<1> DEFINE w == IF l = 1 THEN Chain!Idle ELSE [walk[t] EXCEPT !.pc = "look", !.state = state[l]]
<1>4. walk' = [walk EXCEPT ![t] = w]
  BY <1>2, <1>3 DEF Chain!LoadRow, Chain!Reread
<1>5. /\ w \in Journeys
      /\ l > 1 => w.pc = "look" /\ w.at = l - 1 /\ w.state = state[l]
      /\ l = 1 => w.pc = "idle"
  <2>1. CASE l = 1
    <3>1. w = Chain!Idle BY <2>1
    <3> QED BY <2>1, <3>1 DEF Chain!Idle, Journeys, WalkStates
  <2>2. CASE l # 1
    <3>1. w = [walk[t] EXCEPT !.pc = "look", !.state = state[l]] BY <2>2
    <3>2. state[l] \in WalkStates BY <1>3 DEF WalkStates
    <3> HIDE DEF w
    <3> QED BY <1>2, <1>3, <2>2, <3>1, <3>2 DEF Journeys, Chain!WalkSteps
  <2> QED BY <2>1, <2>2
<1>6. walk'[t] = w BY <1>4 DEF ChainTypes
<1> HIDE DEF w
<1>7. w.pc # "idle" => OnItsWay(t, l)'
  BY <1>1, <1>2, <1>3, <1>5, <1>6 DEF OnItsWay, Chain!WalkSteps
<1>8. Passes(t, l)
  <2>1. ASSUME NEW s \in Chain!Members, s < l PROVE Ahead(t, s)' /\ AheadOfFollow(t, s)'
    <3>1. l > 1 /\ s <= l - 1 BY <2>1, <1>2 DEF Chain!Members
    <3> QED BY <3>1, <1>5, <1>6 DEF Ahead, AheadOfFollow
  <2>2. \A s \in Chain!Members : s < l - 1 => s < l BY <1>2 DEF Chain!Members
  <2> QED BY <2>1, <2>2 DEF Passes
<1>9. ChainAt(l)' /\ walk' \in [Chain!Walks -> Journeys]
  BY <1>1, <1>3, <1>4, <1>5, <1>7, <1>8, ChainKeeps
<1> QED BY <1>1, <1>9 DEF ChainTypes

\* A walk that has told a source, or found it told.
LEMMA ChainClimbs ==
  ASSUME NEW l \in Chain!Members, ChainTypes, ChainAt(l), NEW t \in Chain!Walks,
         walk[t].pc \in {"look", "tell"}, walk' = [walk EXCEPT ![t] = Chain!Higher(t)],
         UNCHANGED <<state, live, follow, swept, cut>>, NEW a, a = walk[t].at, IsTold(l, a)',
         \A s \in Chain!Members : IsTold(l, s) => IsTold(l, s)'
  PROVE ChainAt(l)' /\ walk' \in [Chain!Walks -> Journeys]
<1>1. /\ OnItsWay(t, l) /\ t[2] = l /\ walk[t] \in Journeys /\ l \in Nat \ {0} /\ l <= Length
      /\ walk[t].pc # "idle"
  BY ChainWay
<1>2. walk[t].at \in 1..l - 1 BY <1>1 DEF OnItsWay
<1>3. PICK w : w = Chain!Higher(t) OBVIOUS
<1>4. /\ w \in Journeys
      /\ w.pc # "idle" => w.state = walk[t].state
      /\ \/ walk[t].at > 1 /\ w.pc = "look" /\ w.at = walk[t].at - 1
         \/ walk[t].at = 1 /\ l > 2 /\ w.pc = "follow" /\ w.at = l - 2
         \/ walk[t].at = 1 /\ l <= 2 /\ w.pc = (IF t[1] = "start" THEN "go" ELSE "idle")
  BY <1>1, <1>2, <1>3, HigherIs
<1>5. walk' = [walk EXCEPT ![t] = w] /\ walk'[t] = w BY <1>3 DEF ChainTypes
<1>6. w.pc # "idle" => OnItsWay(t, l)'
  BY <1>1, <1>2, <1>4, <1>5 DEF OnItsWay, Chain!WalkSteps
<1>7. Passes(t, l)
  <2>1. ASSUME NEW s \in Chain!Members, s < l, Ahead(t, s) PROVE (Ahead(t, s) \/ IsTold(l, s))'
    <3>1. s <= walk[t].at /\ s \in Nat \ {0} BY <2>1 DEF Ahead, Early, Chain!Members
    <3>2. s = a \/ (s <= walk[t].at - 1 /\ walk[t].at > 1) BY <1>1, <1>2, <3>1
    <3>3. CASE walk[t].at > 1 /\ s <= walk[t].at - 1
      <4>1. walk'[t].pc = "look" /\ walk'[t].at = walk[t].at - 1 BY <1>1, <1>4, <1>5, <3>3
      <4> QED BY <4>1, <3>3 DEF Ahead
    <3> QED BY <3>2, <3>3
  <2>2. ASSUME NEW s \in Chain!Members, s < l - 1 PROVE AheadOfFollow(t, s)'
    <3>1. l > 2 /\ s <= l - 2 BY <2>2, <1>1 DEF Chain!Members
    <3>2. w.pc = "look" \/ (w.pc = "follow" /\ w.at = l - 2) BY <1>1, <1>4, <3>1
    <3> QED BY <1>5, <3>1, <3>2 DEF AheadOfFollow
  <2> QED BY <2>1, <2>2 DEF Passes
<1> QED BY <1>1, <1>4, <1>5, <1>6, <1>7, ChainKeeps

LEMMA ChainLooks ==
  ASSUME NEW l \in Chain!Members, ChainTypes, ChainAt(l), NEW t \in Chain!Walks, Chain!Look(t)
  PROVE ChainTypes' /\ ChainAt(l)'
<1>1. /\ walk[t].pc = "look" /\ UNCHANGED <<state, live, told, follow, swept, cut>>
  BY DEF Chain!Look, Chain!logVars
<1>2. /\ OnItsWay(t, l) /\ t[2] = l /\ walk[t] \in Journeys /\ l \in Nat \ {0} /\ l <= Length
  BY <1>1, ChainWay
<1>3. walk[t].at \in 1..l - 1 /\ walk[t].state = state[l]
  BY <1>1, <1>2 DEF OnItsWay
<1>4. CASE Chain!Known(t)
  <2>1. walk' = [walk EXCEPT ![t] = Chain!Higher(t)] BY <1>4 DEF Chain!Look
  <2>2. told[walk[t].at] = Chain!Message(t) BY <1>4 DEF Chain!Known
  <2>3. IsTold(l, walk[t].at) BY <1>2, <1>3, <2>2 DEF IsTold, Chain!Message
  <2>4. PICK a : a = walk[t].at OBVIOUS
  <2>5. IsTold(l, a)' /\ \A s \in Chain!Members : IsTold(l, s) => IsTold(l, s)'
    BY <1>1, <2>3, <2>4 DEF IsTold
  <2>6. ChainAt(l)' /\ walk' \in [Chain!Walks -> Journeys]
    BY <1>1, <2>1, <2>4, <2>5, ChainClimbs
  <2> QED BY <1>1, <2>6 DEF ChainTypes
<1>5. CASE ~Chain!Known(t)
  <2>1. PICK w : w = [walk[t] EXCEPT !.pc = "tell"] OBVIOUS
  <2>2. walk' = [walk EXCEPT ![t] = w] BY <1>5, <2>1 DEF Chain!Look
  <2>3. w \in Journeys /\ w.pc = "tell" /\ w.at = walk[t].at /\ w.state = walk[t].state
    BY <1>2, <2>1 DEF Journeys, Chain!WalkSteps
  <2>4. walk'[t] = w BY <2>2 DEF ChainTypes
  <2>5. OnItsWay(t, l)' BY <1>1, <1>2, <1>3, <2>3, <2>4 DEF OnItsWay, Chain!WalkSteps
  <2>6. \A s \in Chain!Members : /\ Ahead(t, s) => Ahead(t, s)'
                                 /\ AheadOfFollow(t, s)'
    BY <1>1, <2>3, <2>4 DEF Ahead, AheadOfFollow, Early
  <2>7. Passes(t, l) BY <1>1, <2>6 DEF Passes, IsTold
  <2>8. ChainAt(l)' /\ walk' \in [Chain!Walks -> Journeys]
    BY <1>1, <2>2, <2>3, <2>5, <2>7, ChainKeeps
  <2> QED BY <1>1, <2>8 DEF ChainTypes
<1> QED BY <1>4, <1>5

LEMMA ChainTells ==
  ASSUME NEW l \in Chain!Members, ChainTypes, ChainAt(l), NEW t \in Chain!Walks, Chain!Tell(t)
  PROVE ChainTypes' /\ ChainAt(l)'
<1>1. /\ walk[t].pc = "tell" /\ UNCHANGED <<state, live, follow, swept, cut>>
      /\ walk' = [walk EXCEPT ![t] = Chain!Higher(t)]
      /\ told' = [told EXCEPT ![walk[t].at] = Chain!Message(t)]
  BY DEF Chain!Tell
<1>2. /\ OnItsWay(t, l) /\ t[2] = l /\ walk[t] \in Journeys /\ l \in Nat \ {0} /\ l <= Length
  BY <1>1, ChainWay
<1>3. walk[t].at \in 1..l - 1 /\ walk[t].state = state[l]
  BY <1>1, <1>2 DEF OnItsWay
<1>4. PICK a : a = walk[t].at OBVIOUS
<1>5. a \in Chain!Members BY <1>2, <1>3, <1>4, ChainAssumption DEF Chain!Members
<1>6. PICK m : m = Chain!Message(t) OBVIOUS
<1>7. /\ m \in [run : Nat, state : {"none", "active"} \cup Chain!Ended, owner : BOOLEAN]
      /\ m.run = l /\ m.state = Chain!Label(state[l])
  <2>1. Chain!Label(state[l]) \in {"none", "active"} \cup Chain!Ended BY DEF Chain!Label
  <2> QED BY <1>2, <1>3, <1>6, <2>1 DEF Chain!Message, Journeys
<1>8. /\ told' \in [Chain!Members ->
                     [run : Nat, state : {"none", "active"} \cup Chain!Ended, owner : BOOLEAN]]
      /\ told'[a] = m /\ \A s \in Chain!Members \ {a} : told'[s] = told[s]
  BY <1>1, <1>4, <1>5, <1>6, <1>7 DEF ChainTypes
<1>9. IsTold(l, a)' /\ \A s \in Chain!Members : IsTold(l, s) => IsTold(l, s)'
  BY <1>1, <1>7, <1>8 DEF IsTold
<1>10. ChainAt(l)' /\ walk' \in [Chain!Walks -> Journeys]
  BY <1>1, <1>4, <1>9, ChainClimbs
<1> QED BY <1>1, <1>8, <1>10 DEF ChainTypes

LEMMA ChainFollows ==
  ASSUME NEW l \in Chain!Members, ChainTypes, ChainAt(l), NEW t \in Chain!Walks, Chain!Follow(t)
  PROVE ChainTypes' /\ ChainAt(l)'
<1> DEFINE d == [child |-> walk[t].at + 1, leaf |-> t[2], state |-> walk[t].state]
<1>1. /\ walk[t].pc = "follow" /\ UNCHANGED <<state, live, told, swept, cut>>
      /\ follow' = [follow EXCEPT ![walk[t].at] = d]
  BY DEF Chain!Follow
<1>2. /\ OnItsWay(t, l) /\ t[2] = l /\ walk[t] \in Journeys /\ l \in Nat \ {0} /\ l <= Length
  BY <1>1, ChainWay
<1>3. walk[t].at \in 1..l - 2 /\ walk[t].state = state[l]
  BY <1>1, <1>2 DEF OnItsWay
<1>4. PICK a : a = walk[t].at OBVIOUS
<1>5. a \in Chain!Members BY <1>2, <1>3, <1>4, ChainAssumption DEF Chain!Members
<1>6. d \in [child : Nat, leaf : Nat, state : WalkStates] /\ d.leaf = l /\ d.state = state[l]
  BY <1>2, <1>3 DEF Journeys
<1> HIDE DEF d
<1>7. /\ follow' \in [Chain!Members -> [child : Nat, leaf : Nat, state : WalkStates]]
      /\ follow'[a] = d /\ \A s \in Chain!Members \ {a} : follow'[s] = follow[s]
  BY <1>1, <1>4, <1>5, <1>6 DEF ChainTypes
<1>8. IsDecided(l, a)' /\ \A s \in Chain!Members : IsDecided(l, s) => IsDecided(l, s)'
  BY <1>1, <1>6, <1>7 DEF IsDecided
<1>9. PICK w : w = IF walk[t].at > 1 THEN [walk[t] EXCEPT !.at = walk[t].at - 1]
                   ELSE Chain!Over(t)
  OBVIOUS
<1>10. walk' = [walk EXCEPT ![t] = w] BY <1>9 DEF Chain!Follow
<1>11. /\ w \in Journeys
       /\ \/ a > 1 /\ w.pc = "follow" /\ w.at = a - 1 /\ w.state = walk[t].state
          \/ a = 1 /\ w.pc = (IF t[1] = "start" THEN "go" ELSE "idle")
       /\ w.pc # "idle" => w.state = walk[t].state
  <2>1. CASE a > 1
    <3>1. w = [walk[t] EXCEPT !.at = a - 1] /\ a - 1 \in Nat BY <1>2, <1>3, <1>4, <1>9, <2>1
    <3> QED BY <1>1, <1>2, <2>1, <3>1 DEF Journeys
  <2>2. CASE a = 1
    <3>1. w = Chain!Over(t) BY <1>4, <1>9, <2>2
    <3>2. CASE t[1] = "start"
      <4>1. w = [walk[t] EXCEPT !.pc = "go"] BY <3>1, <3>2 DEF Chain!Over
      <4> QED BY <1>2, <2>2, <3>2, <4>1 DEF Journeys, Chain!StartSteps
    <3>3. CASE t[1] # "start"
      <4>1. w = Chain!Idle BY <3>1, <3>3 DEF Chain!Over
      <4> QED BY <2>2, <3>3, <4>1 DEF Journeys, Chain!Idle, WalkStates
    <3> QED BY <3>2, <3>3
  <2> QED BY <1>2, <1>3, <1>4, <2>1, <2>2
<1>12. walk'[t] = w BY <1>10 DEF ChainTypes
<1>13. w.pc # "idle" => OnItsWay(t, l)'
  BY <1>1, <1>2, <1>3, <1>4, <1>11, <1>12 DEF OnItsWay, Chain!WalkSteps
<1>14. Passes(t, l)
  <2>1. \A s \in Chain!Members : ~Ahead(t, s) BY <1>1 DEF Ahead, Early
  <2>2. ASSUME NEW s \in Chain!Members, AheadOfFollow(t, s)
        PROVE (AheadOfFollow(t, s) \/ IsDecided(l, s))'
    <3>1. s <= a /\ s \in Nat \ {0} BY <1>1, <1>4, <2>2 DEF AheadOfFollow, Early, Chain!Members
    <3>2. s = a \/ (a > 1 /\ s <= a - 1) BY <1>2, <1>3, <1>4, <3>1
    <3>3. CASE a > 1 /\ s <= a - 1
      <4>1. walk'[t].pc = "follow" /\ walk'[t].at = a - 1 BY <1>2, <1>3, <1>4, <1>11, <1>12, <3>3
      <4> QED BY <4>1, <3>3 DEF AheadOfFollow
    <3> QED BY <1>8, <3>2, <3>3
  <2>3. \A s \in Chain!Members : IsTold(l, s) => IsTold(l, s)' BY <1>1 DEF IsTold
  <2> QED BY <1>8, <2>1, <2>2, <2>3 DEF Passes
<1>15. t[1] = "start" => w.pc # "idle" BY <1>11
<1>16. ChainAt(l)' /\ walk' \in [Chain!Walks -> Journeys]
  BY <1>1, <1>10, <1>11, <1>13, <1>14, <1>15, ChainKeeps
<1> QED BY <1>1, <1>7, <1>16 DEF ChainTypes

\* A start before its walk.
LEMMA ChainPrepares ==
  ASSUME NEW l \in Chain!Members, ChainTypes, ChainAt(l), NEW t \in Chain!Walks, t[1] = "start",
         walk[t].pc \in {"establish", "replayed", "decide"}, NEW p \in {"replayed", "decide", "look"},
         Chain!Goto(t, p), UNCHANGED <<state, live, told, swept, cut>>,
         \A s \in Chain!Members : s < l - 1 => follow'[s] = follow[s]
  PROVE ChainAt(l)' /\ walk' \in [Chain!Walks -> Journeys]
<1>1. /\ OnItsWay(t, l) /\ t[2] = l /\ walk[t] \in Journeys /\ l \in Nat \ {0} /\ l <= Length
  BY ChainWay
<1>2. walk[t].at = l - 1 /\ walk[t].state = "running" /\ state[l] = "running" /\ l > 1 /\ ~live[l]
  BY <1>1 DEF OnItsWay
<1>3. PICK w : w = [walk[t] EXCEPT !.pc = p] OBVIOUS
<1>4. walk' = [walk EXCEPT ![t] = w] BY <1>3 DEF Chain!Goto
<1>5. w \in Journeys /\ w.pc = p /\ w.at = l - 1 /\ w.state = "running"
  BY <1>1, <1>2, <1>3 DEF Journeys, Chain!StartSteps, Chain!WalkSteps
<1>6. walk'[t] = w BY <1>4 DEF ChainTypes
<1>7. OnItsWay(t, l)' BY <1>1, <1>2, <1>5, <1>6 DEF OnItsWay
<1>8. Passes(t, l)
  <2>1. ASSUME NEW s \in Chain!Members, s < l PROVE Ahead(t, s)' /\ AheadOfFollow(t, s)'
    <3>1. s <= l - 1 BY <2>1, <1>1 DEF Chain!Members
    <3> QED BY <3>1, <1>5, <1>6 DEF Ahead, AheadOfFollow, Early
  <2>2. \A s \in Chain!Members : s < l - 1 => s < l BY <1>1 DEF Chain!Members
  <2> QED BY <2>1, <2>2 DEF Passes
<1>9. w.pc # "idle" /\ walk[t].pc # "idle" BY <1>5
<1>10. walk \in [Chain!Walks -> Journeys] BY DEF ChainTypes
<1>11. /\ walk' \in [Chain!Walks -> Journeys]
       /\ \A u \in Chain!Walks \ {t} : walk'[u] = walk[u]
  BY <1>4, <1>5, <1>10
<1>12. ChainRows(l)' BY DEF ChainAt, ChainRows
<1>13. Owed(l) => Owed(l)'
  <2>1. t = <<"start", l>> BY <1>1 DEF Chain!Walks
  <2> QED BY <1>9, <2>1 DEF Owed, Orphan
<1> QED BY <1>7, <1>8, <1>9, <1>11, <1>12, <1>13, ChainMoves

LEMMA ChainStartsOn ==
  ASSUME NEW l \in Chain!Members, ChainTypes, ChainAt(l), NEW i \in Chain!Members,
         Chain!Establish(i) \/ Chain!RecordReplayed(i) \/ Chain!Decide(i)
  PROVE ChainTypes' /\ ChainAt(l)'
<1> DEFINE t == <<"start", i>>
<1>1. t \in Chain!Walks /\ t[1] = "start" /\ t[2] = i BY DEF Chain!Walks
<1>2. /\ walk[t].pc \in {"establish", "replayed", "decide"}
      /\ \E p \in {"replayed", "decide", "look"} : Chain!Goto(t, p)
      /\ UNCHANGED <<state, live, told, swept, cut>>
  BY DEF Chain!Establish, Chain!RecordReplayed, Chain!Decide
<1>3. i = l /\ l > 1 /\ l \in Nat
  <2>1. OnItsWay(t, l) /\ t[2] = l /\ l \in Nat BY <1>1, <1>2, ChainWay
  <2> QED BY <1>1, <2>1 DEF OnItsWay
<1>4. /\ follow' \in [Chain!Members -> [child : Nat, leaf : Nat, state : WalkStates]]
      /\ \A s \in Chain!Members : s < l - 1 => follow'[s] = follow[s]
  <2>1. CASE follow' = follow BY <2>1 DEF ChainTypes
  <2>2. CASE follow' = [follow EXCEPT ![i - 1] = [child |-> i, leaf |-> 0, state |-> "none"]]
    <3>1. [child |-> i, leaf |-> 0, state |-> "none"] \in [child : Nat, leaf : Nat, state : WalkStates]
      BY <1>3 DEF WalkStates
    <3>2. \A s \in Chain!Members : s < l - 1 => s # i - 1 BY <1>3 DEF Chain!Members
    <3> QED BY <2>2, <3>1, <3>2 DEF ChainTypes
  <2> QED BY <2>1, <2>2 DEF Chain!Establish, Chain!RecordReplayed, Chain!Decide
<1> HIDE DEF t
<1>5. ChainAt(l)' /\ walk' \in [Chain!Walks -> Journeys] BY <1>1, <1>2, <1>4, ChainPrepares
<1> QED BY <1>2, <1>4, <1>5 DEF ChainTypes

\* The start's claim is the one that writes the row.
LEMMA ChainClaims ==
  ASSUME NEW l \in Chain!Members, ChainTypes, ChainAt(l), NEW i \in Chain!Members, Chain!Claim(i)
  PROVE ChainTypes' /\ ChainAt(l)'
<1> DEFINE t == <<"start", i>>
<1>1. t \in Chain!Walks /\ t[1] = "start" /\ t[2] = i BY DEF Chain!Walks
<1>2. walk[t].pc = "claim" /\ UNCHANGED <<live, told, follow, swept, cut>>
  BY DEF Chain!Claim, Chain!logVars
<1>3. /\ OnItsWay(t, l) /\ t[2] = l /\ walk[t] \in Journeys /\ l \in Nat \ {0} /\ l <= Length
  BY <1>1, <1>2, ChainWay
<1>4. /\ i = l /\ l > 1 /\ ~live[l] /\ state[l] = "pending"
      /\ walk[t].at = l - 1 /\ walk[t].state = "running"
  BY <1>1, <1>2, <1>3 DEF OnItsWay
<1>5. state' = [state EXCEPT ![l] = "running"] /\ walk' = [walk EXCEPT ![t].pc = "establish"]
  BY <1>4 DEF Chain!Claim, Chain!Goto
<1> HIDE DEF t
<1>6. /\ state' \in [Chain!Members -> {"none"} \cup Chain!Active \cup Chain!Ended]
      /\ state'[l] = "running" /\ \A j \in Chain!Members \ {l} : state'[j] = state[j]
  BY <1>5 DEF ChainTypes, Chain!Active
<1>7. PICK w : w = [walk[t] EXCEPT !.pc = "establish"] OBVIOUS
<1>8. w \in Journeys /\ w.pc = "establish" /\ w.at = l - 1 /\ w.state = "running"
  BY <1>3, <1>4, <1>7 DEF Journeys, Chain!StartSteps
<1>9. walk' = [walk EXCEPT ![t] = w] BY <1>5, <1>7
<1>10. /\ walk' \in [Chain!Walks -> Journeys] /\ walk'[t] = w
       /\ \A u \in Chain!Walks \ {t} : walk'[u] = walk[u]
  BY <1>1, <1>8, <1>9 DEF ChainTypes
<1>11. ChainRows(l)'
  <2>1. ChainRows(l) BY DEF ChainAt
  <2>2. \A j \in Chain!Members : j < l => j # l BY <1>3 DEF Chain!Members
  <2>3. l \notin swept BY <2>1, <1>4 DEF ChainRows
  <2>4. swept' = {} BY <2>1, <2>3, <1>2 DEF ChainRows
  <2> QED BY <1>2, <1>3, <1>4, <1>6, <2>1, <2>2, <2>4 DEF ChainRows
<1>12. OnItsWay(t, l)' BY <1>2, <1>3, <1>4, <1>6, <1>8, <1>10, <1>1 DEF OnItsWay
<1>13. Passes(t, l)
  <2>1. \A s \in Chain!Members : Ahead(t, s)' /\ AheadOfFollow(t, s)'
    BY <1>8, <1>10 DEF Ahead, AheadOfFollow, Early
  <2> QED BY <2>1 DEF Passes
<1>14. Owed(l) => Owed(l)'
  <2>1. t = <<"start", l>> BY <1>1, <1>4 DEF Chain!Walks
  <2> QED BY <1>2, <2>1 DEF Owed, Orphan
<1>15. walk[t].pc # "idle" BY <1>2
<1>16. ChainAt(l)'
  BY <1>1, <1>2, <1>10, <1>11, <1>12, <1>13, <1>14, <1>15, ChainMoves
<1> QED BY <1>2, <1>6, <1>10, <1>16 DEF ChainTypes

\* The start's last step, and a start that is dropped: the run goes on or is left to the sweep.
LEMMA ChainStartEnds ==
  ASSUME NEW l \in Chain!Members, ChainTypes, ChainAt(l), NEW i \in Chain!Members,
         Chain!Go(i) \/ Chain!DropStart(i)
  PROVE ChainTypes' /\ ChainAt(l)'
<1> DEFINE t == <<"start", i>>
<1>1. t \in Chain!Walks /\ t[1] = "start" /\ t[2] = i BY DEF Chain!Walks
<1>2. /\ walk[t].pc # "idle" /\ UNCHANGED <<state, told, follow, swept, cut>>
      /\ walk' = [walk EXCEPT ![t] = Chain!Idle]
  BY DEF Chain!Go, Chain!DropStart, Chain!logVars
<1>3. OnItsWay(t, l) /\ t[2] = l /\ l \in Nat \ {0} BY <1>1, <1>2, ChainWay
<1>4. /\ i = l /\ ~live[l]
      /\ state[l] = IF walk[t].pc = "claim" THEN "pending" ELSE "running"
  BY <1>1, <1>3 DEF OnItsWay
<1>5. Chain!Idle \in Journeys /\ Chain!Idle.pc = "idle" BY DEF Chain!Idle, Journeys, WalkStates
<1>6. t = <<"start", l>> BY <1>4
<1> HIDE DEF t
<1>7. /\ walk' \in [Chain!Walks -> Journeys] /\ walk'[t].pc = "idle"
      /\ \A u \in Chain!Walks \ {t} : walk'[u] = walk[u]
  BY <1>1, <1>2, <1>5 DEF ChainTypes
<1>8. \/ /\ walk[t].pc = "go" /\ live' = [live EXCEPT ![l] = TRUE]
      \/ live' = live
  BY <1>4, <1>6 DEF Chain!Go, Chain!DropStart
<1>9. live' \in [Chain!Members -> BOOLEAN] BY <1>8 DEF ChainTypes
<1>10. ChainRows(l)'
  <2>1. ChainRows(l) BY DEF ChainAt
  <2>2. \A j \in Chain!Members : live'[j] => live[j] \/ (j = l /\ state[l] = "running")
    BY <1>4, <1>8 DEF ChainTypes
  <2> QED BY <1>2, <2>1, <2>2 DEF ChainRows
<1>11. ASSUME live' = live PROVE Owed(l)'
  BY <1>2, <1>4, <1>6, <1>7, <1>11 DEF Owed, Orphan, Chain!Active
<1>12. ASSUME live' # live PROVE Passes(t, l)
  <2>1. \A s \in Chain!Members : ~Ahead(t, s) /\ ~AheadOfFollow(t, s)
    BY <1>8, <1>12 DEF Ahead, AheadOfFollow, Early
  <2> QED BY <1>2, <2>1 DEF Passes, IsTold, IsDecided
<1>13. ChainWalks(l)'
  <2> SUFFICES ASSUME NEW u \in Chain!Walks, walk'[u].pc # "idle" PROVE OnItsWay(u, l)'
    BY DEF ChainWalks
  <2>1. walk'[u] = walk[u] /\ u # t BY <1>7
  <2>2. OnItsWay(u, l) /\ u[2] = l BY <2>1 DEF ChainAt, ChainWalks, OnItsWay
  <2>3. u[1] # "start" BY <2>1, <2>2, <1>6 DEF Chain!Walks
  <2> QED BY <1>2, <2>1, <2>2, <2>3 DEF OnItsWay
<1>14. CASE live' = live
  <2>1. ChainLogs(l)' BY <1>11, <1>14 DEF ChainLogs, LogTold, LogFollows
  <2> QED BY <1>2, <1>7, <1>9, <1>10, <1>13, <2>1 DEF ChainTypes, ChainAt
<1>15. CASE live' # live
  <2>1. Owed(l) => Owed(l)' BY <1>2, <1>6 DEF Owed, Orphan
  <2>2. ChainAt(l)'
    BY <1>1, <1>2, <1>7, <1>10, <1>12, <1>15, <2>1, ChainMoves
  <2> QED BY <1>2, <1>7, <1>9, <2>2 DEF ChainTypes
<1> QED BY <1>14, <1>15

\* A walk about the last run means that it is being started or has ended.
LEMMA ChainIdles ==
  ASSUME NEW l \in Chain!Members, ChainTypes, ChainAt(l), live[l] \/ state[l] \in Chain!Active,
         ~live[l] => walk[<<"start", l>>].pc = "idle"
  PROVE \A u \in Chain!Walks : walk[u].pc = "idle"
<1> SUFFICES ASSUME NEW u \in Chain!Walks, walk[u].pc # "idle" PROVE FALSE OBVIOUS
<1>1. OnItsWay(u, l) /\ u = <<u[1], l>> BY ChainWay
<1>2. state[l] \in Chain!Active BY DEF ChainAt, ChainRows, Chain!Active
<1>3. u[1] = "start" BY <1>1, <1>2 DEF OnItsWay, Chain!Active, Chain!Ended
<1> QED BY <1>1, <1>3 DEF OnItsWay

\* A walk begins while no other is under way that it could disturb, or beside those
\* that tell the same.
LEMMA ChainBegins ==
  ASSUME NEW l \in Chain!Members, ChainTypes, ChainWalks(l), NEW t \in Chain!Walks,
         NEW w \in Journeys, walk' = [walk EXCEPT ![t] = w], live' = live, state' = state,
         w.pc # "idle" => OnItsWay(t, l)'
  PROVE /\ ChainWalks(l)' /\ walk' \in [Chain!Walks -> Journeys] /\ walk'[t] = w
        /\ \A u \in Chain!Walks \ {t} : walk'[u] = walk[u]
<1>1. /\ walk' \in [Chain!Walks -> Journeys] /\ walk'[t] = w
      /\ \A u \in Chain!Walks \ {t} : walk'[u] = walk[u]
  BY DEF ChainTypes
<1>2. \A u \in Chain!Walks \ {t} : walk'[u].pc # "idle" => OnItsWay(u, l)'
  <2> SUFFICES ASSUME NEW u \in Chain!Walks \ {t}, walk'[u].pc # "idle" PROVE OnItsWay(u, l)'
    OBVIOUS
  <2>1. walk'[u] = walk[u] BY <1>1
  <2>2. OnItsWay(u, l) BY <2>1 DEF ChainWalks
  <2> QED BY <2>1, <2>2 DEF OnItsWay
<1> QED BY <1>1, <1>2 DEF ChainWalks

\* A walk that looks at the first log next still tells every source.
LEMMA ChainAhead ==
  ASSUME NEW l \in Chain!Members, NEW t \in Chain!Walks,
         \/ walk'[t].pc = "load"
         \/ walk'[t].pc = "claim"
         \/ walk'[t].pc = "look" /\ walk'[t].at = l - 1
  PROVE ChainLogs(l)'
<1>1. l \in Nat /\ \A s \in Chain!Members : s \in Nat BY ChainAssumption DEF Chain!Members
<1>2. ASSUME NEW s \in Chain!Members, s < l PROVE Ahead(t, s)' /\ AheadOfFollow(t, s)'
  <2>1. s <= l - 1 BY <1>1, <1>2
  <2> QED BY <2>1 DEF Ahead, AheadOfFollow, Early
<1>3. \A s \in Chain!Members : s < l - 1 => s < l BY <1>1
<1> QED BY <1>2, <1>3 DEF ChainLogs, LogTold, LogFollows

LEMMA ChainEnds ==
  ASSUME NEW l \in Chain!Members, ChainTypes, ChainAt(l), NEW i \in Chain!Members, Chain!End(i)
  PROVE ChainTypes' /\ ChainAt(l)'
<1> DEFINE t == <<"end", l>>
<1>1. live[i] /\ live' = [live EXCEPT ![i] = FALSE] /\ UNCHANGED <<told, follow, swept, cut>>
  BY DEF Chain!End, Chain!logVars
<1>2. ChainRows(l) /\ l \in Nat \ {0} /\ l <= Length
  BY ChainAssumption DEF ChainAt, Chain!Members
<1>3. state[i] = "running" BY <1>1, <1>2 DEF ChainRows
<1>4. i = l
  <2>1. i <= l /\ ~(i < l) BY <1>2, <1>3 DEF ChainRows, Chain!Ended
  <2> QED BY <2>1, <1>2 DEF Chain!Members
<1>5. PICK s \in {"completed", "failed", "cancelled"} :
        /\ state' = [state EXCEPT ![l] = s]
        /\ walk' = [walk EXCEPT ![t] = Chain!From(t, "load", "none", TRUE)]
  BY <1>3, <1>4 DEF Chain!End
<1>6. /\ state' \in [Chain!Members -> {"none"} \cup Chain!Active \cup Chain!Ended]
      /\ state'[l] = s /\ \A j \in Chain!Members \ {l} : state'[j] = state[j]
      /\ s \in Chain!Ended /\ s # "none" /\ s # "running"
  BY <1>5 DEF ChainTypes, Chain!Ended
<1>7. /\ live' \in [Chain!Members -> BOOLEAN] /\ ~live'[l]
      /\ \A j \in Chain!Members \ {l} : live'[j] = live[j]
  BY <1>1, <1>4 DEF ChainTypes
<1>8. \A u \in Chain!Walks : walk[u].pc = "idle" BY <1>1, <1>4, ChainIdles
<1>9. PICK w : w = Chain!From(t, "load", "none", TRUE) OBVIOUS
<1>10. t \in Chain!Walks /\ t[1] = "end" /\ t[2] = l BY DEF Chain!Walks
<1> HIDE DEF t
<1>11. w \in Journeys /\ w.pc = "load" /\ w.at = l - 1
  BY <1>2, <1>9, <1>10 DEF Chain!From, Journeys, Chain!WalkSteps, WalkStates
<1>12. /\ walk' \in [Chain!Walks -> Journeys] /\ walk'[t] = w
       /\ \A u \in Chain!Walks \ {t} : walk'[u] = walk[u]
  BY <1>5, <1>9, <1>10, <1>11 DEF ChainTypes
<1>13. ChainRows(l)'
  <2>1. \A j \in Chain!Members : j < l => j # l BY <1>2 DEF Chain!Members
  <2>2. swept' = {} BY <1>1, <1>2, <1>3, <1>4 DEF ChainRows
  <2> QED BY <1>2, <1>3, <1>4, <1>6, <1>7, <2>1, <2>2 DEF ChainRows
<1>14. ChainWalks(l)'
  <2>1. OnItsWay(t, l)' BY <1>6, <1>10, <1>11, <1>12 DEF OnItsWay, Chain!WalkSteps
  <2> QED BY <1>8, <1>12, <2>1 DEF ChainWalks
<1>15. ChainLogs(l)' BY <1>10, <1>11, <1>12, ChainAhead
<1> QED BY <1>1, <1>6, <1>7, <1>12, <1>13, <1>14, <1>15 DEF ChainTypes, ChainAt

\* A walk that is cut short is remembered.
LEMMA ChainCuts ==
  ASSUME NEW l \in Chain!Members, ChainTypes, ChainAt(l), NEW i \in Chain!Members,
         Chain!Abort(i) \/ Chain!DropCancel(i)
  PROVE ChainTypes' /\ ChainAt(l)'
<1>1. PICK t \in {<<"end", i>>, <<"cancel", i>>} :
        walk[t].pc # "idle" /\ walk' = [walk EXCEPT ![t] = Chain!Idle]
  BY DEF Chain!Abort, Chain!DropCancel
<1>2. cut' = cut \cup {i} /\ UNCHANGED <<state, live, told, follow, swept>>
  BY DEF Chain!Abort, Chain!DropCancel, Chain!logVars
<1>3. t \in Chain!Walks /\ t[2] = i BY DEF Chain!Walks
<1>4. i = l BY <1>1, <1>3, ChainWay
<1>5. Chain!Idle \in Journeys /\ Chain!Idle.pc = "idle" BY DEF Chain!Idle, Journeys, WalkStates
<1>6. ChainWalks(l)' /\ walk' \in [Chain!Walks -> Journeys]
  BY <1>1, <1>2, <1>3, <1>5, ChainBegins DEF ChainAt
<1>7. ChainRows(l)' BY <1>2 DEF ChainAt, ChainRows
<1>8. ChainLogs(l)' BY <1>2, <1>4 DEF ChainLogs
<1> QED BY <1>2, <1>6, <1>7, <1>8 DEF ChainTypes, ChainAt

LEMMA ChainCancels ==
  ASSUME NEW l \in Chain!Members, ChainTypes, ChainAt(l), NEW i \in Chain!Members,
         Chain!Cancel(i)
  PROVE ChainTypes' /\ ChainAt(l)'
<1> DEFINE t == <<"cancel", l>>
<1>1. /\ i > 1 /\ state[i] \in Chain!Ended /\ Chain!Leaf(i) = i
      /\ UNCHANGED <<state, live, told, follow, swept>>
  BY DEF Chain!Cancel, Chain!logVars
<1>2. i = l BY <1>1, ChainLast DEF ChainAt
<1>3. PICK w : w = Chain!From(t, "look", state[l], FALSE) OBVIOUS
<1>4. walk' = [walk EXCEPT ![t] = w] BY <1>2, <1>3 DEF Chain!Cancel
<1>5. t \in Chain!Walks /\ t[1] = "cancel" /\ t[2] = l BY DEF Chain!Walks
<1>6. l \in Nat /\ l > 1 /\ l <= Length BY <1>1, <1>2, ChainAssumption DEF Chain!Members
<1> HIDE DEF t
<1>7. state[l] \in WalkStates BY <1>1, <1>2 DEF WalkStates
<1>8. w \in Journeys /\ w.pc = "look" /\ w.at = l - 1 /\ w.state = state[l]
  BY <1>3, <1>5, <1>6, <1>7 DEF Chain!From, Journeys, Chain!WalkSteps
<1>9. walk'[t] = w BY <1>4, <1>5 DEF ChainTypes
<1>10. OnItsWay(t, l)'
  BY <1>1, <1>2, <1>5, <1>6, <1>8, <1>9 DEF OnItsWay, Chain!WalkSteps
<1>11. ChainWalks(l)' /\ walk' \in [Chain!Walks -> Journeys]
  BY <1>1, <1>4, <1>5, <1>8, <1>10, ChainBegins DEF ChainAt
<1>12. ChainLogs(l)' BY <1>5, <1>8, <1>9, ChainAhead
<1>13. ChainRows(l)' BY <1>1 DEF ChainAt, ChainRows
<1> QED BY <1>1, <1>11, <1>12, <1>13 DEF ChainTypes, ChainAt

LEMMA ChainSweepTells ==
  ASSUME NEW l \in Chain!Members, ChainTypes, ChainAt(l), NEW i \in Chain!Members,
         Chain!SweepTells(i)
  PROVE ChainTypes' /\ ChainAt(l)'
<1> DEFINE t == <<"sweep", l>>
<1>1. i \in swept /\ swept' = swept \ {i} /\ UNCHANGED <<state, live, told, follow, cut>>
  BY DEF Chain!SweepTells, Chain!logVars
<1>2. ChainRows(l) /\ i = l /\ state[l] = "interrupted" BY <1>1 DEF ChainAt, ChainRows
<1>3. PICK w : w = IF l = 1 THEN Chain!Idle ELSE Chain!From(t, "look", "interrupted", FALSE)
  OBVIOUS
<1>4. walk' = [walk EXCEPT ![t] = w] BY <1>2, <1>3 DEF Chain!SweepTells
<1>5. t \in Chain!Walks /\ t[1] = "sweep" /\ t[2] = l BY DEF Chain!Walks
<1>6. l \in Nat \ {0} /\ l <= Length BY ChainAssumption DEF Chain!Members
<1> HIDE DEF t
<1>7. /\ w \in Journeys
      /\ \/ l = 1 /\ w.pc = "idle"
         \/ l > 1 /\ w.pc = "look" /\ w.at = l - 1 /\ w.state = "interrupted"
  <2>1. CASE l = 1
    <3>1. w = Chain!Idle BY <1>3, <2>1
    <3> QED BY <2>1, <3>1 DEF Chain!Idle, Journeys, WalkStates
  <2>2. CASE l > 1
    <3>1. w = [pc |-> "look", state |-> "interrupted", owner |-> FALSE, at |-> l - 1]
      BY <1>3, <1>5, <2>2 DEF Chain!From
    <3> QED BY <1>6, <2>2, <3>1 DEF Journeys, WalkStates, Chain!WalkSteps, Chain!Ended
  <2> QED BY <1>6, <2>1, <2>2
<1>8. walk'[t] = w BY <1>4, <1>5 DEF ChainTypes
<1>9. w.pc # "idle" => OnItsWay(t, l)'
  BY <1>1, <1>2, <1>5, <1>6, <1>7, <1>8 DEF OnItsWay, Chain!WalkSteps, Chain!Ended
<1>10. ChainWalks(l)' /\ walk' \in [Chain!Walks -> Journeys]
  BY <1>1, <1>4, <1>5, <1>7, <1>9, ChainBegins DEF ChainAt
<1>11. ChainLogs(l)'
  <2>1. CASE l = 1
    <3>1. \A s \in Chain!Members : ~(s < l) /\ ~(s < l - 1) BY <2>1 DEF Chain!Members
    <3> QED BY <3>1 DEF ChainLogs
  <2>2. CASE l > 1 BY <1>5, <1>6, <1>7, <1>8, <2>2, ChainAhead
  <2> QED BY <1>6, <2>1, <2>2
<1>12. ChainRows(l)' BY <1>1, <1>2 DEF ChainRows
<1>13. swept' \subseteq Chain!Members BY <1>1 DEF ChainTypes
<1> QED BY <1>1, <1>10, <1>11, <1>12, <1>13 DEF ChainTypes, ChainAt

LEMMA ChainReconciles ==
  ASSUME NEW l \in Chain!Members, ChainTypes, ChainAt(l), Chain!Reconcile
  PROVE ChainTypes' /\ ChainAt(l)'
<1> DEFINE lost == {i \in Chain!Members : state[i] \in Chain!Active /\ ~Chain!Attended(i)}
<1>1. /\ lost # {} /\ swept' = lost /\ UNCHANGED <<live, told, follow, walk, cut>>
      /\ state' = [i \in Chain!Members |-> IF i \in lost THEN "interrupted" ELSE state[i]]
  BY DEF Chain!Reconcile, Chain!logVars
<1>2. ChainRows(l) /\ l \in Nat BY ChainAssumption DEF ChainAt, Chain!Members
<1>3. \A i \in lost : i = l
  <2> SUFFICES ASSUME NEW i \in lost PROVE i = l OBVIOUS
  <2>1. i <= l /\ ~(i < l) BY <1>2 DEF ChainRows, Chain!Active, Chain!Ended
  <2> QED BY <1>2, <2>1 DEF Chain!Members
<1>4. l \in lost BY <1>1, <1>3
<1>5. state[l] \in Chain!Active /\ ~live[l] /\ walk[<<"start", l>>].pc = "idle"
  BY <1>4 DEF Chain!Attended
<1>6. \A u \in Chain!Walks : walk[u].pc = "idle" BY <1>5, ChainIdles
<1> HIDE DEF lost
<1>7. /\ state' \in [Chain!Members -> {"none"} \cup Chain!Active \cup Chain!Ended]
      /\ state'[l] = "interrupted" /\ \A j \in Chain!Members \ {l} : state'[j] = state[j]
  BY <1>1, <1>3, <1>4 DEF ChainTypes, Chain!Ended
<1>8. swept' = {l} BY <1>1, <1>3, <1>4
<1>9. ChainRows(l)'
  <2>1. \A j \in Chain!Members : j < l => j # l BY <1>2 DEF Chain!Members
  <2>2. state[l] # "none" BY <1>5 DEF Chain!Active
  <2> QED BY <1>1, <1>2, <1>5, <1>7, <1>8, <2>1, <2>2 DEF ChainRows
<1>10. ChainWalks(l)' BY <1>1, <1>6 DEF ChainWalks
<1>11. ChainLogs(l)' BY <1>8 DEF ChainLogs, LogTold, LogFollows, Owed
<1> QED BY <1>1, <1>7, <1>8, <1>9, <1>10, <1>11 DEF ChainTypes, ChainAt

\* A replay of the last run is the last run from now on.
LEMMA ChainCreates ==
  ASSUME NEW l \in Chain!Members, ChainTypes, ChainAt(l), NEW i \in Chain!Members,
         Chain!Create(i)
  PROVE ChainTypes' /\ ChainAt(i)'
<1> DEFINE t == <<"start", i>>
<1>1. /\ i > 1 /\ state[i] = "none" /\ state[i - 1] \in Chain!Ended
      /\ ~Chain!Busy(i - 1) /\ i - 1 \notin swept
      /\ state' = [state EXCEPT ![i] = "pending"]
      /\ UNCHANGED <<live, told, follow, swept, cut>>
  BY DEF Chain!Create, Chain!logVars
<1>2. ChainRows(l) /\ l \in Nat \ {0} /\ l <= Length /\ i \in Nat /\ i <= Length
  BY ChainAssumption DEF ChainAt, Chain!Members
<1>3. i - 1 \in Chain!Members BY <1>1, <1>2, ChainAssumption DEF Chain!Members
<1>4. l = i - 1
  <2>1. ~(i <= l) /\ i - 1 <= l BY <1>1, <1>2, <1>3 DEF ChainRows, Chain!Ended
  <2> QED BY <1>2, <2>1
<1>5. swept = {} BY <1>1, <1>2, <1>4 DEF ChainRows
<1>6. \A u \in Chain!Walks : walk[u].pc = "idle"
  <2> SUFFICES ASSUME NEW u \in Chain!Walks, walk[u].pc # "idle" PROVE FALSE OBVIOUS
  <2>1. u = <<u[1], l>> /\ u[1] \in {"start", "end", "cancel", "sweep"} BY ChainWay
  <2> QED BY <1>1, <1>4, <2>1 DEF Chain!Busy
<1>7. /\ state' \in [Chain!Members -> {"none"} \cup Chain!Active \cup Chain!Ended]
      /\ state'[i] = "pending" /\ \A j \in Chain!Members \ {i} : state'[j] = state[j]
  BY <1>1 DEF ChainTypes, Chain!Active
<1>8. PICK w : w = Chain!From(t, "claim", "running", TRUE) OBVIOUS
<1>9. walk' = [walk EXCEPT ![t] = w] BY <1>8 DEF Chain!Create
<1>10. t \in Chain!Walks /\ t[1] = "start" /\ t[2] = i BY DEF Chain!Walks
<1> HIDE DEF t
<1>11. w \in Journeys /\ w.pc = "claim" /\ w.at = i - 1 /\ w.state = "running"
  BY <1>1, <1>2, <1>8, <1>10 DEF Chain!From, Journeys, Chain!StartSteps, WalkStates
<1>12. /\ walk' \in [Chain!Walks -> Journeys] /\ walk'[t] = w
       /\ \A u \in Chain!Walks \ {t} : walk'[u] = walk[u]
  BY <1>9, <1>10, <1>11 DEF ChainTypes
<1>13. ~live[i] /\ \A j \in Chain!Members : ~live[j]
  <2>1. \A j \in Chain!Members : state[j] # "running"
    <3>1. \A j \in Chain!Members : state[j] # "none" => j < l \/ j = l
      BY <1>2 DEF ChainRows, Chain!Members
    <3> QED BY <1>1, <1>2, <1>4, <3>1 DEF ChainRows, Chain!Ended
  <2> QED BY <1>2, <2>1 DEF ChainRows
<1>14. ChainRows(i)'
  <2>1. \A j \in Chain!Members : (j <= i <=> j = i \/ j <= l) /\ (j < i <=> j = l \/ j < l)
    BY <1>2, <1>4 DEF Chain!Members
  <2>2. \A j \in Chain!Members : j < i => j # i BY DEF Chain!Members
  <2>3. \A j \in Chain!Members : state'[j] # "none" <=> j <= i
    BY <1>2, <1>7, <2>1 DEF ChainRows
  <2>4. \A j \in Chain!Members : j < i => state'[j] \in Chain!Ended
    BY <1>1, <1>2, <1>4, <1>7, <2>1, <2>2 DEF ChainRows
  <2> QED BY <1>1, <1>5, <1>13, <2>3, <2>4 DEF ChainRows
<1>15. ChainWalks(i)'
  <2>1. OnItsWay(t, i)' BY <1>1, <1>7, <1>10, <1>11, <1>12, <1>13 DEF OnItsWay
  <2> QED BY <1>6, <1>12, <2>1 DEF ChainWalks
<1>16. ChainLogs(i)' BY <1>10, <1>11, <1>12, ChainAhead
<1> QED BY <1>1, <1>7, <1>12, <1>14, <1>15, <1>16 DEF ChainTypes, ChainAt

LEMMA ChainCrashes ==
  ASSUME NEW l \in Chain!Members, ChainTypes, ChainAt(l), Chain!Crash
  PROVE ChainTypes' /\ ChainAt(l)'
<1>1. /\ live' = [i \in Chain!Members |-> FALSE] /\ walk' = [t \in Chain!Walks |-> Chain!Idle]
      /\ cut' = cut \cup swept \cup {i \in Chain!Members : state[i] \in Chain!Ended /\ Chain!Busy(i)}
      /\ swept' = {} /\ UNCHANGED <<state, told, follow>>
  BY DEF Chain!Crash, Chain!logVars
<1>2. Chain!Idle \in Journeys /\ Chain!Idle.pc = "idle" BY DEF Chain!Idle, Journeys, WalkStates
<1>3. ChainTypes' BY <1>1, <1>2 DEF ChainTypes
<1>4. ChainRows(l)' BY <1>1 DEF ChainAt, ChainRows
<1>5. ChainWalks(l)' BY <1>1, <1>2 DEF ChainWalks
<1>6. ASSUME l \notin cut', state[l] \in Chain!Active PROVE Owed(l)'
  <2>1. <<"start", l>> \in Chain!Walks BY DEF Chain!Walks
  <2> QED BY <1>1, <1>2, <1>6, <2>1 DEF Owed, Orphan
<1>7. ASSUME l \notin cut', state[l] \notin Chain!Active
      PROVE ~Owed(l) /\ \A u \in Chain!Walks : walk[u].pc = "idle"
  <2>1. state[l] # "none"
    BY ChainAssumption DEF ChainAt, ChainRows, Chain!Members
  <2>2. state[l] \in Chain!Ended BY <2>1, <1>7 DEF ChainTypes
  <2>3. ~Chain!Busy(l) /\ l \notin swept BY <1>1, <1>7, <2>2
  <2>4. ASSUME NEW u \in Chain!Walks, walk[u].pc # "idle" PROVE FALSE
    <3>1. u = <<u[1], l>> /\ u[1] \in {"start", "end", "cancel", "sweep"} BY <2>4, ChainWay
    <3> QED BY <2>3, <2>4, <3>1 DEF Chain!Busy
  <2> QED BY <1>7, <2>3, <2>4 DEF Owed, Orphan
<1>8. ChainLogs(l)'
  <2>1. CASE state[l] \in Chain!Active BY <1>6, <2>1 DEF ChainLogs, LogTold, LogFollows
  <2>2. CASE state[l] \notin Chain!Active
    <3> SUFFICES ASSUME l \notin cut' PROVE ChainLogs(l)' BY DEF ChainLogs
    <3>1. l \notin cut /\ ChainLogs(l) BY <1>1 DEF ChainAt
    <3>2. ~Owed(l) /\ \A s \in Chain!Members : \A u \in Chain!Walks :
                         ~Ahead(u, s) /\ ~AheadOfFollow(u, s)
      BY <1>7, <2>2 DEF Ahead, AheadOfFollow, Early
    <3>3. \A s \in Chain!Members :
            /\ s < l => told[s].run = l /\ told[s].state = Chain!Label(state[l])
            /\ s < l - 1 => follow[s].leaf = l /\ follow[s].state = state[l]
      BY <3>1, <3>2 DEF ChainLogs, LogTold, LogFollows
    <3> QED BY <1>1, <3>3 DEF ChainLogs, LogTold, LogFollows
  <2> QED BY <2>1, <2>2
<1> QED BY <1>3, <1>4, <1>5, <1>8 DEF ChainAt

LEMMA ChainSteps == ChainInv /\ [ReplayNext]_all => ChainInv'
<1> SUFFICES ASSUME ChainInv, [ReplayNext]_all PROVE ChainInv' OBVIOUS
<1>1. PICK l \in Chain!Members : ChainAt(l) BY DEF ChainInv
<1>2. ChainTypes BY DEF ChainInv
<1>3. CASE UNCHANGED chainVars
  <2>1. UNCHANGED <<state, live, told, follow, walk, swept, cut>> BY <1>3 DEF chainVars
  <2>2. ChainTypes' BY <1>2, <2>1 DEF ChainTypes
  <2>3. ChainRows(l)' BY <1>1, <2>1 DEF ChainAt, ChainRows
  <2>4. ChainWalks(l)' BY <1>1, <2>1 DEF ChainAt, ChainWalks, OnItsWay
  <2>5. ChainLogs(l)'
    BY <1>1, <2>1 DEF ChainAt, ChainLogs, LogTold, LogFollows, Owed, Orphan, Ahead, AheadOfFollow
  <2> QED BY <2>2, <2>3, <2>4, <2>5 DEF ChainInv, ChainAt
<1>4. ASSUME NEW t \in Chain!Walks, Chain!WalkStep(t) PROVE ChainInv'
  BY <1>1, <1>2, <1>4, ChainLoads, ChainLooks, ChainTells, ChainFollows DEF Chain!WalkStep, ChainInv
<1>5. ASSUME NEW i \in Chain!Members, Chain!StartStep(i) \/ Chain!DropStart(i) PROVE ChainInv'
  BY <1>1, <1>2, <1>5, ChainClaims, ChainStartsOn, ChainStartEnds DEF Chain!StartStep, ChainInv
<1>6. ASSUME NEW i \in Chain!Members, Chain!Create(i) PROVE ChainInv'
  BY <1>1, <1>2, <1>6, ChainCreates DEF ChainInv
<1>7. ASSUME NEW i \in Chain!Members, Chain!End(i) PROVE ChainInv'
  BY <1>1, <1>2, <1>7, ChainEnds DEF ChainInv
<1>8. ASSUME NEW i \in Chain!Members, Chain!Abort(i) \/ Chain!DropCancel(i) PROVE ChainInv'
  BY <1>1, <1>2, <1>8, ChainCuts DEF ChainInv
<1>9. ASSUME NEW i \in Chain!Members, Chain!Cancel(i) PROVE ChainInv'
  BY <1>1, <1>2, <1>9, ChainCancels DEF ChainInv
<1>10. ASSUME NEW i \in Chain!Members PROVE ~Chain!CancelStarting(i) BY DEF Chain!CancelStarting
<1>11. ASSUME NEW i \in Chain!Members, Chain!SweepTells(i) PROVE ChainInv'
  BY <1>1, <1>2, <1>11, ChainSweepTells DEF ChainInv
<1>12. CASE Chain!Reconcile BY <1>1, <1>2, <1>12, ChainReconciles DEF ChainInv
<1>13. CASE Chain!Crash BY <1>1, <1>2, <1>13, ChainCrashes DEF ChainInv
<1>14. Chain!Next => ChainInv'
  BY <1>4, <1>5, <1>6, <1>7, <1>8, <1>9, <1>10, <1>11, <1>12, <1>13 DEF Chain!Next
<1> QED BY <1>3, <1>14 DEF ReplayNext, all

\* Once everybody who tells of a run is done, the logs of the runs it continues say
\* what the rows say, for chains of any length and any number of crashes.
THEOREM LogsHold == ReplaySpec => []LogsAgreeWithRows
<1>1. ReplayInit => ChainInv BY ChainStarts
<1>2. ChainInv /\ [ReplayNext]_all => ChainInv' BY ChainSteps
<1>3. ChainInv => LogsAgreeWithRows BY ChainEndsWell
<1> QED BY <1>1, <1>2, <1>3, PTL DEF ReplaySpec

----------------------------------------------------------------------------
(* The requests to replay a run.                                           *)

\* Only a run that is over is replayed, and no automatic replay lies deeper than
\* the cap, for any runs, workers, callers, crashes and faults.
THEOREM LineageHolds == ReplaySpec => []LineageSound
<1> DEFINE I == Requests!LineageInv
<1>1. ReplayInit => I BY RequestsAssumption, Requests!LineageStart DEF ReplayInit
<1>2. I /\ [ReplayNext]_all => I'
  <2> SUFFICES ASSUME I, [ReplayNext]_all PROVE I' OBVIOUS
  <2>1. CASE Requests!Next BY <2>1, RequestsAssumption, Requests!LineageKept
  <2>2. CASE UNCHANGED requestVars
    <3>1. UNCHANGED Requests!vars
      BY <2>2 DEF requestVars, Requests!vars, Requests!rowVars, Requests!eventVars, Requests!execVars
    <3> QED BY <3>1, RequestsAssumption, Requests!LineageKept
  <2> QED BY <2>1, <2>2 DEF ReplayNext, all
<1>3. I => LineageSound BY DEF Requests!LineageInv, LineageSound
<1> QED BY <1>1, <1>2, <1>3, PTL DEF ReplaySpec
=============================================================================
