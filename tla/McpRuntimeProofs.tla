-------------------------- MODULE McpRuntimeProofs ---------------------------
(***************************************************************************)
(* What holds of McpRuntime for any number of runtimes and servers, any    *)
(* lease time and any number of faults and deaths; of the client of McpHttp*)
(* for any calls and any number of faults and restarts; of McpAdmission    *)
(* for any tools, servers and policies; and of McpUpdates for any number   *)
(* of updates, faults and restarts.                                        *)
(***************************************************************************)
EXTENDS MCMcpRuntime, FiniteSetTheorems, TLAPS

Stages == {"none", "stdio", "http"}
Passes == [stage : Stages, listed : BOOLEAN, todo : Seq(Resources), hit : BOOLEAN]

TypesOK ==
  /\ pc \in [Workers -> {"new", "sweep", "connect", "serve", "over"}]
  /\ durable \in [Workers -> BOOLEAN]
  /\ conn \in [Resources -> {"no", "open", "named", "kept", "off"}]
  /\ res \in [Resources -> {"none", "live", "gone"}]
  /\ rows \in Seq(Resources)
  /\ lease \in [Workers -> Nat \cup {NoLease}]
  /\ pass \in [Workers -> Passes]

\* A runtime has its lease before it opens anything, and keeps it in time.
LeasesOK == \A w \in Workers : durable[w] =>
              /\ pc[w] \in Live \cup {"over"}
              /\ Punctual /\ pc[w] \in Live => lease[w] \in Nat \ {0}

\* A row names what a runtime with a lease has opened.
RowsOK == \A i \in DOMAIN rows : durable[rows[i][1]] /\ conn[rows[i]] # "no"

\* A sweep works on what was left, and drops the row of what it has ended.
PassOK(v) ==
  /\ \A i \in DOMAIN pass[v].todo : LET r == pass[v].todo[i] IN
       conn[r] # "no" /\ (Punctual => pc[r[1]] = "over")
  /\ pass[v].todo # <<>> => pass[v].listed
  /\ pass[v].hit => pass[v].todo # <<>> /\ res[Head(pass[v].todo)] # "live"

TasksOK ==
  /\ \A w \in Workers : <<"lease", w>> \in tasks => pc[w] = "over"
  /\ \A r \in Resources : <<"session", r[1], r[2]>> \in tasks => pc[r[1]] = "over"
  /\ \A r \in Resources : <<"row", r[1], r[2]>> \in tasks =>
       conn[r] # "no" /\ (res[r] # "live" \/ r \in lost)

Inv == TypesOK /\ LeasesOK /\ RowsOK /\ (\A v \in Workers : PassOK(v)) /\ TasksOK

\* What no step takes back: nothing is opened twice, and a worker id is used once.
Onward ==
  /\ \A r \in Resources : conn[r] # "no" => conn'[r] # "no" /\ (res[r] # "live" => res'[r] # "live")
  /\ \A w \in Workers : pc[w] = "over" => pc'[w] = "over"
  /\ \A w \in Workers : durable[w] => durable'[w]
  /\ \A r \in Resources : r \in lost => r \in lost'

-----------------------------------------------------------------------------
(* Rows, sweeps and tasks *)

LEMMA RemoveAtKeeps ==
  ASSUME NEW S, NEW s \in Seq(S), NEW k \in DOMAIN s
  PROVE  /\ RemoveAt(s, k) \in Seq(S)
         /\ \A i \in DOMAIN RemoveAt(s, k) : \E j \in DOMAIN s : RemoveAt(s, k)[i] = s[j]
         /\ \A j \in DOMAIN s \ {k} : \E i \in DOMAIN RemoveAt(s, k) : RemoveAt(s, k)[i] = s[j]
<1> DEFINE n == Len(s)
           a == SubSeq(s, 1, k - 1)
           b == SubSeq(s, k + 1, n)
<1>1. n \in Nat /\ DOMAIN s = 1..n /\ k \in 1..n
  OBVIOUS
<1>2. a \in Seq(S) /\ Len(a) = k - 1 /\ \A i \in 1..(k - 1) : a[i] = s[i]
  BY <1>1
<1>3. b \in Seq(S) /\ Len(b) = n - k /\ \A i \in 1..(n - k) : b[i] = s[i + k]
  BY <1>1
<1> HIDE DEF n, a, b
<1>4. RemoveAt(s, k) = a \o b
  BY DEF RemoveAt, a, b, n
<1>5. /\ a \o b \in Seq(S) /\ DOMAIN (a \o b) = 1..(n - 1)
      /\ \A i \in 1..(k - 1) : (a \o b)[i] = s[i]
      /\ \A i \in k..(n - 1) : (a \o b)[i] = s[i + 1]
  <2>1. a \o b \in Seq(S) /\ DOMAIN (a \o b) = 1..(n - 1)
    <3>1. a \in Seq(S) /\ b \in Seq(S)
      BY <1>2, <1>3
    <3>2. a \o b \in Seq(S)
      BY <3>1
    <3>3. Len(a \o b) = Len(a) + Len(b)
      BY <3>1
    <3>4. DOMAIN (a \o b) = 1..Len(a \o b)
      BY <3>2
    <3>5. Len(a) + Len(b) = n - 1
      BY <1>1, <1>2, <1>3
    <3> QED
      BY <3>2, <3>3, <3>4, <3>5
  <2>2. \A i \in 1..(k - 1) : (a \o b)[i] = s[i]
    BY <1>1, <1>2, <1>3
  <2>3. ASSUME NEW i \in k..(n - 1) PROVE (a \o b)[i] = s[i + 1]
    <3>1. (a \o b)[i] = b[i - (k - 1)] /\ i - (k - 1) \in 1..(n - k)
      BY <1>1, <1>2, <1>3
    <3>2. b[i - (k - 1)] = s[(i - (k - 1)) + k]
      BY <1>3, <3>1
    <3>3. (i - (k - 1)) + k = i + 1
      BY <1>1
    <3> QED
      BY <3>1, <3>2, <3>3
  <2> QED
    BY <2>1, <2>2, <2>3
<1>6. ASSUME NEW j \in DOMAIN s \ {k} PROVE \E i \in DOMAIN (a \o b) : (a \o b)[i] = s[j]
  <2>1. CASE j < k
    BY <1>1, <1>5, <2>1
  <2>2. CASE j > k
    <3>1. j - 1 \in k..(n - 1)
      BY <1>1, <2>2
    <3>2. (a \o b)[j - 1] = s[(j - 1) + 1] /\ (j - 1) + 1 = j /\ j - 1 \in DOMAIN (a \o b)
      BY <1>1, <1>5, <3>1
    <3> QED
      BY <3>2
  <2> QED
    BY <1>1, <2>1, <2>2
<1>7. ASSUME NEW i \in 1..(n - 1) PROVE \E j \in DOMAIN s : (a \o b)[i] = s[j]
  <2>1. CASE i < k
    <3>1. i \in 1..(k - 1) /\ i \in DOMAIN s
      BY <1>1, <2>1
    <3>2. (a \o b)[i] = s[i]
      BY <1>5, <3>1
    <3> QED
      BY <3>1, <3>2
  <2>2. CASE ~(i < k)
    <3>1. i \in k..(n - 1) /\ i + 1 \in DOMAIN s
      BY <1>1, <2>2
    <3>2. (a \o b)[i] = s[i + 1]
      BY <1>5, <3>1
    <3> QED
      BY <3>1, <3>2
  <2> QED
    BY <2>1, <2>2
<1> QED
  BY <1>4, <1>5, <1>6, <1>7

LEMMA ResourcePair ==
  /\ \A w \in Workers, s \in Servers : <<w, s>> \in Resources
  /\ \A r \in Resources : r[1] \in Workers /\ r[2] \in Servers /\ r = <<r[1], r[2]>>
  BY DEF Resources

LEMMA RowsStay ==
  ASSUME TypesOK, RowsOK, Onward, UNCHANGED rows
  PROVE  RowsOK'
<1>1. \A i \in DOMAIN rows : rows[i] \in Resources /\ rows[i][1] \in Workers
  BY ResourcePair DEF TypesOK
<1> QED
  BY <1>1 DEF RowsOK, Onward

LEMMA PassStays ==
  ASSUME TypesOK, NEW v \in Workers, PassOK(v), Onward, pass'[v] = pass[v]
  PROVE  PassOK(v)'
<1>1. pass[v].todo \in Seq(Resources)
  BY DEF TypesOK, Passes
<1>2. /\ \A i \in DOMAIN pass[v].todo : pass[v].todo[i] \in Resources /\ pass[v].todo[i][1] \in Workers
      /\ pass[v].todo # <<>> => Head(pass[v].todo) \in Resources /\ Head(pass[v].todo) = pass[v].todo[1]
                                /\ 1 \in DOMAIN pass[v].todo
  BY <1>1, ResourcePair
<1> QED
  BY <1>2 DEF PassOK, Onward

LEMMA EmptyPass ==
  ASSUME NEW v, pass'[v].todo = <<>>, ~pass'[v].hit PROVE PassOK(v)'
<1>1. DOMAIN <<>> = {}
  OBVIOUS
<1> QED
  BY <1>1 DEF PassOK

LEMMA TasksStay ==
  ASSUME TypesOK, TasksOK, Onward, \A x : x \in tasks' => x \in tasks
  PROVE  TasksOK'
<1>1. \A w \in Workers : <<"lease", w>> \in tasks' => pc'[w] = "over"
  BY DEF TasksOK, Onward
<1>2. \A r \in Resources : <<"session", r[1], r[2]>> \in tasks' => pc'[r[1]] = "over"
  BY ResourcePair DEF TasksOK, Onward
<1>3. \A r \in Resources : <<"row", r[1], r[2]>> \in tasks' =>
        conn'[r] # "no" /\ (res'[r] # "live" \/ r \in lost')
  BY DEF TasksOK, Onward
<1> QED
  BY <1>1, <1>2, <1>3 DEF TasksOK

LEMMA NothingMoves ==
  ASSUME UNCHANGED <<pc, durable, conn, res, lost>> PROVE Onward
  BY DEF Onward

\* A step that leaves the leases to those who have them.
LEMMA LeasesStay ==
  ASSUME LeasesOK, UNCHANGED <<durable, lease>>,
         \A w \in Workers : durable[w] /\ pc'[w] # pc[w] => \/ pc'[w] = "over"
                                                            \/ pc[w] \in Live /\ pc'[w] \in Live
  PROVE  LeasesOK'
  BY DEF LeasesOK, Live

LEMMA DeletedRows ==
  ASSUME TypesOK, RowsOK, NEW r, DeleteRow(r)
  PROVE  /\ rows' \in Seq(Resources)
         /\ \A i \in DOMAIN rows' : \E j \in DOMAIN rows : rows'[i] = rows[j]
         /\ \A x : Recorded(x) /\ x # r => Recorded(x)'
<1>1. rows \in Seq(Resources)
  BY DEF TypesOK
<1>2. CASE Recorded(r)
  <2>1. \E i \in DOMAIN rows : rows[i] = r
    BY <1>1, <1>2 DEF Recorded, ToSet
  <2>2. PlaceOf(r) \in DOMAIN rows /\ rows[PlaceOf(r)] = r
    BY <2>1 DEF PlaceOf
  <2>3. PICK k \in DOMAIN rows : k = PlaceOf(r)
    BY <2>2
  <2>4. rows' = RemoveAt(rows, k) /\ rows[k] = r
    BY <1>2, <2>2, <2>3 DEF DeleteRow
  <2>5. /\ rows' \in Seq(Resources)
        /\ \A i \in DOMAIN rows' : \E j \in DOMAIN rows : rows'[i] = rows[j]
        /\ \A j \in DOMAIN rows \ {k} : \E i \in DOMAIN rows' : rows'[i] = rows[j]
    BY <1>1, <2>4, RemoveAtKeeps
  <2> QED
    BY <2>4, <2>5 DEF Recorded, ToSet
<1>3. CASE ~Recorded(r)
  BY <1>1, <1>3 DEF DeleteRow, Recorded
<1> QED
  BY <1>2, <1>3

LEMMA DeletedRowsOK ==
  ASSUME TypesOK, RowsOK, Onward, NEW r, DeleteRow(r)
  PROVE  rows' \in Seq(Resources) /\ RowsOK'
<1>1. /\ rows' \in Seq(Resources)
      /\ \A i \in DOMAIN rows' : \E j \in DOMAIN rows : rows'[i] = rows[j]
  BY DeletedRows
<1>2. \A i \in DOMAIN rows : rows[i] \in Resources /\ rows[i][1] \in Workers
  BY ResourcePair DEF TypesOK
<1> QED
  BY <1>1, <1>2 DEF RowsOK, Onward

LEMMA NextStageIs ==
  ASSUME TypesOK, NEW w \in Workers, NextStage(w)
  PROVE  /\ pass' \in [Workers -> Passes] /\ pass'[w].todo = <<>> /\ ~pass'[w].hit
         /\ \A v \in Workers \ {w} : pass'[v] = pass[v]
<1>1. <<>> \in Seq(Resources)
  OBVIOUS
<1>2. PICK e \in Seq(Resources) : e = <<>>
  BY <1>1
<1>3. NoPass = [stage |-> "none", listed |-> FALSE, todo |-> e, hit |-> FALSE]
  BY <1>2 DEF NoPass
<1>4. NoPass \in Passes /\ [NoPass EXCEPT !.stage = "http"] \in Passes
  BY <1>3 DEF Passes, Stages
<1>5. NoPass.todo = <<>> /\ ~NoPass.hit
  BY DEF NoPass
<1>6. [NoPass EXCEPT !.stage = "http"].todo = <<>> /\ ~[NoPass EXCEPT !.stage = "http"].hit
  BY <1>2, <1>3
<1> QED
  BY <1>4, <1>5, <1>6 DEF NextStage, TypesOK

-----------------------------------------------------------------------------
(* The steps *)

\* The row is there as long as what it names, and what is live is ended by its own.
RowKept == \A r \in Resources :
  Recorded(r) /\ res[r] = "live" /\ r \notin lost' => Recorded(r)' \/ res'[r] = "gone"
LiveKept == \A r \in Resources :
  res[r] = "live" /\ res'[r] = "gone" /\ pc'[r[1]] \in Live /\ durable[r[1]] => conn'[r] = "off"

Good == Inv' /\ RowKept /\ (Punctual => LiveKept)

LEMMA RowsKept ==
  ASSUME UNCHANGED rows PROVE RowKept
  BY DEF RowKept, Recorded

LEMMA ResKept ==
  ASSUME UNCHANGED res PROVE LiveKept
  BY DEF LiveKept

LEMMA QuietIsGood ==
  ASSUME Inv, TypesOK', LeasesOK', Onward, NEW w \in Workers, PassOK(w)',
         \A v \in Workers \ {w} : pass'[v] = pass[v],
         UNCHANGED <<rows, res>>, \A x : x \in tasks' => x \in tasks
  PROVE  Good
<1>1. RowsOK'
  BY RowsStay DEF Inv
<1>2. ASSUME NEW v \in Workers PROVE PassOK(v)'
  BY <1>2, PassStays DEF Inv
<1>3. TasksOK'
  BY TasksStay DEF Inv
<1> QED
  BY <1>1, <1>2, <1>3, RowsKept, ResKept DEF Good, Inv

LEMMA NoPassIs ==
  NoPass \in Passes /\ NoPass.todo = <<>> /\ ~NoPass.hit
<1>1. <<>> \in Seq(Resources)
  OBVIOUS
<1>2. PICK e \in Seq(Resources) : e = <<>>
  BY <1>1
<1>3. NoPass = [stage |-> "none", listed |-> FALSE, todo |-> e, hit |-> FALSE]
  BY <1>2 DEF NoPass
<1> QED
  BY <1>2, <1>3 DEF Passes, Stages

LEMMA FirstPassIs ==
  FirstPass \in Passes /\ FirstPass.todo = <<>> /\ ~FirstPass.hit
<1>1. <<>> \in Seq(Resources)
  OBVIOUS
<1>2. PICK e \in Seq(Resources) : e = <<>>
  BY <1>1
<1>3. NoPass = [stage |-> "none", listed |-> FALSE, todo |-> e, hit |-> FALSE]
  BY <1>2 DEF NoPass
<1>4. FirstPass \in Passes
  BY <1>3 DEF FirstPass, Passes, Stages
<1>5. FirstPass.todo = <<>> /\ ~FirstPass.hit
  BY <1>2, <1>3 DEF FirstPass
<1> QED
  BY <1>4, <1>5

LEMMA InitGood ==
  ASSUME Init PROVE Inv
<1>1. <<>> \in Seq(Resources) /\ DOMAIN <<>> = {}
  OBVIOUS
<1>2. NoPass \in Passes /\ NoPass.todo = <<>> /\ ~NoPass.hit
  BY NoPassIs
<1>6. TypesOK
  BY <1>1, <1>2 DEF Init, TypesOK
<1>7. LeasesOK /\ TasksOK
  BY DEF Init, LeasesOK, TasksOK
<1>8. RowsOK
  BY <1>1 DEF Init, RowsOK
<1>9. ASSUME NEW v \in Workers PROVE PassOK(v)
  BY <1>1, <1>2 DEF Init, PassOK
<1> QED
  BY <1>6, <1>7, <1>8, <1>9 DEF Inv

LEMMA TickGood ==
  ASSUME Inv, Tick PROVE Good
<1>1. /\ UNCHANGED <<pc, durable, conn, used, res, rows, pass, tasks, lost>>
      /\ \A w \in Workers : lease'[w] = IF lease[w] \in {NoLease, 0} THEN lease[w] ELSE lease[w] - 1
      /\ DOMAIN lease' = Workers /\ lease' = [w \in Workers |-> lease'[w]]
      /\ Punctual => \A w \in Workers : durable[w] => InTime(w)
  BY DEF Tick, owned
<1>2. Onward
  BY <1>1 DEF Onward
<1>3. TypesOK'
  <2>1. \A w \in Workers : lease'[w] \in Nat \cup {NoLease}
    BY <1>1 DEF Inv, TypesOK
  <2> QED
    BY <1>1, <2>1 DEF Inv, TypesOK
<1>4. LeasesOK'
  <2> SUFFICES ASSUME NEW w \in Workers, durable[w]
               PROVE  /\ pc[w] \in Live \cup {"over"}
                      /\ Punctual /\ pc[w] \in Live => lease'[w] \in Nat \ {0}
    BY <1>1 DEF LeasesOK
  <2>1. pc[w] \in Live \cup {"over"}
    BY DEF Inv, LeasesOK
  <2>2. ASSUME Punctual, pc[w] \in Live PROVE lease'[w] \in Nat \ {0}
    <3>1. lease[w] \in Nat \ {0} /\ lease[w] > 1
      BY <1>1, <2>2 DEF Inv, LeasesOK, InTime, Live
    <3>2. lease[w] \notin {NoLease, 0}
      BY <3>1, McpRuntimeAssumption
    <3> QED
      BY <1>1, <3>1, <3>2
  <2> QED
    BY <2>1, <2>2
<1>5. RowsOK'
  BY <1>1, <1>2, RowsStay DEF Inv
<1>6. ASSUME NEW v \in Workers PROVE PassOK(v)'
  BY <1>1, <1>2, PassStays DEF Inv
<1>7. TasksOK'
  BY <1>1, <1>2, TasksStay DEF Inv
<1> QED
  BY <1>1, <1>3, <1>4, <1>5, <1>6, <1>7, RowsKept, ResKept DEF Good, Inv

LEMMA StartGood ==
  ASSUME Inv, NEW w \in Workers, Start(w) PROVE Good
<1>1. /\ UNCHANGED <<durable, conn, res, rows, lease, tasks, lost>>
      /\ pc[w] = "new" /\ pc' = [pc EXCEPT ![w] = "sweep"]
      /\ pass' = [pass EXCEPT ![w] = FirstPass]
  BY DEF Start, timed
<1>5. FirstPass \in Passes /\ FirstPass.todo = <<>> /\ ~FirstPass.hit
  BY FirstPassIs
<1>6. TypesOK'
  BY <1>1, <1>5 DEF Inv, TypesOK
<1>7. Onward
  BY <1>1 DEF Onward, Inv, TypesOK
<1>8. LeasesOK'
  BY <1>1 DEF Inv, LeasesOK, TypesOK, Live
<1>9. PassOK(w)'
  BY <1>1, <1>5, EmptyPass DEF Inv, TypesOK
<1>10. \A v \in Workers \ {w} : pass'[v] = pass[v]
  BY <1>1 DEF Inv, TypesOK
<1> QED
  BY <1>1, <1>6, <1>7, <1>8, <1>9, <1>10, QuietIsGood

LEMMA RegisterGood ==
  ASSUME Inv, NEW w \in Workers, Register(w) PROVE Good
<1>1. /\ UNCHANGED <<conn, res, rows, pass, tasks, lost>>
      /\ pc[w] = "sweep" /\ pc' = [pc EXCEPT ![w] = "connect"]
      /\ \/ lease' = [lease EXCEPT ![w] = LeaseTime] /\ durable' = [durable EXCEPT ![w] = TRUE]
         \/ UNCHANGED <<lease, durable>>
  BY DEF Register, UpsertLease
<1>2. LeaseTime \in Nat \ {0}
  BY McpRuntimeAssumption
<1>3. TypesOK'
  BY <1>1, <1>2 DEF Inv, TypesOK
<1>4. Onward
  BY <1>1 DEF Onward, Inv, TypesOK
<1>5. ~durable[w]
  BY <1>1 DEF Inv, LeasesOK, Live
<1>6. LeasesOK'
  BY <1>1, <1>2, <1>5 DEF Inv, LeasesOK, TypesOK, Live
<1>7. PassOK(w)'
  BY <1>1, <1>4, PassStays DEF Inv
<1> QED
  BY <1>1, <1>3, <1>4, <1>6, <1>7, QuietIsGood

LEMMA ServeGood ==
  ASSUME Inv, NEW w \in Workers, Serve(w) PROVE Good
<1>1. /\ UNCHANGED <<durable, conn, res, rows, pass, lease, tasks, lost>>
      /\ pc[w] = "connect" /\ pc' = [pc EXCEPT ![w] = "serve"]
  BY DEF Serve
<1>2. TypesOK'
  BY <1>1 DEF Inv, TypesOK
<1>3. Onward
  BY <1>1 DEF Onward, Inv, TypesOK
<1>4. LeasesOK'
  BY <1>1 DEF Inv, LeasesOK, TypesOK, Live
<1>5. PassOK(w)'
  BY <1>1, <1>3, PassStays DEF Inv
<1> QED
  BY <1>1, <1>2, <1>3, <1>4, <1>5, QuietIsGood

LEMMA RenewGood ==
  ASSUME Inv, NEW w \in Workers, Renew(w) PROVE Good
<1>1. /\ UNCHANGED <<pc, durable, conn, res, rows, tasks, lost>>
      /\ pass' = [pass EXCEPT ![w] = FirstPass]
      /\ lease' = [lease EXCEPT ![w] = LeaseTime] \/ UNCHANGED lease
  BY DEF Renew, UpsertLease, owned
<1>5. FirstPass \in Passes /\ FirstPass.todo = <<>> /\ ~FirstPass.hit
  BY FirstPassIs
<1>6. LeaseTime \in Nat \ {0}
  BY McpRuntimeAssumption
<1>7. TypesOK'
  BY <1>1, <1>5, <1>6 DEF Inv, TypesOK
<1>8. Onward
  BY <1>1 DEF Onward
<1>9. LeasesOK'
  BY <1>1, <1>6 DEF Inv, LeasesOK, TypesOK
<1>10. PassOK(w)'
  BY <1>1, <1>5, EmptyPass DEF Inv, TypesOK
<1>11. \A v \in Workers \ {w} : pass'[v] = pass[v]
  BY <1>1 DEF Inv, TypesOK
<1> QED
  BY <1>1, <1>7, <1>8, <1>9, <1>10, <1>11, QuietIsGood

LEMMA OpenGood ==
  ASSUME Inv, NEW w \in Workers, NEW s \in Servers, Open(w, s) PROVE Good
<1> DEFINE r == <<w, s>>
<1>0. r \in Resources /\ r[1] = w /\ r[2] = s
  BY ResourcePair
<1>1. /\ UNCHANGED <<pc, durable, rows, lease, pass, tasks>>
      /\ conn[r] = "no"
      /\ \E c \in {"open", "off"} : conn' = [conn EXCEPT ![r] = c]
      /\ UNCHANGED res \/ res' = [res EXCEPT ![r] = "live"]
      /\ \A x : x \in lost => x \in lost'
  BY DEF Open, timed
<1> HIDE DEF r
<1>2. TypesOK'
  BY <1>0, <1>1 DEF Inv, TypesOK
<1>3. Onward
  BY <1>0, <1>1 DEF Onward, Inv, TypesOK
<1>4. LeasesOK'
  BY <1>1, LeasesStay DEF Inv
<1>5. RowsOK'
  BY <1>1, <1>3, RowsStay DEF Inv
<1>6. ASSUME NEW v \in Workers PROVE PassOK(v)'
  BY <1>1, <1>3, PassStays DEF Inv
<1>7. TasksOK'
  BY <1>1, <1>3, TasksStay DEF Inv
<1>8. LiveKept
  BY <1>0, <1>1 DEF LiveKept, Inv, TypesOK
<1> QED
  BY <1>1, <1>2, <1>4, <1>5, <1>6, <1>7, <1>8, RowsKept DEF Good, Inv

LEMMA RecordGood ==
  ASSUME Inv, NEW w \in Workers, NEW s \in Servers, Record(w, s) PROVE Good
<1> DEFINE r == <<w, s>>
<1>0. r \in Resources /\ r[1] = w /\ r[2] = s
  BY ResourcePair
<1>1. /\ UNCHANGED <<pc, durable, res, lease, pass, tasks>>
      /\ conn[r] = "open" /\ conn' = [conn EXCEPT ![r] = "named"]
      /\ (durable[w] /\ rows' = Append(rows, r)) \/ UNCHANGED rows
      /\ \A x : x \in lost => x \in lost'
  BY DEF Record, InsertRow, timed
<1> HIDE DEF r
<1>2. rows \in Seq(Resources)
  BY DEF Inv, TypesOK
<1>3. /\ rows' \in Seq(Resources)
      /\ \A i \in DOMAIN rows' : (i \in DOMAIN rows /\ rows'[i] = rows[i]) \/ (durable[w] /\ rows'[i] = r)
      /\ \A i \in DOMAIN rows : i \in DOMAIN rows' /\ rows'[i] = rows[i]
  <2>1. CASE UNCHANGED rows
    BY <1>2, <2>1
  <2>2. CASE durable[w] /\ rows' = Append(rows, r)
    <3>1. /\ Append(rows, r) \in Seq(Resources) /\ Len(Append(rows, r)) = Len(rows) + 1
          /\ Append(rows, r)[Len(rows) + 1] = r
          /\ \A i \in 1..Len(rows) : Append(rows, r)[i] = rows[i]
      BY <1>0, <1>2
    <3>2. DOMAIN rows = 1..Len(rows) /\ Len(rows) \in Nat
      BY <1>2
    <3>3. DOMAIN Append(rows, r) = 1..(Len(rows) + 1)
      BY <3>1
    <3>4. \A i \in 1..(Len(rows) + 1) : i \in 1..Len(rows) \/ i = Len(rows) + 1
      BY <3>2
    <3> QED
      BY <2>2, <3>1, <3>2, <3>3, <3>4
  <2> QED
    BY <1>1, <2>1, <2>2
<1>4. TypesOK'
  BY <1>0, <1>1, <1>3 DEF Inv, TypesOK
<1>5. Onward
  BY <1>0, <1>1 DEF Onward, Inv, TypesOK
<1>6. LeasesOK'
  BY <1>1, LeasesStay DEF Inv
<1>7. RowsOK'
  <2>1. \A i \in DOMAIN rows : rows[i] \in Resources
    BY <1>2
  <2>2. conn'[r] # "no"
    BY <1>0, <1>1 DEF Inv, TypesOK
  <2>3. \A i \in DOMAIN rows : durable[rows[i][1]] /\ conn'[rows[i]] # "no"
    BY <2>1, <1>5 DEF Inv, RowsOK, Onward
  <2>4. \A i \in DOMAIN rows' : durable[rows'[i][1]] /\ conn'[rows'[i]] # "no"
    BY <1>0, <1>3, <2>2, <2>3
  <2> QED
    BY <1>1, <2>4 DEF RowsOK
<1>8. ASSUME NEW v \in Workers PROVE PassOK(v)'
  BY <1>1, <1>5, PassStays DEF Inv
<1>9. TasksOK'
  BY <1>1, <1>5, TasksStay DEF Inv
<1>10. RowKept
  BY <1>3 DEF RowKept, Recorded, ToSet
<1>11. LiveKept
  BY <1>1, ResKept
<1> QED
  BY <1>4, <1>6, <1>7, <1>8, <1>9, <1>10, <1>11 DEF Good, Inv

LEMMA SettleGood ==
  ASSUME Inv, NEW w \in Workers, NEW s \in Servers, Settle(w, s) PROVE Good
<1> DEFINE r == <<w, s>>
           x == <<"row", w, s>>
<1>0. r \in Resources /\ r[1] = w /\ r[2] = s
  BY ResourcePair
<1>1. /\ UNCHANGED <<pc, durable, rows, lease, pass, lost>>
      /\ conn[r] = "named"
      /\ \E c \in {"kept", "off"} : conn' = [conn EXCEPT ![r] = c]
      /\ \/ UNCHANGED <<res, tasks>>
         \/ /\ conn' = [conn EXCEPT ![r] = "off"] /\ res' = [res EXCEPT ![r] = "gone"]
            /\ \A y : y \in tasks' => y \in tasks \/ y = x
  BY DEF Settle, timed
<1>2. TypesOK'
  BY <1>0, <1>1 DEF Inv, TypesOK
<1>3. Onward
  BY <1>0, <1>1 DEF Onward, Inv, TypesOK
<1>4. LeasesOK'
  BY <1>1, LeasesStay DEF Inv
<1>5. RowsOK'
  BY <1>1, <1>3, RowsStay DEF Inv
<1>6. ASSUME NEW v \in Workers PROVE PassOK(v)'
  BY <1>1, <1>3, PassStays DEF Inv
<1>7. TasksOK'
  <2>1. CASE UNCHANGED tasks
    BY <1>3, <2>1, TasksStay DEF Inv
  <2>2. CASE /\ conn' = [conn EXCEPT ![r] = "off"] /\ res' = [res EXCEPT ![r] = "gone"]
             /\ \A y : y \in tasks' => y \in tasks \/ y = x
    <3>1. \A v \in Workers : <<"lease", v>> \in tasks' => <<"lease", v>> \in tasks
      BY <2>2
    <3>2. \A q \in Resources : <<"session", q[1], q[2]>> \in tasks' => <<"session", q[1], q[2]>> \in tasks
      BY <2>2
    <3>3. \A q \in Resources : <<"row", q[1], q[2]>> \in tasks' => <<"row", q[1], q[2]>> \in tasks \/ q = r
      BY <2>2, ResourcePair
    <3>4. conn'[r] # "no" /\ res'[r] # "live"
      BY <1>0, <2>2 DEF Inv, TypesOK
    <3>5. \A v \in Workers : <<"lease", v>> \in tasks' => pc'[v] = "over"
      BY <1>3, <3>1 DEF Inv, TasksOK, Onward
    <3>6. \A q \in Resources : <<"session", q[1], q[2]>> \in tasks' => pc'[q[1]] = "over"
      BY <1>3, <3>2, ResourcePair DEF Inv, TasksOK, Onward
    <3>7. \A q \in Resources : <<"row", q[1], q[2]>> \in tasks' =>
            conn'[q] # "no" /\ (res'[q] # "live" \/ q \in lost')
      BY <1>3, <3>3, <3>4 DEF Inv, TasksOK, Onward
    <3> QED
      BY <3>5, <3>6, <3>7 DEF TasksOK
  <2> QED
    BY <1>1, <2>1, <2>2
<1>8. LiveKept
  BY <1>0, <1>1 DEF LiveKept, Inv, TypesOK
<1> QED
  BY <1>1, <1>2, <1>4, <1>5, <1>6, <1>7, <1>8, RowsKept DEF Good, Inv

LEMMA StalePlacesAre ==
  ASSUME Inv, NEW kind, NEW l \in StaleRows(kind)
  PROVE  /\ l \in Seq(Resources)
         /\ \A i \in DOMAIN l : \E j \in DOMAIN rows : l[i] = rows[j] /\ Stale(rows[j])
<1>1. rows \in Seq(Resources)
  BY DEF Inv, TypesOK
<1>2. PICK P : P = StalePlaces(kind)
  OBVIOUS
<1>3. P \subseteq DOMAIN rows /\ \A p \in P : Stale(rows[p])
  BY <1>2 DEF StalePlaces
<1>4. IsFiniteSet(P)
  <2>1. DOMAIN rows = 1..Len(rows) /\ Len(rows) \in Nat
    BY <1>1
  <2>2. IsFiniteSet(1..Len(rows))
    BY <2>1, FS_Interval
  <2> QED
    BY <1>3, <2>1, <2>2, FS_Subset
<1>5. Cardinality(P) \in Nat /\ Batch \in Nat
  BY <1>4, FS_CardinalityType, McpRuntimeAssumption
<1>6. PICK m \in Oldest(P) : l = [i \in DOMAIN m |-> rows[m[i]]]
  BY <1>2 DEF StaleRows
<1>7. PICK n \in Nat : m \in [1..n -> P]
  BY <1>5 DEF Oldest
<1>8. /\ DOMAIN l = 1..n
      /\ \A i \in 1..n : m[i] \in DOMAIN rows /\ l[i] = rows[m[i]] /\ Stale(rows[m[i]])
  BY <1>3, <1>6, <1>7
<1>9. \A i \in 1..n : l[i] \in Resources
  BY <1>1, <1>8
<1>10. l = [i \in 1..n |-> l[i]]
  BY <1>6, <1>7
<1>11. l \in Seq(Resources)
  BY <1>9, <1>10
<1> QED
  BY <1>8, <1>11

LEMMA StaleIsOver ==
  ASSUME Inv, NEW j \in DOMAIN rows, Stale(rows[j])
  PROVE  conn[rows[j]] # "no" /\ (Punctual => pc[rows[j][1]] = "over")
<1>1. rows[j] \in Resources /\ rows[j][1] \in Workers
  BY ResourcePair DEF Inv, TypesOK
<1>2. conn[rows[j]] # "no" /\ durable[rows[j][1]]
  BY DEF Inv, RowsOK
<1>3. lease[rows[j][1]] \notin Nat \ {0}
  BY McpRuntimeAssumption DEF Stale
<1> QED
  BY <1>1, <1>2, <1>3 DEF Inv, LeasesOK

\* A sweep changes nothing of its own runtime.
LEMMA ListStaleGood ==
  ASSUME Inv, NEW w \in Workers, ListStale(w) PROVE Good
<1>1. /\ UNCHANGED <<pc, durable, conn, res, rows, lease, tasks, lost>>
      /\ \/ \E l \in StaleRows(pass[w].stage) :
              pass' = [pass EXCEPT ![w].listed = TRUE, ![w].todo = l]
         \/ NextStage(w)
      /\ ~pass[w].listed
  BY DEF ListStale, SweepRest, owned, timed
<1>2. Onward
  BY <1>1, NothingMoves
<1>3. LeasesOK'
  BY <1>1, LeasesStay DEF Inv
<1>4. CASE NextStage(w)
  <2>1. /\ pass' \in [Workers -> Passes] /\ pass'[w].todo = <<>> /\ ~pass'[w].hit
        /\ \A v \in Workers \ {w} : pass'[v] = pass[v]
    BY <1>4, NextStageIs DEF Inv
  <2>2. TypesOK'
    BY <1>1, <2>1 DEF Inv, TypesOK
  <2>3. PassOK(w)'
    BY <2>1, EmptyPass
  <2> QED
    BY <1>1, <1>2, <1>3, <2>1, <2>2, <2>3, QuietIsGood
<1>5. CASE \E l \in StaleRows(pass[w].stage) :
              pass' = [pass EXCEPT ![w].listed = TRUE, ![w].todo = l]
  <2>1. PICK l \in StaleRows(pass[w].stage) :
              pass' = [pass EXCEPT ![w].listed = TRUE, ![w].todo = l]
    BY <1>5
  <2>2. /\ l \in Seq(Resources)
        /\ \A i \in DOMAIN l : \E j \in DOMAIN rows : l[i] = rows[j] /\ Stale(rows[j])
    BY StalePlacesAre
  <2>3. pass[w] \in Passes
    BY DEF Inv, TypesOK
  <2>4. /\ pass' \in [Workers -> Passes] /\ pass'[w].todo = l /\ pass'[w].hit = pass[w].hit
        /\ \A v \in Workers \ {w} : pass'[v] = pass[v]
    <3>1. [[pass[w] EXCEPT !.listed = TRUE] EXCEPT !.todo = l] \in Passes
      BY <2>2, <2>3 DEF Passes
    <3> QED
      BY <2>1, <2>2, <2>3, <3>1 DEF Inv, TypesOK, Passes
  <2>5. TypesOK'
    BY <1>1, <2>4 DEF Inv, TypesOK
  <2>6. PassOK(w)'
    <3>0. pass'[w].listed
      BY <2>1, <2>3 DEF Inv, TypesOK, Passes
    <3>1. ASSUME NEW i \in DOMAIN l PROVE conn[l[i]] # "no" /\ (Punctual => pc[l[i][1]] = "over")
      BY <2>2, <3>1, StaleIsOver
    <3>2. ~pass[w].hit
      BY <1>1 DEF Inv, PassOK
    <3> QED
      BY <1>1, <2>4, <3>0, <3>1, <3>2 DEF PassOK
  <2> QED
    BY <1>1, <1>2, <1>3, <2>4, <2>5, <2>6, QuietIsGood
<1> QED
  BY <1>1, <1>4, <1>5

LEMMA HeadOfPass ==
  ASSUME Inv, NEW w \in Workers, pass[w].todo # <<>>
  PROVE  /\ Head(pass[w].todo) \in Resources
         /\ Head(pass[w].todo)[1] \in Workers
         /\ conn[Head(pass[w].todo)] # "no"
         /\ Punctual => pc[Head(pass[w].todo)[1]] = "over"
<1>1. pass[w].todo \in Seq(Resources)
  BY DEF Inv, TypesOK, Passes
<1>2. PICK l \in Seq(Resources) : l = pass[w].todo
  BY <1>1
<1>3. l # <<>> /\ Head(l) = l[1] /\ 1 \in DOMAIN l /\ l[1] \in Resources
  BY <1>2
<1>4. conn[l[1]] # "no" /\ (Punctual => pc[l[1][1]] = "over")
  BY <1>2, <1>3 DEF Inv, PassOK
<1>5. Head(pass[w].todo) = l[1] /\ l[1][1] \in Workers
  BY <1>2, <1>3, ResourcePair
<1> QED
  BY <1>3, <1>4, <1>5

LEMMA LeaveIs ==
  ASSUME Inv, NEW w \in Workers, pass[w].todo # <<>>, Leave(w), Onward
  PROVE  /\ pass' \in [Workers -> Passes] /\ PassOK(w)'
         /\ \A v \in Workers \ {w} : pass'[v] = pass[v]
<1>1. pass[w] \in Passes /\ pass[w].todo \in Seq(Resources) /\ pass \in [Workers -> Passes]
  BY DEF Inv, TypesOK, Passes
<1>2. PICK l \in Seq(Resources) : l = pass[w].todo
  BY <1>1
<1>3. PICK m \in Seq(Resources) : m = Tail(l)
  <2>1. l # <<>>
    BY <1>2
  <2>2. Tail(l) \in Seq(Resources)
    BY <2>1
  <2> QED
    BY <2>2
<1>4. /\ \A i \in DOMAIN m : i + 1 \in DOMAIN l /\ m[i] = l[i + 1]
      /\ \A i \in DOMAIN l : l[i] \in Resources /\ l[i][1] \in Workers
  <2>0. l # <<>>
    BY <1>2
  <2>1. Len(m) = Len(l) - 1 /\ Len(l) \in Nat /\ DOMAIN m = 1..Len(m) /\ DOMAIN l = 1..Len(l)
    BY <1>3, <2>0
  <2>2. \A i \in 1..(Len(l) - 1) : m[i] = l[i + 1]
    BY <1>3, <2>0
  <2> QED
    BY <2>1, <2>2, ResourcePair
<1>5. [[pass[w] EXCEPT !.todo = m] EXCEPT !.hit = FALSE] \in Passes
  BY <1>1 DEF Passes
<1>6. pass' = [pass EXCEPT ![w].todo = m, ![w].hit = FALSE]
  BY <1>2, <1>3 DEF Leave
<1>7. /\ pass' \in [Workers -> Passes]
      /\ pass'[w].todo = m
      /\ ~pass'[w].hit
      /\ pass'[w].listed = pass[w].listed
      /\ \A v \in Workers \ {w} : pass'[v] = pass[v]
  BY <1>1, <1>5, <1>6 DEF Passes
<1>8. pass[w].listed
  BY DEF Inv, PassOK
<1>9. ASSUME NEW i \in DOMAIN m PROVE conn'[m[i]] # "no" /\ (Punctual => pc'[m[i][1]] = "over")
  <2>1. conn[l[i + 1]] # "no" /\ (Punctual => pc[l[i + 1][1]] = "over")
    BY <1>2, <1>4 DEF Inv, PassOK
  <2> QED
    BY <1>4, <2>1 DEF Onward
<1>10. PassOK(w)'
  BY <1>7, <1>8, <1>9 DEF PassOK
<1> QED
  BY <1>7, <1>10

LEMMA EndStaleGood ==
  ASSUME Inv, NEW w \in Workers, EndStale(w) PROVE Good
<1>1. PICK r \in Resources : r = Head(pass[w].todo)
  BY HeadOfPass DEF EndStale
<1>2. pass[w].todo # <<>>
  BY DEF EndStale
<1>3. conn[r] # "no" /\ (Punctual => pc[r[1]] = "over")
  BY <1>1, <1>2, HeadOfPass
<1>4. /\ UNCHANGED <<pc, durable, conn, rows, lease, tasks, lost>>
      /\ \/ /\ pass' = [pass EXCEPT ![w].hit = TRUE]
            /\ res' = [res EXCEPT ![r] = IF res[r] = "live" THEN "gone" ELSE res[r]]
         \/ Leave(w) /\ UNCHANGED res
  BY <1>1 DEF EndStale, SweepRest, owned, timed
<1>5. Onward
  BY <1>4 DEF Onward, Inv, TypesOK
<1>6. LeasesOK'
  BY <1>4, LeasesStay DEF Inv
<1>7. CASE Leave(w) /\ UNCHANGED res
  <2>1. /\ pass' \in [Workers -> Passes] /\ PassOK(w)'
        /\ \A v \in Workers \ {w} : pass'[v] = pass[v]
    BY <1>2, <1>5, <1>7, LeaveIs
  <2>2. TypesOK'
    BY <1>4, <1>7, <2>1 DEF Inv, TypesOK
  <2> QED
    BY <1>4, <1>5, <1>6, <1>7, <2>1, <2>2, QuietIsGood
<1>8. CASE /\ pass' = [pass EXCEPT ![w].hit = TRUE]
           /\ res' = [res EXCEPT ![r] = IF res[r] = "live" THEN "gone" ELSE res[r]]
  <2>1. pass[w] \in Passes
    BY DEF Inv, TypesOK
  <2>2. [pass[w] EXCEPT !.hit = TRUE] \in Passes
    BY <2>1 DEF Passes
  <2>3. /\ pass' \in [Workers -> Passes]
        /\ pass'[w].todo = pass[w].todo
        /\ pass'[w].listed = pass[w].listed
        /\ \A v \in Workers \ {w} : pass'[v] = pass[v]
    BY <1>8, <2>1, <2>2 DEF Inv, TypesOK, Passes
  <2>4. /\ res' \in [Resources -> {"none", "live", "gone"}]
        /\ res'[r] # "live"
        /\ \A q \in Resources : res'[q] = res[q] \/ q = r
    BY <1>8 DEF Inv, TypesOK
  <2>5. TypesOK'
    BY <1>4, <2>3, <2>4 DEF Inv, TypesOK
  <2>6. RowsOK'
    BY <1>4, <1>5, RowsStay DEF Inv
  <2>7. PassOK(w)'
    <3>1. Head(pass'[w].todo) = r /\ pass'[w].todo # <<>>
      BY <1>1, <1>2, <2>3
    <3>2. pass'[w].listed
      BY <1>2, <2>3 DEF Inv, PassOK
    <3>3. \A i \in DOMAIN pass[w].todo : LET q == pass[w].todo[i] IN
            conn[q] # "no" /\ (Punctual => pc[q[1]] = "over")
      BY DEF Inv, PassOK
    <3> QED
      BY <1>4, <2>3, <2>4, <3>1, <3>2, <3>3 DEF PassOK
  <2>8. ASSUME NEW v \in Workers PROVE PassOK(v)'
    BY <1>5, <2>3, <2>7, PassStays DEF Inv
  <2>9. TasksOK'
    BY <1>4, <1>5, TasksStay DEF Inv
  <2>10. ASSUME Punctual PROVE LiveKept
    BY <1>3, <1>4, <2>4, <2>10 DEF LiveKept, Live
  <2> QED
    BY <1>4, <1>6, <2>5, <2>6, <2>8, <2>9, <2>10, RowsKept DEF Good, Inv
<1> QED
  BY <1>4, <1>7, <1>8

LEMMA DropStaleGood ==
  ASSUME Inv, NEW w \in Workers, DropStale(w) PROVE Good
<1>1. PICK r \in Resources : r = Head(pass[w].todo)
  BY HeadOfPass DEF DropStale
<1>2. /\ UNCHANGED <<pc, durable, conn, res, lease, tasks, lost>>
      /\ pass[w].todo # <<>> /\ pass[w].hit /\ Leave(w)
      /\ DeleteRow(r) \/ UNCHANGED rows
  BY <1>1 DEF DropStale, Struck, SweepRest, owned, timed
<1>3. Onward
  BY <1>2, NothingMoves
<1>4. LeasesOK'
  BY <1>2, LeasesStay DEF Inv
<1>5. /\ pass' \in [Workers -> Passes] /\ PassOK(w)'
      /\ \A v \in Workers \ {w} : pass'[v] = pass[v]
  BY <1>2, <1>3, LeaveIs
<1>6. res[r] # "live"
  BY <1>1, <1>2 DEF Inv, PassOK
<1>7. /\ rows' \in Seq(Resources) /\ RowsOK'
      /\ \A x : Recorded(x) /\ x # r => Recorded(x)'
  <2>1. CASE DeleteRow(r)
    BY <1>3, <2>1, DeletedRows, DeletedRowsOK DEF Inv
  <2>2. CASE UNCHANGED rows
    BY <1>3, <2>2, RowsStay DEF Inv, TypesOK, Recorded
  <2> QED
    BY <1>2, <2>1, <2>2
<1>8. TypesOK'
  BY <1>2, <1>5, <1>7 DEF Inv, TypesOK
<1>9. ASSUME NEW v \in Workers PROVE PassOK(v)'
  BY <1>3, <1>5, PassStays DEF Inv
<1>10. TasksOK'
  BY <1>2, <1>3, TasksStay DEF Inv
<1>11. RowKept
  BY <1>6, <1>7 DEF RowKept
<1> QED
  BY <1>2, <1>4, <1>7, <1>8, <1>9, <1>10, <1>11, ResKept DEF Good, Inv

LEMMA EndStageGood ==
  ASSUME Inv, NEW w \in Workers, EndStage(w) PROVE Good
<1>1. /\ UNCHANGED <<pc, durable, conn, res, rows, lease, tasks, lost>>
      /\ NextStage(w)
  BY DEF EndStage, SweepRest, owned, timed
<1>2. Onward
  BY <1>1, NothingMoves
<1>3. LeasesOK'
  BY <1>1, LeasesStay DEF Inv
<1>4. /\ pass' \in [Workers -> Passes] /\ pass'[w].todo = <<>> /\ ~pass'[w].hit
      /\ \A v \in Workers \ {w} : pass'[v] = pass[v]
  BY <1>1, NextStageIs DEF Inv
<1>5. TypesOK'
  BY <1>1, <1>4 DEF Inv, TypesOK
<1>6. PassOK(w)'
  BY <1>4, EmptyPass
<1> QED
  BY <1>1, <1>2, <1>3, <1>4, <1>5, <1>6, QuietIsGood

LEMMA LeaseTaskGood ==
  ASSUME Inv, NEW w \in Workers, LeaseTask(w) PROVE Good
<1>1. /\ UNCHANGED <<pc, durable, conn, res, rows, pass, lost>>
      /\ <<"lease", w>> \in tasks /\ \A x : x \in tasks' => x \in tasks
      /\ lease' = [lease EXCEPT ![w] = NoLease] \/ UNCHANGED lease
  BY DEF LeaseTask, DeleteLease, owned
<1>2. Onward
  BY <1>1, NothingMoves
<1>3. TypesOK'
  BY <1>1 DEF Inv, TypesOK
<1>4. pc[w] = "over"
  BY <1>1 DEF Inv, TasksOK
<1>5. LeasesOK'
  BY <1>1, <1>4 DEF Inv, LeasesOK, TypesOK, Live
<1>6. PassOK(w)'
  BY <1>1, <1>2, PassStays DEF Inv
<1> QED
  BY <1>1, <1>2, <1>3, <1>5, <1>6, QuietIsGood

LEMMA RowTaskGood ==
  ASSUME Inv, NEW w \in Workers, NEW s \in Servers, RowTask(w, s) PROVE Good
<1>1. PICK r \in Resources : r = <<w, s>> /\ r[1] = w /\ r[2] = s
  BY ResourcePair
<1>2. /\ UNCHANGED <<pc, durable, conn, res, lease, pass, lost>>
      /\ <<"row", r[1], r[2]>> \in tasks /\ \A x : x \in tasks' => x \in tasks
      /\ DeleteRow(r) \/ UNCHANGED rows
  BY <1>1 DEF RowTask, owned, timed
<1>3. Onward
  BY <1>2, NothingMoves
<1>4. LeasesOK'
  BY <1>2, LeasesStay DEF Inv
<1>5. res[r] # "live" \/ r \in lost
  BY <1>2 DEF Inv, TasksOK
<1>6. /\ rows' \in Seq(Resources) /\ RowsOK'
      /\ \A x : Recorded(x) /\ x # r => Recorded(x)'
  <2>1. CASE DeleteRow(r)
    BY <1>3, <2>1, DeletedRows, DeletedRowsOK DEF Inv
  <2>2. CASE UNCHANGED rows
    BY <1>3, <2>2, RowsStay DEF Inv, TypesOK, Recorded
  <2> QED
    BY <1>2, <2>1, <2>2
<1>7. TypesOK'
  BY <1>2, <1>6 DEF Inv, TypesOK
<1>8. ASSUME NEW v \in Workers PROVE PassOK(v)'
  BY <1>2, <1>3, PassStays DEF Inv
<1>9. TasksOK'
  BY <1>2, <1>3, TasksStay DEF Inv
<1>10. RowKept
  BY <1>2, <1>5, <1>6 DEF RowKept
<1> QED
  BY <1>2, <1>4, <1>6, <1>7, <1>8, <1>9, <1>10, ResKept DEF Good, Inv

LEMMA SessionTaskGood ==
  ASSUME Inv, NEW w \in Workers, NEW s \in Servers, SessionTask(w, s) PROVE Good
<1>1. PICK r \in Resources : r = <<w, s>> /\ r[1] = w /\ r[2] = s
  BY ResourcePair
<1> DEFINE x == <<"row", w, s>>
<1>2. /\ UNCHANGED <<pc, durable, conn, rows, lease, pass>>
      /\ <<"session", r[1], r[2]>> \in tasks
      /\ \A y : y \in tasks' => y \in tasks \/ (y = x /\ Recorded(r))
      /\ \/ res' = [res EXCEPT ![r] = "gone"] /\ UNCHANGED lost
         \/ lost' = lost \cup {r} /\ UNCHANGED res
  BY <1>1 DEF SessionTask, owned, timed
<1>3. Onward
  BY <1>2 DEF Onward, Inv, TypesOK
<1>4. LeasesOK'
  BY <1>2, LeasesStay DEF Inv
<1>5. TypesOK'
  BY <1>2 DEF Inv, TypesOK
<1>6. RowsOK'
  BY <1>2, <1>3, RowsStay DEF Inv
<1>7. ASSUME NEW v \in Workers PROVE PassOK(v)'
  BY <1>2, <1>3, PassStays DEF Inv
<1>8. TasksOK'
  <2>1. \A v \in Workers : <<"lease", v>> \in tasks' => <<"lease", v>> \in tasks
    BY <1>2
  <2>2. \A q \in Resources : <<"session", q[1], q[2]>> \in tasks' => <<"session", q[1], q[2]>> \in tasks
    BY <1>2
  <2>3. \A q \in Resources : <<"row", q[1], q[2]>> \in tasks' =>
          <<"row", q[1], q[2]>> \in tasks \/ (q = r /\ Recorded(r))
    BY <1>1, <1>2, ResourcePair
  <2>4. Recorded(r) => conn'[r] # "no"
    <3>1. Recorded(r) => \E i \in DOMAIN rows : rows[i] = r
      BY DEF Recorded, ToSet
    <3> QED
      BY <1>2, <3>1 DEF Inv, RowsOK
  <2>5. res'[r] # "live" \/ r \in lost'
    BY <1>2 DEF Inv, TypesOK
  <2>6. \A v \in Workers : <<"lease", v>> \in tasks' => pc'[v] = "over"
    BY <1>3, <2>1 DEF Inv, TasksOK, Onward
  <2>7. \A q \in Resources : <<"session", q[1], q[2]>> \in tasks' => pc'[q[1]] = "over"
    BY <1>3, <2>2, ResourcePair DEF Inv, TasksOK, Onward
  <2>8. \A q \in Resources : <<"row", q[1], q[2]>> \in tasks' =>
          conn'[q] # "no" /\ (res'[q] # "live" \/ q \in lost')
    BY <1>3, <2>3, <2>4, <2>5 DEF Inv, TasksOK, Onward
  <2> QED
    BY <2>6, <2>7, <2>8 DEF TasksOK
<1>9. LiveKept
  <2>1. pc[r[1]] = "over"
    BY <1>2 DEF Inv, TasksOK
  <2>2. \A q \in Resources : q # r => res'[q] = res[q]
    BY <1>2 DEF Inv, TypesOK
  <2> QED
    BY <1>2, <2>1, <2>2 DEF LiveKept, Live
<1> QED
  BY <1>2, <1>4, <1>5, <1>6, <1>7, <1>8, <1>9, RowsKept DEF Good, Inv

\* What every end of a runtime has in common.
Ends(w) ==
  /\ Over(w) /\ UNCHANGED <<durable, conn, rows, lease>>
  /\ \A r \in Resources : res'[r] = res[r] \/ (r[1] = w /\ res'[r] = "gone")
  /\ DOMAIN res' = Resources /\ res' = [r \in Resources |-> res'[r]]
  /\ \A r : r \in lost => r \in lost'
  /\ \A v \in Workers : <<"lease", v>> \in tasks' => <<"lease", v>> \in tasks \/ v = w
  /\ \A r \in Resources : <<"session", r[1], r[2]>> \in tasks' =>
       <<"session", r[1], r[2]>> \in tasks \/ r[1] = w
  /\ \A r \in Resources : <<"row", r[1], r[2]>> \in tasks' =>
       <<"row", r[1], r[2]>> \in tasks \/ (conn[r] # "no" /\ res'[r] = "gone")

LEMMA EndIsGood ==
  ASSUME Inv, NEW w \in Workers, pc[w] # "new", Ends(w) PROVE Good
<1>1. /\ UNCHANGED <<durable, conn, rows, lease>>
      /\ pc' = [pc EXCEPT ![w] = "over"] /\ pass' = [pass EXCEPT ![w] = NoPass]
  BY DEF Ends, Over
<1>2. \A r \in Resources : res'[r] = res[r] \/ (r[1] = w /\ res'[r] = "gone")
  BY DEF Ends
<1>3. NoPass \in Passes /\ NoPass.todo = <<>> /\ ~NoPass.hit
  BY NoPassIs
<1>4. Onward
  BY <1>1, <1>2 DEF Ends, Onward, Inv, TypesOK
<1>5. TypesOK'
  <2>1. \A r \in Resources : res'[r] \in {"none", "live", "gone"}
    BY <1>2 DEF Inv, TypesOK
  <2>2. res' \in [Resources -> {"none", "live", "gone"}]
    BY <2>1 DEF Ends
  <2> QED
    BY <1>1, <1>3, <2>2 DEF Inv, TypesOK
<1>6. LeasesOK'
  BY <1>1, LeasesStay DEF Inv, TypesOK
<1>7. RowsOK'
  BY <1>1, <1>4, RowsStay DEF Inv
<1>8. PassOK(w)' /\ \A v \in Workers \ {w} : pass'[v] = pass[v]
  BY <1>1, <1>3, EmptyPass DEF Inv, TypesOK
<1>9. ASSUME NEW v \in Workers PROVE PassOK(v)'
  BY <1>4, <1>8, PassStays DEF Inv
<1>10. TasksOK'
  <2>1. pc'[w] = "over"
    BY <1>1 DEF Inv, TypesOK
  <2>2. \A v \in Workers : <<"lease", v>> \in tasks' => pc'[v] = "over"
    BY <1>4, <2>1 DEF Ends, Inv, TasksOK, Onward
  <2>3. \A r \in Resources : <<"session", r[1], r[2]>> \in tasks' => pc'[r[1]] = "over"
    BY <1>4, <2>1, ResourcePair DEF Ends, Inv, TasksOK, Onward
  <2>4. \A r \in Resources : <<"row", r[1], r[2]>> \in tasks' =>
          conn'[r] # "no" /\ (res'[r] # "live" \/ r \in lost')
    BY <1>4 DEF Ends, Inv, TasksOK, Onward
  <2> QED
    BY <2>2, <2>3, <2>4 DEF TasksOK
<1>11. LiveKept
  <2>1. pc'[w] = "over"
    BY <1>1 DEF Inv, TypesOK
  <2> QED
    BY <1>2, <2>1 DEF LiveKept, Live
<1> QED
  BY <1>1, <1>5, <1>6, <1>7, <1>9, <1>10, <1>11, RowsKept DEF Good, Inv

LEMMA ReleaseGood ==
  ASSUME Inv, NEW w \in Workers, Release(w) PROVE Good
<1>1. CASE Shutdown(w)
  <2> DEFINE kept == {s \in Servers : conn[w, s] = "kept"}
  <2>1. /\ UNCHANGED <<durable, conn, rows, lease, lost>> /\ pc[w] = "serve" /\ Over(w)
        /\ res' = [r \in Resources |-> IF r[1] = w /\ r[2] \in kept \cap Stdio
                                       THEN "gone" ELSE res[r]]
        /\ \A x : x \in tasks' =>
             \/ x \in tasks
             \/ \E s \in kept \cap Stdio : x = <<"row", w, s>>
             \/ \E s \in kept \cap Http : x = <<"session", w, s>>
             \/ x = <<"lease", w>>
    BY <1>1 DEF Release, Shutdown, timed
  <2>2. \A s \in kept : s \in Servers /\ conn[<<w, s>>] = "kept"
    OBVIOUS
  <2> HIDE DEF kept
  <2>3. \A v \in Workers : <<"lease", v>> \in tasks' => <<"lease", v>> \in tasks \/ v = w
    BY <2>1
  <2>4. \A r \in Resources : <<"session", r[1], r[2]>> \in tasks' =>
          <<"session", r[1], r[2]>> \in tasks \/ r[1] = w
    BY <2>1
  <2>5. ASSUME NEW r \in Resources, <<"row", r[1], r[2]>> \in tasks', <<"row", r[1], r[2]>> \notin tasks
        PROVE  conn[r] # "no" /\ res'[r] = "gone"
    <3>1. PICK s \in kept \cap Stdio : <<"row", r[1], r[2]>> = <<"row", w, s>>
      BY <2>1, <2>5
    <3>2. r[1] = w /\ r[2] = s /\ r = <<w, s>>
      BY <3>1, ResourcePair
    <3> QED
      BY <2>1, <2>2, <3>1, <3>2
  <2>6. Ends(w)
    BY <2>1, <2>3, <2>4, <2>5 DEF Ends
  <2> QED
    BY <2>1, <2>6, EndIsGood
<1>2. CASE UNCHANGED <<res, tasks, pc, pass>>
  <2>1. UNCHANGED <<pc, durable, conn, res, rows, lease, tasks, pass, lost>>
    BY <1>2 DEF Release, timed
  <2>2. Onward
    BY <2>1, NothingMoves
  <2>3. TypesOK'
    BY <2>1 DEF Inv, TypesOK
  <2>4. LeasesOK'
    BY <2>1, LeasesStay DEF Inv
  <2>5. PassOK(w)'
    BY <2>1, <2>2, PassStays DEF Inv
  <2> QED
    BY <2>1, <2>2, <2>3, <2>4, <2>5, QuietIsGood
<1> QED
  BY <1>1, <1>2 DEF Release

LEMMA AbandonGood ==
  ASSUME Inv, NEW w \in Workers, Abandon(w) PROVE Good
<1>1. /\ UNCHANGED <<durable, conn, rows, lease, tasks>> /\ pc[w] = "connect" /\ Over(w)
      /\ res' = [r \in Resources |-> IF r[1] = w /\ r[2] \in Stdio /\ res[r] = "live"
                                     THEN "gone" ELSE res[r]]
      /\ \A r : r \in lost => r \in lost'
  BY DEF Abandon, timed
<1>2. Ends(w)
  BY <1>1 DEF Ends
<1> QED
  BY <1>1, <1>2, EndIsGood

LEMMA CrashGood ==
  ASSUME Inv, NEW w \in Workers, Crash(w) PROVE Good
<1>1. /\ UNCHANGED <<durable, conn, res, rows, lease>> /\ pc[w] # "new" /\ Over(w)
      /\ \A x : x \in tasks' => x \in tasks
      /\ \A r : r \in lost => r \in lost'
  BY DEF Crash, timed
<1>2. Ends(w)
  BY <1>1 DEF Ends, Inv, TypesOK
<1> QED
  BY <1>1, <1>2, EndIsGood

-----------------------------------------------------------------------------
LEMMA NextGood ==
  ASSUME Inv, Next PROVE Good
<1>1. ASSUME NEW w \in Workers, Step(w) PROVE Good
  <2>1. CASE Connect(w)
    BY <2>1, OpenGood, RecordGood, SettleGood DEF Connect
  <2>2. CASE Sweep(w)
    BY <2>2, ListStaleGood, EndStaleGood, DropStaleGood, EndStageGood DEF Sweep
  <2>3. CASE Task(w)
    BY <2>3, LeaseTaskGood, RowTaskGood, SessionTaskGood DEF Task
  <2> QED
    BY <1>1, <2>1, <2>2, <2>3, RegisterGood, ServeGood, RenewGood DEF Step
<1> QED
  BY <1>1, TickGood, StartGood, ReleaseGood, AbandonGood, CrashGood DEF Next

LEMMA StutterGood ==
  ASSUME Inv, UNCHANGED vars PROVE Good
<1>1. UNCHANGED <<pc, durable, conn, res, rows, lease, tasks, pass, lost>>
  BY DEF vars, owned, timed
<1>2. Onward
  BY <1>1, NothingMoves
<1>3. TypesOK'
  BY <1>1 DEF Inv, TypesOK
<1>4. LeasesOK'
  BY <1>1, LeasesStay DEF Inv
<1>5. RowsOK'
  BY <1>1, <1>2, RowsStay DEF Inv
<1>6. ASSUME NEW v \in Workers PROVE PassOK(v)'
  BY <1>1, <1>2, PassStays DEF Inv
<1>7. TasksOK'
  BY <1>1, <1>2, TasksStay DEF Inv
<1> QED
  BY <1>1, <1>3, <1>4, <1>5, <1>6, <1>7, RowsKept, ResKept DEF Good, Inv

LEMMA StepsAreGood ==
  Inv /\ [Next]_vars => Good
  BY NextGood, StutterGood

LEMMA InvHolds ==
  Spec => []Inv
<1>1. Inv /\ [Next]_vars => Inv'
  BY StepsAreGood DEF Good
<1> QED
  BY <1>1, InitGood, PTL DEF Spec

\* A manifest row outlives what it names, whatever the leases do: no sweep and no
\* shutdown task deletes the row of a process group or a session that is there,
\* but for one whose DELETE has failed (delete_http_session, lib.rs).
THEOREM RowsGoLast ==
  Spec => RowGoesLast
<1>1. Inv /\ [Next]_vars =>
        [\A r \in Resources : Recorded(r) /\ res[r] = "live" /\ r \notin lost'
                             => Recorded(r)' \/ res'[r] = "gone"]_vars
  BY StepsAreGood DEF Good, RowKept
<1> QED
  BY <1>1, InvHolds, PTL DEF Spec, RowGoesLast

\* The sweeps and the shutdown end nothing of a live runtime that renews its lease
\* in time, and lose no row of what they left.
THEOREM SweepsHold ==
  Punctual => (Spec => SweepsAreSafe)
<1> SUFFICES ASSUME Punctual PROVE Spec => SweepsAreSafe
  OBVIOUS
<1>1. Inv /\ [Next]_vars =>
        [\A r \in Resources : /\ res[r] = "live" /\ res'[r] = "gone"
                              /\ pc'[r[1]] \in Live /\ durable[r[1]]
                              => conn'[r] = "off"]_vars
  BY StepsAreGood DEF Good, LiveKept
<1>2. Spec => LiveIsLeft
  BY <1>1, InvHolds, PTL DEF Spec, LiveIsLeft
<1> QED
  BY <1>2, RowsGoLast, PTL DEF SweepsAreSafe

-----------------------------------------------------------------------------
(* The client of an HTTP server: a session, who can end it, and its row.   *)

HttpSteps == {"none", "sent", "served", "body", "keep", "insert", "done", "failed",
              "reading", "wait"}
HttpTypes ==
  /\ next \in {1, 2} /\ sessions \subseteq {1}
  /\ client \in [state : {"new", "up", "shut", "gone"}, session : {0, 1}, ready : BOOLEAN, row : Nat]
  /\ req \in [HttpClient!Requests ->
                [pc : HttpSteps, session : {0, 1}, status : {"none", "ok", "unknown"}]]
  /\ manifests \in Seq({0, 1})
  /\ closing \in [pc : {"none", "session", "delete", "row", "drop", "gone"}, session : {0, 1},
                  row : Nat]
  /\ refused \in BOOLEAN

\* One session is ever opened, by the first request of the client.
HttpOpening ==
  /\ req["initialize"].pc \in {"none", "sent"} => next = 1 /\ sessions = {}
  /\ req["initialize"].pc \in {"served", "body", "keep", "insert"} => req["initialize"].session = 1
  /\ req["initialize"].pc \in {"served", "body"} => req["initialize"].status = "ok"
  /\ req["initialize"].pc \notin {"reading", "wait"}
  /\ client.state = "new" /\ req["initialize"].pc \in {"body", "keep", "insert", "done"}
       => client.session = 1

\* The order of a connection, and of its end.
HttpOrder ==
  /\ client.state # "gone" /\ req["initialize"].pc # "done" =>
       /\ client.state = "new" /\ manifests = <<>>
       /\ \A r \in HttpClient!Requests \ {"initialize"} : req[r].pc = "none"
  /\ client.state = "new" =>
       \A r \in HttpClient!Requests \ {"initialize", "initialized"} : req[r].pc = "none"
  /\ client.state \in {"up", "shut"} => req["initialized"].pc = "done"
  /\ client.state \in {"new", "up"} => closing.pc = "none"
  /\ client.state = "shut" => closing.pc # "none"
  /\ client.state = "up" \/ (client.state = "shut" /\ closing.pc = "session") => client.session = 1
  /\ closing.pc \in {"delete", "row", "drop", "gone"} => closing.session = 1

HttpRows == closing.pc \in {"none", "session", "delete", "row"} =>
              client.row = Len(manifests) /\ Len(manifests) <= 1

\* Once the client is beyond its first request, or gone, a session that is open has a
\* row or is lost, and it is lost once an attempt to end it was made.
HttpKnown ==
  1 \in sessions =>
    /\ HttpClient!Attempted => 1 \in unnamed
    /\ req["initialize"].pc \in {"done", "failed"} \/ client.state = "gone" =>
         1 \in HttpClient!Named \cup unnamed

HttpInv == /\ HttpTypes /\ HttpOpening /\ HttpOrder /\ HttpRows /\ HttpKnown
           /\ HttpClient!KeepsListening

LEMMA HttpNames ==
  ASSUME NEW rows2 \in Seq({0, 1}), NEW x \in {0, 1}
  PROVE  /\ Append(rows2, x) \in Seq({0, 1}) /\ Len(Append(rows2, x)) = Len(rows2) + 1
         /\ \A j \in DOMAIN rows2 : j \in DOMAIN Append(rows2, x) /\ Append(rows2, x)[j] = rows2[j]
         /\ Len(rows2) + 1 \in DOMAIN Append(rows2, x) /\ Append(rows2, x)[Len(rows2) + 1] = x
         /\ rows2 = <<>> <=> Len(rows2) = 0
OBVIOUS

LEMMA HttpDrops ==
  ASSUME NEW rows2 \in Seq({0, 1}), NEW k, NEW x \in {0, 1}
  PROVE  /\ [rows2 EXCEPT ![k] = x] \in Seq({0, 1}) /\ Len([rows2 EXCEPT ![k] = x]) = Len(rows2)
         /\ \A j \in DOMAIN rows2 \ {k} : j \in DOMAIN [rows2 EXCEPT ![k] = x] /\ [rows2 EXCEPT ![k] = x][j] = rows2[j]
<1> DEFINE s == [rows2 EXCEPT ![k] = x]
<1>1. Len(rows2) \in Nat /\ DOMAIN rows2 = 1..Len(rows2) /\ DOMAIN s = DOMAIN rows2
  OBVIOUS
<1>2. \A j \in DOMAIN rows2 : s[j] = IF j = k THEN x ELSE rows2[j]
  OBVIOUS
<1>0. rows2 \in [1..Len(rows2) -> {0, 1}]
  OBVIOUS
<1>3. s \in [1..Len(rows2) -> {0, 1}]
  BY <1>0
<1> HIDE DEF s
<1>4. s \in Seq({0, 1}) /\ Len(s) = Len(rows2)
  BY <1>1, <1>3
<1> QED BY <1>1, <1>2, <1>4 DEF s

LEMMA HttpIndex == {"initialize", "initialized", "stream"} \subseteq HttpClient!Requests
BY DEF HttpClient!Requests

LEMMA HttpInitial == HttpClient!Init => HttpInv
<1> SUFFICES ASSUME HttpClient!Init PROVE HttpInv
  OBVIOUS
<1> USE HttpIndex DEF HttpClient!Init, HttpClient!Idle, HttpClient!Open, HttpClient!NoSession, HttpClient!NoRow
<1>1. manifests \in Seq({0, 1}) /\ Len(manifests) = 0
  OBVIOUS
<1>0. HttpTypes BY <1>1 DEF HttpTypes, HttpSteps
<1>2. HttpOpening /\ HttpOrder /\ HttpRows BY DEF HttpOpening, HttpOrder, HttpRows
<1>3. HttpKnown /\ HttpClient!KeepsListening BY DEF HttpKnown, HttpClient!KeepsListening
<1> QED BY <1>0, <1>2, <1>3 DEF HttpInv



HttpRequest == [pc : HttpSteps, session : {0, 1}, status : {"none", "ok", "unknown"}]

LEMMA HttpChanges ==
  ASSUME HttpTypes, NEW r \in HttpClient!Requests, NEW v \in HttpRequest,
         req' = [req EXCEPT ![r] = v]
  PROVE  /\ req[r] \in HttpRequest /\ req'[r] = v
         /\ \A q \in HttpClient!Requests \ {r} : req'[q] = req[q]
         /\ req' \in [HttpClient!Requests -> HttpRequest]
BY DEF HttpTypes, HttpRequest

\* Another request than the first is made when the first is done, and later ones when
\* the client is up.
LEMMA HttpPosts ==
  ASSUME HttpInv, NEW r \in HttpClient!Requests, HttpClient!Post(r)
  PROVE  HttpInv'
<1>0. /\ UNCHANGED <<next, sessions, client, manifests, closing, refused, unnamed>>
      /\ req[r].pc = "none"
      /\ r = "initialize" => client.state = "new"
      /\ r = "initialized" => req["initialize"].pc = "done"
      /\ r \notin {"initialize", "initialized"} => client.state = "up"
  BY DEF HttpClient!Post, HttpClient!At, HttpClient!MayPost, HttpClient!serverVars
<1>1. PICK v \in HttpRequest :
        /\ req' = [req EXCEPT ![r] = v] /\ v.pc \in {"sent", "done"}
        /\ v.pc = "done" => r = "stream" /\ client.session = 0
  <2> DEFINE s == IF r = "stream" /\ client.session = 0 THEN "done" ELSE "sent"
  <2>1. HttpClient!Idle \in HttpRequest /\ client.session \in {0, 1}
    BY DEF HttpInv, HttpTypes, HttpRequest, HttpSteps, HttpClient!Idle, HttpClient!NoSession
  <2>2. s \in {"sent", "done"} /\ s \in HttpSteps
    BY DEF HttpSteps
  <2>3. /\ [HttpClient!Idle EXCEPT !.session = client.session, !.pc = s] \in HttpRequest
        /\ [HttpClient!Idle EXCEPT !.session = client.session, !.pc = s].pc = s
    BY <2>1, <2>2 DEF HttpRequest
  <2>4. req' = [req EXCEPT ![r] = [HttpClient!Idle EXCEPT !.session = client.session, !.pc = s]]
    BY DEF HttpClient!Post, HttpClient!NoSession
  <2> QED BY <2>2, <2>3, <2>4
<1>4. /\ \A q \in HttpClient!Requests \ {r} : req'[q] = req[q]
      /\ req'[r].pc = v.pc /\ req' \in [HttpClient!Requests -> HttpRequest]
  BY <1>1, HttpChanges DEF HttpInv
<1>3. HttpTypes' BY <1>0, <1>4 DEF HttpInv, HttpTypes, HttpRequest
<1> USE HttpIndex
<1>5. HttpOpening' BY <1>0, <1>1, <1>4 DEF HttpInv, HttpOpening, HttpTypes
<1>6. HttpOrder' BY <1>0, <1>1, <1>4 DEF HttpInv, HttpOrder, HttpTypes, HttpOpening
<1>7. HttpRows' BY <1>0 DEF HttpInv, HttpRows
<1>8. HttpKnown' BY <1>0, <1>1, <1>4 DEF HttpInv, HttpKnown, HttpOpening, HttpClient!Named, HttpClient!Attempted, HttpClient!NoSession
<1>9. HttpClient!KeepsListening' BY <1>0, <1>1, <1>4 DEF HttpInv, HttpClient!KeepsListening, HttpOrder
<1> QED BY <1>3, <1>5, <1>6, <1>7, <1>8, <1>9 DEF HttpInv

LEMMA HttpServes ==
  ASSUME HttpInv, NEW r \in HttpClient!Requests, HttpClient!Serve(r)
  PROVE  HttpInv'
<1> USE HttpIndex
<1>0. /\ UNCHANGED <<client, manifests, closing, refused, unnamed>>
      /\ req[r].pc = "sent" /\ client.state # "gone"
  BY DEF HttpClient!Serve, HttpClient!At, HttpClient!Runs
<1>1. PICK v \in HttpRequest :
        /\ req' = [req EXCEPT ![r] = v] /\ v.pc = "served"
        /\ r = "initialize" => v.status = "ok" /\ v.session = 1
  <2>1. CASE r = "initialize"
    BY <1>0, <2>1 DEF HttpInv, HttpOpening, HttpClient!Serve, HttpRequest, HttpSteps
  <2>2. CASE r # "initialize"
    BY <2>2 DEF HttpInv, HttpTypes, HttpClient!Serve, HttpRequest, HttpSteps, HttpClient!NoSession
  <2> QED BY <2>1, <2>2
<1>2. /\ \A q \in HttpClient!Requests \ {r} : req'[q] = req[q]
      /\ req'[r] = v /\ req' \in [HttpClient!Requests -> HttpRequest]
  BY <1>1, HttpChanges DEF HttpInv
<1>3. IF r = "initialize" THEN sessions = {} /\ sessions' = {1} /\ next' = 2
      ELSE UNCHANGED <<sessions, next>>
  BY <1>0 DEF HttpInv, HttpOpening, HttpClient!Serve
<1>4. HttpTypes' BY <1>0, <1>2, <1>3 DEF HttpInv, HttpTypes, HttpRequest
<1>5. HttpOpening' BY <1>0, <1>1, <1>2, <1>3 DEF HttpInv, HttpOpening, HttpTypes
<1>6. HttpOrder' BY <1>0, <1>1, <1>2 DEF HttpInv, HttpOrder, HttpTypes, HttpOpening
<1>7. HttpRows' BY <1>0 DEF HttpInv, HttpRows
<1>8. HttpKnown'
  BY <1>0, <1>1, <1>2, <1>3
     DEF HttpInv, HttpKnown, HttpOpening, HttpOrder, HttpClient!Named, HttpClient!Attempted, HttpClient!NoSession
<1>9. HttpClient!KeepsListening' BY <1>0, <1>1, <1>2 DEF HttpInv, HttpClient!KeepsListening, HttpOrder
<1> QED BY <1>4, <1>5, <1>6, <1>7, <1>8, <1>9 DEF HttpInv

LEMMA HttpAnswers ==
  ASSUME HttpInv, NEW r \in HttpClient!Requests, HttpClient!Answered(r)
  PROVE  HttpInv'
<1> USE HttpIndex
<1>0. /\ UNCHANGED <<next, sessions, manifests, closing, refused, unnamed>>
      /\ req[r].pc = "body" /\ r # "stream" /\ client.state # "gone"
  BY DEF HttpClient!Answered, HttpClient!At, HttpClient!Runs, HttpClient!serverVars
<1>1. PICK pc2 \in {"keep", "done", "failed"} :
        /\ req' = [req EXCEPT ![r].pc = pc2]
        /\ r = "initialize" => pc2 = "keep"
        /\ r # "initialize" => pc2 # "keep"
        /\ pc2 = "keep" => \E b \in BOOLEAN : client' = [client EXCEPT !.ready = b]
        /\ r = "initialized" /\ pc2 = "done" => client' = [client EXCEPT !.state = "up"]
        /\ r = "initialized" /\ pc2 = "failed" => client' = [client EXCEPT !.state = "gone"]
        /\ r \notin {"initialize", "initialized"} => client' = client
  BY <1>0 DEF HttpInv, HttpOpening, HttpClient!Answered, HttpClient!Fails, HttpClient!Step
<1>2. [req[r] EXCEPT !.pc = pc2] \in HttpRequest
  BY DEF HttpInv, HttpTypes, HttpRequest, HttpSteps
<1>3. /\ \A q \in HttpClient!Requests \ {r} : req'[q] = req[q]
      /\ req'[r] = [req[r] EXCEPT !.pc = pc2] /\ req' \in [HttpClient!Requests -> HttpRequest]
  BY <1>1, <1>2, HttpChanges DEF HttpInv
<1>4. req'[r].pc = pc2 /\ req'[r].session = req[r].session
  BY <1>2, <1>3 DEF HttpInv, HttpTypes
<1>5. /\ client'.session = client.session /\ client'.row = client.row
      /\ r # "initialized" => client'.state = client.state
      /\ r = "initialized" => client'.state = IF pc2 = "done" THEN "up" ELSE "gone"
      /\ client' \in [state : {"new", "up", "shut", "gone"}, session : {0, 1}, ready : BOOLEAN, row : Nat]
  BY <1>1 DEF HttpInv, HttpTypes
<1>6. r = "initialized" => client.state = "new" /\ req["initialize"].pc = "done"
  BY <1>0 DEF HttpInv, HttpOrder, HttpTypes
<1>7. HttpTypes' BY <1>0, <1>3, <1>5 DEF HttpInv, HttpTypes, HttpRequest
<1>8. HttpOpening' BY <1>0, <1>1, <1>3, <1>4, <1>5 DEF HttpInv, HttpOpening, HttpTypes
<1>9. HttpOrder' BY <1>0, <1>1, <1>3, <1>4, <1>5, <1>6 DEF HttpInv, HttpOrder, HttpTypes, HttpOpening
<1>10. HttpRows' BY <1>0, <1>5 DEF HttpInv, HttpRows
<1>11. HttpKnown'
  BY <1>0, <1>1, <1>3, <1>4, <1>5, <1>6
     DEF HttpInv, HttpKnown, HttpOpening, HttpOrder, HttpClient!Named, HttpClient!Attempted, HttpClient!NoSession
<1>12. HttpClient!KeepsListening'
  BY <1>0, <1>1, <1>3, <1>4, <1>5, <1>6 DEF HttpInv, HttpClient!KeepsListening, HttpOrder
<1> QED BY <1>7, <1>8, <1>9, <1>10, <1>11, <1>12 DEF HttpInv

\* A request that ends without an answer, or goes on with one.
LEMMA HttpUnanswered ==
  ASSUME HttpInv, NEW r \in HttpClient!Requests, HttpClient!Unanswered(r)
  PROVE  HttpInv'
<1> USE HttpIndex
<1> USE HttpIndex DEF HttpInv, HttpTypes, HttpSteps, HttpOpening, HttpOrder, HttpRows, HttpKnown,
     HttpClient!KeepsListening, HttpClient!Attempted, HttpClient!Named,
     HttpClient!NoSession, HttpClient!At, HttpClient!Runs, HttpClient!serverVars
<1> QED BY DEF HttpClient!Unanswered, HttpClient!Fails, HttpClient!Step, HttpClient!Fault

LEMMA HttpTakes ==
  ASSUME HttpInv, NEW r \in HttpClient!Requests, HttpClient!TakeId(r) \/ HttpClient!ReadId(r)
  PROVE  HttpInv'
<1> USE HttpIndex DEF HttpInv, HttpTypes, HttpSteps, HttpOpening, HttpOrder, HttpRows, HttpKnown,
     HttpClient!KeepsListening, HttpClient!Attempted, HttpClient!Named,
     HttpClient!NoSession, HttpClient!At, HttpClient!Runs, HttpClient!serverVars
<1>1. CASE HttpClient!TakeId(r)
  BY <1>1 DEF HttpClient!TakeId, HttpClient!Step
<1>2. CASE HttpClient!ReadId(r)
  BY <1>2 DEF HttpClient!ReadId, HttpClient!After
<1> QED BY <1>1, <1>2

LEMMA HttpInserts ==
  ASSUME HttpInv, NEW r \in HttpClient!Requests, HttpClient!InsertRow(r)
  PROVE  HttpInv'
<1> USE HttpIndex
<1>0. /\ UNCHANGED <<next, sessions, closing, refused>>
      /\ req[r].pc = "insert" /\ client.state # "gone"
      /\ req' = [req EXCEPT ![r].pc = HttpClient!After(r)]
      /\ HttpClient!After(r) \in {"done", "body"}
      /\ HttpClient!After(r) = "done" <=> r = "initialize"
  BY DEF HttpClient!InsertRow, HttpClient!At, HttpClient!Runs, HttpClient!serverVars, HttpClient!Step, HttpClient!After
<1>1. [req[r] EXCEPT !.pc = HttpClient!After(r)] \in HttpRequest
  BY <1>0 DEF HttpInv, HttpTypes, HttpRequest, HttpSteps
<1>2. /\ \A q \in HttpClient!Requests \ {r} : req'[q] = req[q]
      /\ req'[r] = [req[r] EXCEPT !.pc = HttpClient!After(r)] /\ req' \in [HttpClient!Requests -> HttpRequest]
  BY <1>0, <1>1, HttpChanges DEF HttpInv
<1>3. req'[r].pc = HttpClient!After(r) /\ req'[r].session = req[r].session /\ req[r].session \in {0, 1}
  BY <1>1, <1>2 DEF HttpInv, HttpTypes
<1>4. /\ client'.state = client.state /\ client'.session = client.session
      /\ client' \in [state : {"new", "up", "shut", "gone"}, session : {0, 1}, ready : BOOLEAN, row : Nat]
      /\ manifests' \in Seq({0, 1})
      /\ \/ client' = client /\ manifests' = manifests
         \/ client.row = 0 /\ client'.row = Len(manifests) + 1 /\ Len(manifests') = Len(manifests) + 1
  <2>1. CASE client' = client /\ manifests' = manifests
    BY <2>1 DEF HttpInv, HttpTypes
  <2>2. CASE /\ client.row = 0 /\ client' = [client EXCEPT !.row = Len(manifests) + 1]
             /\ manifests' = Append(manifests, req[r].session)
    <3>1. Len(manifests) \in Nat BY DEF HttpInv, HttpTypes
    <3>2. /\ manifests' \in Seq({0, 1}) /\ Len(manifests') = Len(manifests) + 1
      BY <2>2, <1>3, HttpNames DEF HttpInv, HttpTypes
    <3>3. Len(manifests) + 1 \in Nat
      BY <3>1
    <3>4. /\ client'.state = client.state /\ client'.session = client.session
          /\ client'.row = Len(manifests) + 1
          /\ client' \in [state : {"new", "up", "shut", "gone"}, session : {0, 1}, ready : BOOLEAN, row : Nat]
      BY <2>2, <3>3 DEF HttpInv, HttpTypes
    <3> QED BY <2>2, <3>2, <3>4
  <2> QED BY <2>1, <2>2 DEF HttpClient!InsertRow, HttpClient!NoRow
<1>5. 1 \in HttpClient!Named \cup unnamed => 1 \in HttpClient!Named' \cup unnamed'
  <2>1. CASE manifests' = manifests /\ unnamed \subseteq unnamed'
    BY <2>1 DEF HttpClient!Named, HttpClient!NoSession
  <2>2. CASE manifests' = Append(manifests, req[r].session) /\ unnamed \ {req[r].session} \subseteq unnamed'
    BY <2>2, <1>3, HttpNames DEF HttpInv, HttpTypes, HttpClient!Named, HttpClient!NoSession
  <2> QED BY <2>1, <2>2 DEF HttpClient!InsertRow
<1>6. r = "initialize" => 1 \in HttpClient!Named' \cup unnamed'
  <2> SUFFICES ASSUME r = "initialize" PROVE 1 \in HttpClient!Named' \cup unnamed'
    OBVIOUS
  <2>1. req[r].session = 1 /\ manifests = <<>> /\ client.row = 0 /\ ~HttpClient!Attempted
    BY <1>0 DEF HttpInv, HttpTypes, HttpOpening, HttpOrder, HttpRows, HttpClient!Attempted
  <2>2. CASE manifests' = Append(manifests, req[r].session)
    BY <2>1, <2>2, HttpNames DEF HttpInv, HttpTypes, HttpClient!Named, HttpClient!NoSession
  <2> QED BY <2>1, <2>2 DEF HttpClient!InsertRow, HttpClient!NoRow
<1>7. HttpClient!Attempted /\ 1 \in unnamed => 1 \in unnamed'
  BY DEF HttpClient!InsertRow
<1>8. HttpTypes' BY <1>0, <1>2, <1>4 DEF HttpInv, HttpTypes, HttpRequest
<1>9. HttpOpening' BY <1>0, <1>2, <1>3, <1>4 DEF HttpInv, HttpOpening, HttpTypes
<1>10. HttpOrder' BY <1>0, <1>2, <1>3, <1>4 DEF HttpInv, HttpOrder, HttpTypes, HttpOpening
<1>11. HttpRows' BY <1>0, <1>4 DEF HttpInv, HttpRows, HttpTypes
<1>12. HttpKnown'
  BY <1>0, <1>2, <1>3, <1>4, <1>5, <1>6, <1>7
     DEF HttpInv, HttpKnown, HttpOpening, HttpClient!Attempted
<1>13. HttpClient!KeepsListening'
  BY <1>0, <1>2, <1>3, <1>4 DEF HttpInv, HttpClient!KeepsListening, HttpOrder
<1> QED BY <1>8, <1>9, <1>10, <1>11, <1>12, <1>13 DEF HttpInv

LEMMA HttpReopened ==
  ASSUME NEW s \in {0, 1}, NEW e, e = [HttpClient!Idle EXCEPT !.pc = "sent", !.session = s]
  PROVE  /\ e \in [pc : HttpSteps, session : {0, 1}, status : {"none", "ok", "unknown"}]
         /\ e.pc = "sent" /\ e.session = s /\ e.status = "none"
BY DEF HttpClient!Idle, HttpClient!NoSession, HttpSteps

LEMMA HttpStreams ==
  ASSUME HttpInv, HttpClient!Classify \/ HttpClient!Breaks \/ HttpClient!Reopen
  PROVE  HttpInv'
<1> USE HttpIndex DEF HttpInv, HttpTypes, HttpSteps, HttpOpening, HttpOrder, HttpRows, HttpKnown,
     HttpClient!KeepsListening, HttpClient!Attempted, HttpClient!Named,
     HttpClient!NoSession, HttpClient!At, HttpClient!Runs, HttpClient!serverVars, HttpClient!Step
<1>1. CASE HttpClient!Classify
  <2>1. PICK pc2 \in {"reading", "done", "wait"}, got \in {"ok", "none", "unknown", "busy"} :
          /\ req' = [req EXCEPT !["stream"].pc = pc2]
          /\ refused' = (refused \/ got = "unknown")
          /\ pc2 = "done" => got = "unknown"
    BY <1>1 DEF HttpClient!Classify, HttpClient!Disposition
  <2>2. UNCHANGED <<next, sessions, client, manifests, closing, unnamed>> /\ refused' \in BOOLEAN
    BY <1>1, <2>1 DEF HttpClient!Classify
  <2>3. refused \/ pc2 = "done" => refused'
    BY <2>1
  <2>4. client.state # "gone" /\ req["stream"].pc = "body"
    BY <1>1 DEF HttpClient!Classify
  <2> QED BY <2>1, <2>2, <2>3, <2>4
<1>2. CASE HttpClient!Breaks
  BY <1>2 DEF HttpClient!Breaks
<1>3. CASE HttpClient!Reopen
  <2>1. UNCHANGED <<next, sessions, client, manifests, closing, unnamed, refused>>
    BY <1>3 DEF HttpClient!Reopen
  <2>2. client.session \in {0, 1} /\ client.state # "gone" /\ req["stream"].pc = "wait"
    BY <1>3 DEF HttpClient!Reopen
  <2>3. PICK e : e = [HttpClient!Idle EXCEPT !.pc = "sent", !.session = client.session]
    OBVIOUS
  <2>4. /\ e \in [pc : HttpSteps, session : {0, 1}, status : {"none", "ok", "unknown"}]
        /\ e.pc = "sent"
    BY <2>2, <2>3, HttpReopened
  <2>5. req' = [req EXCEPT !["stream"] = e]
    BY <1>3, <2>3 DEF HttpClient!Reopen
  <2>6. HttpTypes' BY <2>1, <2>4, <2>5
  <2>7. HttpOpening' /\ HttpOrder' BY <2>1, <2>2, <2>4, <2>5
  <2>8. HttpRows' /\ HttpKnown' /\ HttpClient!KeepsListening' BY <2>1, <2>2, <2>4, <2>5
  <2> QED BY <2>6, <2>7, <2>8
<1> QED BY <1>1, <1>2, <1>3

LEMMA HttpEnds ==
  ASSUME HttpInv, HttpClient!Shutdown \/ HttpClient!TakeSession \/ HttpClient!DeleteSession
                    \/ HttpClient!TakeRow
  PROVE  HttpInv'
<1> USE HttpIndex DEF HttpInv, HttpTypes, HttpSteps, HttpOpening, HttpOrder, HttpRows, HttpKnown,
     HttpClient!KeepsListening, HttpClient!Attempted, HttpClient!Named, HttpClient!NoRow,
     HttpClient!NoSession, HttpClient!At, HttpClient!Runs, HttpClient!serverVars, HttpClient!Step,
     HttpClient!Order, HttpClient!Closes
<1>1. CASE HttpClient!Shutdown
  BY <1>1 DEF HttpClient!Shutdown
<1>2. CASE HttpClient!TakeSession
  <2>1. /\ closing.pc = "session" /\ client.state = "shut" /\ client.session = 1
        /\ UNCHANGED <<next, sessions, req, manifests, refused, unnamed>>
        /\ client' = [client EXCEPT !.session = 0]
        /\ closing' = [closing EXCEPT !.pc = "delete", !.session = client.session]
    BY <1>2 DEF HttpClient!TakeSession
  <2>2. /\ closing' \in [pc : {"none", "session", "delete", "row", "drop", "gone"},
                         session : {0, 1}, row : Nat]
        /\ closing'.pc = "delete" /\ closing'.session = 1
    BY <2>1
  <2> QED BY <2>1, <2>2
<1>3. CASE HttpClient!DeleteSession
  BY <1>3 DEF HttpClient!DeleteSession
<1>4. CASE HttpClient!TakeRow
  BY <1>4 DEF HttpClient!TakeRow
<1> QED BY <1>1, <1>2, <1>3, <1>4

LEMMA HttpDropsRow ==
  ASSUME HttpInv, HttpClient!DropRow
  PROVE  HttpInv'
<1>1. /\ UNCHANGED <<next, sessions, client, req, refused, unnamed>>
      /\ closing.pc = "drop" /\ closing' = [closing EXCEPT !.pc = "gone"]
      /\ closing'.pc = "gone" /\ closing'.session = closing.session
  BY DEF HttpInv, HttpTypes, HttpClient!DropRow, HttpClient!Closes, HttpClient!Order, HttpClient!serverVars
<1>2. manifests' \in Seq({0, 1}) /\ Len(manifests') = Len(manifests)
  BY HttpDrops DEF HttpInv, HttpTypes, HttpClient!DropRow, HttpClient!NoSession
<1>3. HttpTypes' BY <1>1, <1>2 DEF HttpInv, HttpTypes
<1>4. HttpOpening' BY <1>1 DEF HttpInv, HttpOpening
<1>5. HttpOrder' BY <1>1, <1>2, HttpNames DEF HttpInv, HttpOrder, HttpTypes
<1>6. HttpRows' BY <1>1 DEF HttpRows
<1>7. HttpKnown' BY <1>1 DEF HttpInv, HttpKnown, HttpClient!Attempted
<1>8. HttpClient!KeepsListening' BY <1>1 DEF HttpInv, HttpClient!KeepsListening
<1> QED BY <1>3, <1>4, <1>5, <1>6, <1>7, <1>8 DEF HttpInv

LEMMA HttpDies ==
  ASSUME HttpInv, HttpClient!Kill \/ HttpClient!Restart
  PROVE  HttpInv'
<1> USE HttpIndex DEF HttpInv, HttpTypes, HttpSteps, HttpOpening, HttpOrder, HttpRows, HttpKnown,
     HttpClient!KeepsListening, HttpClient!Attempted, HttpClient!Named,
     HttpClient!NoSession, HttpClient!Runs, HttpClient!serverVars
<1>1. CASE HttpClient!Kill
  BY <1>1 DEF HttpClient!Kill, HttpClient!Unrecorded
<1>2. CASE HttpClient!Restart
  BY <1>2 DEF HttpClient!Restart
<1> QED BY <1>1, <1>2

LEMMA HttpReclaims ==
  ASSUME HttpInv, NEW k \in DOMAIN manifests, HttpClient!Reclaim(k)
  PROVE  HttpInv'
<1>1. /\ UNCHANGED <<next, client, req, closing, refused, unnamed>>
      /\ client.state \in {"shut", "gone"} /\ manifests[k] # 0 /\ sessions' = sessions \ {manifests[k]}
  BY DEF HttpClient!Reclaim, HttpClient!NoSession
<1>2. sessions' = {}
  <2>1. manifests[k] = 1
    BY <1>1 DEF HttpInv, HttpTypes
  <2> QED BY <1>1, <2>1 DEF HttpInv, HttpTypes
<1>3. manifests' \in Seq({0, 1}) /\ Len(manifests') = Len(manifests)
  BY HttpDrops DEF HttpInv, HttpTypes, HttpClient!Reclaim, HttpClient!NoSession
<1>4. HttpTypes' BY <1>1, <1>2, <1>3 DEF HttpInv, HttpTypes
<1>5. HttpOpening' BY <1>1, <1>2 DEF HttpInv, HttpOpening
<1>6. HttpOrder' BY <1>1, <1>3, HttpNames DEF HttpInv, HttpOrder, HttpTypes
<1>7. HttpRows' BY <1>1, <1>3 DEF HttpInv, HttpRows
<1>8. HttpKnown' BY <1>2 DEF HttpKnown
<1>9. HttpClient!KeepsListening' BY <1>1 DEF HttpInv, HttpClient!KeepsListening
<1> QED BY <1>4, <1>5, <1>6, <1>7, <1>8, <1>9 DEF HttpInv

LEMMA HttpStep == HttpInv /\ HttpClient!Next => HttpInv'
BY HttpPosts, HttpServes, HttpUnanswered, HttpTakes, HttpInserts, HttpAnswers, HttpStreams, HttpEnds,
   HttpDropsRow, HttpDies, HttpReclaims DEF HttpClient!Next

LEMMA HttpStutters == HttpInv /\ UNCHANGED httpVars => HttpInv'
BY DEF httpVars, HttpInv, HttpTypes, HttpOpening, HttpOrder, HttpRows, HttpKnown, HttpClient!Requests,
   HttpClient!KeepsListening, HttpClient!Attempted, HttpClient!Named

LEMMA HttpIsSound == HttpInv => HttpSound
<1> SUFFICES ASSUME HttpInv PROVE HttpSound
  OBVIOUS
<1>1. HttpClient!SessionsAreKnown
  BY HttpIndex DEF HttpInv, HttpTypes, HttpOpening, HttpOrder, HttpKnown, HttpSteps, HttpClient!SessionsAreKnown,
     HttpClient!Opening, HttpClient!Held, HttpClient!At, HttpClient!Runs, HttpClient!Closes, HttpClient!Attempted
<1>2. HttpClient!OneRow
  <2>1. client.state \in {"new", "up"} => Len(manifests) \in {0, 1} /\ DOMAIN manifests = 1..Len(manifests)
    <3>1. Len(manifests) \in Nat /\ DOMAIN manifests = 1..Len(manifests)
      BY DEF HttpInv, HttpTypes
    <3> QED BY <3>1 DEF HttpInv, HttpOrder, HttpRows
  <2> QED BY <2>1 DEF HttpClient!OneRow
<1> QED BY <1>1, <1>2 DEF HttpInv, HttpSound, HttpClient!HttpSound

\* HttpSound: whatever requests overlap, fail or are cut off by a death, a session that
\* is open at an HTTP server is known to its client, to a row or counted as lost; the
\* client has one row; and it listens until the server refuses to stream.
THEOREM HttpHolds == McpSpec => []HttpSound
<1>1. McpInit => HttpInv
  BY HttpInitial DEF McpInit
<1>2. HttpInv /\ [McpNext]_all => HttpInv'
  BY HttpStep, HttpStutters DEF McpNext, all
<1> QED BY <1>1, <1>2, HttpIsSound, PTL DEF McpSpec

-----------------------------------------------------------------------------
(* The admission of a run: what its build has found when it goes on.       *)

\* What the registry of the gateway can hold, and the build can find in it.
Sources == {"none", "built-in", "stdio", "http"}
Steps == {"validate", "look", "copy", "gate", "connect", "probe", "admitted", "rejected"}

AdmissionTypes ==
  /\ asked \subseteq Admission!Names /\ policy \in Admission!Policies
  /\ source \in [Admission!Names -> Sources] /\ found \in [Admission!Names -> Sources]
  /\ step \in Steps

\* A built-in tool keeps its name; a build that goes on has found nothing else.
AdmissionFinds ==
  /\ \A n \in Admission!Names : found[n] = "built-in" => source[n] = "built-in"
  /\ step \in {"copy", "gate", "connect", "probe"} =>
       /\ asked \cap Admission!SideEffect = {}
       /\ \A n \in Admission!Looked : found[n] = "built-in" /\ n \in Beta
  /\ step \in {"gate", "connect", "probe"} =>
       built = [n \in Admission!Names |-> IF n \in Admission!Looked THEN "built-in" ELSE "none"]

\* It goes on under a valid policy, and connects under one that is open.
AdmissionGates ==
  /\ step \notin {"validate", "rejected"} => Admission!PolicyValid
  /\ step \in {"connect", "probe"} => Admission!Gate = "open"
  /\ verdict.code = "capabilities" => step = "rejected"

AdmissionInv == AdmissionTypes /\ AdmissionFinds /\ AdmissionGates /\ Admission!AdmissionSound

LEMMA AdmissionInitial == Admission!Init => AdmissionInv
BY DEF Admission!Init, AdmissionInv, AdmissionTypes, AdmissionFinds, AdmissionGates, Sources, Steps,
       Admission!AdmissionSound, Admission!AdmittedIsAllowed, Admission!ReasonsAgree, Admission!NoVerdict

LEMMA AdmissionRefreshes ==
  ASSUME AdmissionInv, Admission!Refresh
  PROVE  AdmissionInv'
<1>1. UNCHANGED <<asked, policy, step, left, found, built, caps, verdict>>
  BY DEF Admission!Refresh
<1>2. PICK offer \in SUBSET Offered, t \in {"http", "stdio"} : source' = Admission!Replaced(offer, t)
  BY DEF Admission!Refresh
<1>3. /\ source' \in [Admission!Names -> Sources]
      /\ \A n \in Admission!Names : source[n] = "built-in" => source'[n] = "built-in"
  BY <1>2 DEF Admission!Replaced, Sources
<1>4. AdmissionTypes' /\ AdmissionFinds'
  BY <1>1, <1>3 DEF AdmissionInv, AdmissionTypes, AdmissionFinds, Admission!Looked
<1>5. AdmissionGates'
  BY <1>1 DEF AdmissionInv, AdmissionGates, Admission!PolicyValid, Admission!Untouched, Admission!StdioValid, Admission!Gate
<1>6. Admission!AdmissionSound'
  BY <1>1 DEF AdmissionInv, Admission!AdmissionSound, Admission!AdmittedIsAllowed, Admission!ReasonsAgree, Admission!Bridges,
     Admission!Reachable, Admission!With, Admission!AllowedServers, Admission!Gate, Admission!LegacyDetails
<1> QED BY <1>4, <1>5, <1>6 DEF AdmissionInv

\* Nothing of a property is about a build that is neither admitted nor rejected.
LEMMA AdmissionGoesOn ==
  ASSUME AdmissionInv, AdmissionTypes', AdmissionFinds', AdmissionGates',
         step' # "admitted", UNCHANGED verdict, step \notin {"rejected"}
  PROVE  AdmissionInv'
BY DEF AdmissionInv, AdmissionGates, Admission!AdmissionSound, Admission!AdmittedIsAllowed, Admission!ReasonsAgree

LEMMA AdmissionRejects ==
  ASSUME AdmissionInv, AdmissionTypes', AdmissionFinds', step' = "rejected", verdict'.code # "capabilities"
  PROVE  AdmissionInv'
BY DEF AdmissionInv, AdmissionGates, Admission!AdmissionSound, Admission!AdmittedIsAllowed, Admission!ReasonsAgree

LEMMA AdmissionLooks ==
  ASSUME AdmissionInv, Admission!Validate \/ \E n \in Admission!Names : Admission!LookUp(n)
  PROVE  AdmissionInv'
<1> USE DEF Admission!Quiet, Admission!Go, Admission!Reject
<1>1. ASSUME NEW n \in Admission!Names, Admission!LookUp(n) PROVE AdmissionInv'
  <2>1. AdmissionTypes' /\ AdmissionFinds' /\ step = "look" /\ UNCHANGED <<step, verdict, policy>>
    BY <1>1 DEF Admission!LookUp, AdmissionInv, AdmissionTypes, AdmissionFinds, Admission!Looked
  <2>2. AdmissionGates'
    BY <2>1 DEF AdmissionInv, AdmissionGates, Admission!PolicyValid, Admission!Untouched, Admission!StdioValid, Admission!Gate
  <2> QED BY <2>1, <2>2, AdmissionGoesOn
<1>2. CASE Admission!Validate
  <2>1. AdmissionTypes' /\ AdmissionFinds' /\ UNCHANGED policy /\ step = "validate"
    BY <1>2 DEF Admission!Validate, AdmissionInv, AdmissionTypes, AdmissionFinds, Admission!Looked, Steps
  <2>2. CASE step' = "look" /\ Admission!PolicyValid /\ UNCHANGED verdict
    <3>1. AdmissionGates'
      BY <2>1, <2>2 DEF AdmissionInv, AdmissionGates, Admission!PolicyValid, Admission!Untouched, Admission!StdioValid, Admission!Gate
    <3> QED BY <2>1, <2>2, <3>1, AdmissionGoesOn
  <2>3. CASE step' = "rejected" /\ verdict'.code # "capabilities"
    BY <2>1, <2>3, AdmissionRejects
  <2> QED BY <1>2, <2>2, <2>3 DEF Admission!Validate, Admission!NoVerdict
<1> QED BY <1>1, <1>2

LEMMA AdmissionSorts ==
  ASSUME AdmissionInv, Admission!Sort
  PROVE  AdmissionInv'
<1> USE DEF Admission!Quiet, Admission!Go, Admission!Reject
<1>1. step = "look" /\ UNCHANGED <<asked, policy, source, found, built, caps>>
  BY DEF Admission!Sort
<1>2. CASE step' = "rejected" /\ verdict'.code # "capabilities"
  <2>1. AdmissionTypes' /\ AdmissionFinds'
    BY <1>1, <1>2 DEF AdmissionInv, AdmissionTypes, AdmissionFinds, Admission!Looked, Steps
  <2> QED BY <1>2, <2>1, AdmissionRejects
<1>3. CASE /\ step' = "copy" /\ UNCHANGED verdict
           /\ Admission!Disallowed \cup Admission!Dynamic \cup (asked \cap Admission!SideEffect) \cup Admission!Absent = {}
  <2>1. \A n \in Admission!Looked : found[n] = "built-in" /\ n \in Beta
    BY <1>3 DEF AdmissionInv, AdmissionTypes, Sources, Admission!Looked, Admission!Disallowed, Admission!Dynamic, Admission!Absent
  <2>2. AdmissionTypes' /\ AdmissionFinds'
    BY <1>1, <1>3, <2>1 DEF AdmissionInv, AdmissionTypes, AdmissionFinds, Admission!Looked, Steps
  <2>3. AdmissionGates'
    BY <1>1, <1>3 DEF AdmissionInv, AdmissionGates, Admission!PolicyValid, Admission!Untouched, Admission!StdioValid, Admission!Gate
  <2> QED BY <1>1, <1>3, <2>2, <2>3, AdmissionGoesOn
<1>4. \/ step' = "rejected" /\ verdict'.code # "capabilities"
      \/ /\ step' = "copy" /\ UNCHANGED verdict
         /\ Admission!Disallowed \cup Admission!Dynamic \cup (asked \cap Admission!SideEffect) \cup Admission!Absent = {}
  BY DEF Admission!Sort, Admission!RefuseDynamic, Admission!RefuseSideEffects, Admission!Gated, Admission!Gate, Admission!NoVerdict
<1> QED BY <1>2, <1>3, <1>4

\* The registry of the run has what was found, whatever the gateway's holds by now.
LEMMA AdmissionCopies ==
  ASSUME AdmissionInv, Admission!Copy
  PROVE  AdmissionInv'
<1> USE DEF Admission!Quiet, Admission!Go
<1>1. /\ step = "copy" /\ UNCHANGED <<asked, policy, source, found, caps, verdict>>
      /\ step' = IF Admission!Bridges = {} THEN "admitted" ELSE "gate"
      /\ built' = [n \in Admission!Names |-> IF n \in Admission!Looked THEN source[n] ELSE "none"]
  BY DEF Admission!Copy
<1>2. /\ asked \cap Admission!SideEffect = {} /\ asked \subseteq Admission!Names
      /\ \A n \in Admission!Looked : source[n] = "built-in" /\ n \in Beta
  BY <1>1 DEF AdmissionInv, AdmissionTypes, AdmissionFinds, Admission!Looked
<1>3. built' = [n \in Admission!Names |-> IF n \in Admission!Looked THEN "built-in" ELSE "none"]
  BY <1>1, <1>2
<1>4. AdmissionTypes' /\ AdmissionFinds'
  BY <1>1, <1>2, <1>3 DEF AdmissionInv, AdmissionTypes, AdmissionFinds, Admission!Looked, Steps
<1>5. AdmissionGates'
  BY <1>1 DEF AdmissionInv, AdmissionGates, Admission!PolicyValid, Admission!Untouched, Admission!StdioValid, Admission!Gate
<1>6. Admission!AdmissionSound'
  <2>1. CASE Admission!Bridges = {}
    <3>1. asked = Admission!Looked
      BY <1>2, <2>1 DEF Admission!Looked, Admission!Bridges
    <3>2. Admission!AdmittedIsAllowed'
      BY <1>1, <1>2, <1>3, <2>1, <3>1 DEF Admission!AdmittedIsAllowed, Admission!Bridges
    <3> QED BY <1>1, <3>2 DEF AdmissionInv, AdmissionGates, Admission!AdmissionSound, Admission!ReasonsAgree
  <2>2. CASE Admission!Bridges # {}
    BY <1>1, <2>2 DEF AdmissionInv, AdmissionGates, Admission!AdmissionSound, Admission!AdmittedIsAllowed, Admission!ReasonsAgree
  <2> QED BY <2>1, <2>2
<1> QED BY <1>4, <1>5, <1>6 DEF AdmissionInv

LEMMA AdmissionConnects ==
  ASSUME AdmissionInv, Admission!PassGate \/ \E s \in HttpServers : Admission!Ask(s)
  PROVE  AdmissionInv'
<1> USE DEF Admission!Quiet, Admission!Go, Admission!Reject
<1>1. CASE Admission!PassGate
  <2>1. step = "gate" /\ UNCHANGED <<asked, policy, source, found, built, caps>>
    BY <1>1 DEF Admission!PassGate
  <2>2. CASE step' = "rejected" /\ verdict'.code # "capabilities"
    <3>1. AdmissionTypes' /\ AdmissionFinds'
      BY <2>1, <2>2 DEF AdmissionInv, AdmissionTypes, AdmissionFinds, Admission!Looked, Steps
    <3> QED BY <2>2, <3>1, AdmissionRejects
  <2>3. CASE step' = "connect" /\ UNCHANGED verdict /\ Admission!Gate = "open"
    <3>1. AdmissionTypes' /\ AdmissionFinds'
      BY <2>1, <2>3 DEF AdmissionInv, AdmissionTypes, AdmissionFinds, Admission!Looked, Steps
    <3>2. AdmissionGates'
      BY <2>1, <2>3 DEF AdmissionInv, AdmissionGates, Admission!PolicyValid, Admission!Untouched, Admission!StdioValid, Admission!Gate
    <3> QED BY <2>1, <2>3, <3>1, <3>2, AdmissionGoesOn
  <2> QED BY <1>1, <2>2, <2>3 DEF Admission!PassGate, Admission!Gate, Admission!NoVerdict
<1>2. CASE \E s \in HttpServers : Admission!Ask(s)
  <2>1. step \in {"connect", "probe"} /\ UNCHANGED <<asked, policy, source, step, found, built, verdict>>
    BY <1>2 DEF Admission!Ask
  <2>2. AdmissionTypes' /\ AdmissionFinds'
    BY <2>1 DEF AdmissionInv, AdmissionTypes, AdmissionFinds, Admission!Looked
  <2>3. AdmissionGates'
    BY <2>1 DEF AdmissionInv, AdmissionGates, Admission!PolicyValid, Admission!Untouched, Admission!StdioValid, Admission!Gate
  <2> QED BY <2>1, <2>2, <2>3, AdmissionGoesOn
<1> QED BY <1>1, <1>2

\* A bridge is admitted when a server that is allowed has what it needs.
LEMMA AdmissionChecks ==
  ASSUME AdmissionInv, Admission!Check
  PROVE  AdmissionInv'
<1> USE DEF Admission!Quiet, Admission!Go
<1>1. /\ step = "connect" /\ UNCHANGED <<asked, policy, source, found, caps, verdict>>
      /\ Admission!Gate = "open"
  BY DEF Admission!Check, AdmissionInv, AdmissionGates
<1>2. AdmissionTypes'
  BY <1>1 DEF AdmissionInv, AdmissionTypes, Admission!Check, Steps
<1>3. AdmissionGates'
  BY <1>1 DEF AdmissionInv, AdmissionGates, Admission!PolicyValid, Admission!Untouched, Admission!StdioValid, Admission!Gate,
     Admission!Check
<1>4. CASE Admission!Unavailable # {}
  <2>1. step' = "probe" /\ UNCHANGED built
    BY <1>4 DEF Admission!Check
  <2>2. AdmissionFinds'
    BY <1>1, <2>1 DEF AdmissionInv, AdmissionFinds, Admission!Looked
  <2> QED BY <1>1, <1>2, <1>3, <2>1, <2>2, AdmissionGoesOn
<1>5. CASE Admission!Unavailable = {}
  <2>1. /\ step' = "admitted"
        /\ built' = [n \in Admission!Names |-> IF n \in Admission!Bridges THEN "bridge" ELSE built[n]]
    BY <1>5 DEF Admission!Check
  <2>2. AdmissionFinds'
    BY <1>1, <2>1 DEF AdmissionInv, AdmissionFinds, Admission!Looked
  <2>3. /\ asked \cap Admission!SideEffect = {} /\ asked \subseteq Admission!Names
        /\ \A n \in Admission!Looked : n \in Beta
        /\ built = [n \in Admission!Names |-> IF n \in Admission!Looked THEN "built-in" ELSE "none"]
    BY <1>1 DEF AdmissionInv, AdmissionTypes, AdmissionFinds
  <2>4. /\ {n \in Admission!Names : built'[n] # "none"} = asked
        /\ \A n \in asked : \/ built'[n] = "built-in" /\ n \in Beta
                            \/ built'[n] = "bridge" /\ n \in Admission!ReadOnly
    BY <2>1, <2>3 DEF Admission!Bridges, Admission!Looked
  <2>5. policy.enabled /\ "http" \in policy.transports
    BY <1>1 DEF Admission!Gate
  <2>6. \A n \in Admission!Bridges : /\ Admission!Reachable(n) # {}
                                     /\ Admission!Reachable(n) \subseteq policy.servers \ Off
    BY <1>5, <2>5 DEF Admission!Unavailable, Admission!Reachable, Admission!With, Admission!AllowedServers
  <2>7. Admission!AdmittedIsAllowed'
    <3>1. /\ Admission!Bridges' = Admission!Bridges
          /\ \A n \in Admission!Bridges : Admission!Reachable(n)' = Admission!Reachable(n)
      BY <1>1 DEF Admission!Bridges, Admission!Reachable, Admission!With, Admission!AllowedServers
    <3> QED BY <1>1, <2>4, <2>5, <2>6, <3>1 DEF Admission!AdmittedIsAllowed
  <2> QED BY <1>1, <1>2, <1>3, <2>2, <2>7 DEF AdmissionInv, AdmissionGates, Admission!AdmissionSound, Admission!ReasonsAgree
<1> QED BY <1>4, <1>5

\* The reason that is told says of every capability whether a server that is not
\* allowed has it.
LEMMA AdmissionExplains ==
  ASSUME AdmissionInv, Admission!Explain
  PROVE  AdmissionInv'
<1> USE DEF Admission!Quiet, Admission!Go
<1>1. /\ step = "probe" /\ step' = "rejected" /\ UNCHANGED <<asked, policy, source, found, built, caps>>
      /\ verdict' = [code |-> "capabilities", details |-> Admission!Details, says |-> Admission!Says]
  BY DEF Admission!Explain
<1>2. AdmissionTypes' /\ AdmissionFinds' /\ AdmissionGates'
  BY <1>1 DEF AdmissionInv, AdmissionTypes, AdmissionFinds, AdmissionGates, Admission!Looked, Steps
<1>3. Admission!LegacyDetails(Admission!Says) = Admission!Details
  BY DEF Admission!LegacyDetails, Admission!Says, Admission!Details, Admission!Dash
<1>4. Admission!Gate = "open" /\ Admission!AllowedServers # {}
  BY <1>1 DEF AdmissionInv, AdmissionGates, Admission!Gate, Admission!PolicyValid, Admission!Untouched, Admission!AllowedServers
<1>5. Admission!ReasonsAgree'
  <2>1. verdict'.details = Admission!Details /\ verdict'.says = Admission!Says
    BY <1>1
  <2>2. Admission!Gate' = Admission!Gate /\ Admission!AllowedServers' = Admission!AllowedServers
    BY <1>1 DEF Admission!Gate, Admission!AllowedServers
  <2>3. Admission!LegacyDetails(verdict.says)' = Admission!LegacyDetails(Admission!Says)
    BY <2>1 DEF Admission!LegacyDetails
  <2> QED BY <1>3, <1>4, <2>1, <2>2, <2>3 DEF Admission!ReasonsAgree
<1> QED BY <1>1, <1>2, <1>5 DEF AdmissionInv, Admission!AdmissionSound, Admission!AdmittedIsAllowed

LEMMA AdmissionStep == AdmissionInv /\ Admission!Next => AdmissionInv'
BY AdmissionRefreshes, AdmissionLooks, AdmissionSorts, AdmissionCopies, AdmissionConnects, AdmissionChecks, AdmissionExplains
   DEF Admission!Next

LEMMA AdmissionStutters == AdmissionInv /\ UNCHANGED admissionVars => AdmissionInv'
BY DEF admissionVars, AdmissionInv, AdmissionTypes, AdmissionFinds, AdmissionGates, Admission!Looked,
       Admission!PolicyValid, Admission!Untouched, Admission!StdioValid, Admission!Gate,
       Admission!AdmissionSound, Admission!AdmittedIsAllowed, Admission!ReasonsAgree, Admission!Bridges,
       Admission!Reachable, Admission!With, Admission!AllowedServers, Admission!LegacyDetails

\* AdmissionSound: whatever servers offer, under whatever names and whenever, a run that
\* is admitted has just the tools it asked for, built-in or reached through servers that
\* the operator allows, and the reason of a refusal can be told from its message.
THEOREM AdmissionHolds == McpSpec => []AdmissionSound
<1> DEFINE I == part = "admission" => AdmissionInv
<1>1. McpInit => I
  BY AdmissionInitial DEF McpInit
<1>2. I /\ [McpNext]_all => I'
  BY AdmissionStep, AdmissionStutters DEF McpNext, all
<1>3. I => AdmissionSound
  BY DEF AdmissionInv, AdmissionSound
<1> HIDE DEF I
<1> QED BY <1>1, <1>2, <1>3, PTL DEF McpSpec

----------------------------------------------------------------------------
(* The updates of resources (McpUpdates).                                  *)

\* The updates that were announced, when n were.
Announced(n) == {Updates!Update(s, k) : s \in Subscribed, k \in 1..n}

\* What a sequence holds, and that it holds it once.
Held(s) == {s[i] : i \in DOMAIN s}
Single(s) == \A i, j \in DOMAIN s : i # j => s[i] # s[j]

\* Everything in the runtime and in its file was announced.
UpdateTypes ==
  /\ sent \in Nat
  /\ channel \in Seq(Announced(sent)) /\ buffer \in Seq(Announced(sent))
  /\ file # Updates!Torn => file \in Seq(Announced(sent))
  /\ answer \subseteq Announced(sent) /\ returned \subseteq Announced(sent)

\* An update is in one place, and what was taken out is nowhere.
Apart ==
  /\ Single(channel) /\ Single(buffer) /\ Held(channel) \cap Held(buffer) = {}
  /\ file # Updates!Torn => Single(file) /\ Held(file) \cap returned = {}
  /\ (Held(channel) \cup Held(buffer)) \cap (answer \cup returned) = {}
  /\ writing = "no" => answer = {}

UpdateInv == UpdateTypes /\ Apart

LEMMA HeldJoined ==
  ASSUME NEW S, NEW x \in Seq(S), NEW y \in Seq(S)
  PROVE  /\ x \o y \in Seq(S) /\ Held(x \o y) = Held(x) \cup Held(y)
         /\ Single(x) /\ Single(y) /\ Held(x) \cap Held(y) = {} => Single(x \o y)
<1> DEFINE z == x \o y
           l == Len(x)
           m == Len(y)
<1>1. /\ l \in Nat /\ m \in Nat /\ DOMAIN x = 1..l /\ DOMAIN y = 1..m
      /\ z \in Seq(S) /\ DOMAIN z = 1..(l + m)
      /\ \A k \in 1..(l + m) : z[k] = IF k <= l THEN x[k] ELSE y[k - l]
  OBVIOUS
<1> HIDE DEF z, l, m
<1>2. \A k \in 1..(l + m) : (k <= l => k \in 1..l) /\ (~(k <= l) => k - l \in 1..m) BY <1>1
<1>3. \A k \in 1..l : k \in 1..(l + m) /\ k <= l BY <1>1
<1>4. \A k \in 1..m : l + k \in 1..(l + m) /\ ~(l + k <= l) /\ l + k - l = k BY <1>1
<1>5. Held(z) \subseteq Held(x) \cup Held(y) BY <1>1, <1>2 DEF Held
<1>6. Held(x) \subseteq Held(z) BY <1>1, <1>3 DEF Held
<1>7. Held(y) \subseteq Held(z)
  <2> SUFFICES ASSUME NEW k \in 1..m PROVE y[k] \in Held(z)
    BY <1>1 DEF Held
  <2>1. l + k \in DOMAIN z /\ z[l + k] = y[k] BY <1>1, <1>4
  <2> QED BY <2>1 DEF Held
<1>8. ASSUME Single(x), Single(y), Held(x) \cap Held(y) = {} PROVE Single(z)
  <2> SUFFICES ASSUME NEW j \in 1..(l + m), NEW k \in 1..(l + m), j # k PROVE z[j] # z[k]
    BY <1>1 DEF Single
  <2>1. CASE j <= l /\ k <= l BY <2>1, <1>1, <1>2, <1>8 DEF Single
  <2>2. CASE ~(j <= l) /\ ~(k <= l)
    <3>1. j - l \in 1..m /\ k - l \in 1..m /\ j - l # k - l BY <2>2, <1>1, <1>2
    <3>2. z[j] = y[j - l] /\ z[k] = y[k - l] BY <2>2, <1>1
    <3> QED BY <3>1, <3>2, <1>1, <1>8 DEF Single
  <2>3. CASE j <= l /\ ~(k <= l)
    <3>1. z[j] \in Held(x) /\ z[k] \in Held(y) BY <2>3, <1>1, <1>2 DEF Held
    <3> QED BY <3>1, <1>8
  <2>4. CASE ~(j <= l) /\ k <= l
    <3>1. z[j] \in Held(y) /\ z[k] \in Held(x) BY <2>4, <1>1, <1>2 DEF Held
    <3> QED BY <3>1, <1>8
  <2> QED BY <2>1, <2>2, <2>3, <2>4
<1> QED BY <1>1, <1>5, <1>6, <1>7, <1>8 DEF z

LEMMA AnnouncedGrow ==
  ASSUME NEW n \in Nat
  PROVE  /\ Announced(n) \subseteq Announced(n + 1)
         /\ \A s \in Subscribed : /\ Updates!Update(s, n + 1) \in Announced(n + 1)
                                  /\ Updates!Update(s, n + 1) \notin Announced(n)
<1>1. 1..n \subseteq 1..(n + 1) /\ n + 1 \in 1..(n + 1) /\ n + 1 \notin 1..n OBVIOUS
<1>2. \A s, k : Updates!Update(s, k).n = k BY DEF Updates!Update
<1> HIDE DEF Updates!Update
<1> QED BY <1>1, <1>2 DEF Announced

LEMMA HeldIsIn ==
  ASSUME NEW S, NEW s \in Seq(S)
  PROVE  Held(s) \subseteq S
BY DEF Held

LEMMA HeldAppended ==
  ASSUME NEW S, NEW s \in Seq(S), NEW x \in S
  PROVE  /\ Append(s, x) \in Seq(S) /\ Held(Append(s, x)) = Held(s) \cup {x}
         /\ Single(s) /\ x \notin Held(s) => Single(Append(s, x))
<1>1. /\ Append(s, x) \in Seq(S) /\ DOMAIN Append(s, x) = 1..(Len(s) + 1) /\ DOMAIN s = 1..Len(s)
      /\ Len(s) \in Nat /\ \A i \in 1..Len(s) : Append(s, x)[i] = s[i]
      /\ Append(s, x)[Len(s) + 1] = x
  OBVIOUS
<1> DEFINE t == Append(s, x)
           l == Len(s)
<1>2. 1..(l + 1) = (1..l) \cup {l + 1} BY <1>1
<1> HIDE DEF t, l
<1>3. t \in Seq(S) /\ DOMAIN t = (1..l) \cup {l + 1} /\ DOMAIN s = 1..l BY <1>1, <1>2 DEF t, l
<1>4. (\A i \in 1..l : t[i] = s[i]) /\ t[l + 1] = x BY <1>1 DEF t, l
<1>5. Held(t) = Held(s) \cup {x} BY <1>3, <1>4 DEF Held
<1>6. Single(s) /\ x \notin Held(s) => Single(t) BY <1>3, <1>4 DEF Held, Single
<1> QED BY <1>3, <1>5, <1>6 DEF t

\* A part of a sequence holds nothing else, and what it holds once.
LEMMA HeldPart ==
  ASSUME NEW S, NEW s \in Seq(S), NEW a \in Nat \ {0}, NEW b \in Nat, b <= Len(s)
  PROVE  /\ SubSeq(s, a, b) \in Seq(S) /\ Held(SubSeq(s, a, b)) \subseteq {s[i] : i \in a..b}
         /\ Held(SubSeq(s, a, b)) \subseteq Held(s)
         /\ Single(s) => Single(SubSeq(s, a, b))
<1> DEFINE t == SubSeq(s, a, b)
<1>1. Len(s) \in Nat /\ DOMAIN s = 1..Len(s) /\ \A i \in DOMAIN s : s[i] \in S OBVIOUS
<1>2. CASE a > b
  <2>1. t = <<>> BY <1>2
  <2> QED BY <2>1 DEF Held, Single
<1>3. CASE a <= b
  <2>1. /\ t \in Seq(S) /\ DOMAIN t = 1..(b - a + 1)
        /\ \A i \in 1..(b - a + 1) : t[i] = s[a + i - 1]
    BY <1>3
  <2> HIDE DEF t
  <2>2. \A i \in 1..(b - a + 1) : a + i - 1 \in a..b /\ a + i - 1 \in DOMAIN s BY <1>1, <1>3
  <2>3. \A i, j \in 1..(b - a + 1) : i # j => a + i - 1 # a + j - 1 OBVIOUS
  <2>4. Held(t) \subseteq {s[i] : i \in a..b} /\ Held(t) \subseteq Held(s) BY <2>1, <2>2 DEF Held
  <2>5. Single(s) => Single(t) BY <2>1, <2>2, <2>3 DEF Single
  <2> QED BY <2>1, <2>4, <2>5 DEF t
<1> QED BY <1>2, <1>3

LEMMA HeldTail ==
  ASSUME NEW S, NEW s \in Seq(S), s # <<>>
  PROVE  /\ Head(s) \in Held(s) /\ Tail(s) \in Seq(S) /\ Held(Tail(s)) \subseteq Held(s)
         /\ Single(s) => Single(Tail(s)) /\ Head(s) \notin Held(Tail(s))
<1>1. Len(s) \in Nat \ {0} /\ DOMAIN s = 1..Len(s) /\ Head(s) = s[1] /\ Tail(s) = SubSeq(s, 2, Len(s))
  OBVIOUS
<1>2. 2 \in Nat \ {0} /\ Len(s) <= Len(s) BY <1>1
<1>3. /\ Tail(s) \in Seq(S) /\ Held(Tail(s)) \subseteq {s[i] : i \in 2..Len(s)}
      /\ Held(Tail(s)) \subseteq Held(s) /\ (Single(s) => Single(Tail(s)))
  <2> DEFINE l == Len(s)
  <2>1. l \in Nat /\ l <= Len(s) BY <1>1
  <2> HIDE DEF l
  <2>2. /\ SubSeq(s, 2, l) \in Seq(S) /\ Held(SubSeq(s, 2, l)) \subseteq {s[i] : i \in 2..l}
        /\ Held(SubSeq(s, 2, l)) \subseteq Held(s) /\ (Single(s) => Single(SubSeq(s, 2, l)))
    BY <1>2, <2>1, HeldPart
  <2> QED BY <1>1, <2>2 DEF l
<1>4. 1 \in DOMAIN s /\ \A i \in 2..Len(s) : i \in DOMAIN s /\ i # 1 BY <1>1
<1> QED BY <1>1, <1>3, <1>4 DEF Held, Single

LEMMA HeldLatest ==
  ASSUME NEW S, NEW s \in Seq(S)
  PROVE  /\ Updates!Latest(s) \in Seq(S) /\ Held(Updates!Latest(s)) \subseteq Held(s)
         /\ Single(s) => Single(Updates!Latest(s))
<1>1. Len(s) \in Nat /\ MaxBuffered \in Nat BY UpdatesAssumption
<1>2. CASE Len(s) > MaxBuffered
  <2>1. Len(s) - MaxBuffered + 1 \in Nat \ {0} /\ Len(s) <= Len(s) BY <1>1, <1>2
  <2> QED BY <1>1, <1>2, <2>1, HeldPart DEF Updates!Latest
<1>3. CASE ~(Len(s) > MaxBuffered) BY <1>3 DEF Updates!Latest
<1> QED BY <1>2, <1>3

\* The update at one position is taken out.
LEMMA HeldRemoved ==
  ASSUME NEW S, NEW s \in Seq(S), NEW i \in DOMAIN s
  PROVE  /\ Updates!RemoveIn(i, s) \in Seq(S) /\ Held(Updates!RemoveIn(i, s)) \subseteq Held(s)
         /\ Single(s) => Single(Updates!RemoveIn(i, s)) /\ s[i] \notin Held(Updates!RemoveIn(i, s))
<1> DEFINE x == SubSeq(s, 1, i - 1)
           y == SubSeq(s, i + 1, Len(s))
<1>1. Len(s) \in Nat /\ DOMAIN s = 1..Len(s) /\ i \in 1..Len(s) OBVIOUS
<1>2. Updates!RemoveIn(i, s) = x \o y BY DEF Updates!RemoveIn, Updates!RemoveAt
<1>3. i - 1 \in Nat /\ i - 1 <= Len(s) /\ i + 1 \in Nat \ {0} /\ 1 \in Nat \ {0} /\ Len(s) <= Len(s)
  BY <1>1
<1>4. /\ x \in Seq(S) /\ Held(x) \subseteq {s[k] : k \in 1..(i - 1)}
      /\ y \in Seq(S) /\ Held(y) \subseteq {s[k] : k \in (i + 1)..Len(s)}
      /\ Single(s) => Single(x) /\ Single(y)
  BY <1>1, <1>3, HeldPart
<1>5. /\ \A k \in 1..(i - 1) : k \in DOMAIN s /\ k # i /\ k \notin (i + 1)..Len(s)
      /\ \A k \in (i + 1)..Len(s) : k \in DOMAIN s /\ k # i
  BY <1>1
<1> HIDE DEF x, y
<1>6. /\ Held(x) \cup Held(y) \subseteq Held(s)
      /\ Single(s) => s[i] \notin Held(x) \cup Held(y) /\ Held(x) \cap Held(y) = {}
  <2>1. Held(x) \cup Held(y) \subseteq Held(s) BY <1>4, <1>5 DEF Held
  <2>2. ASSUME Single(s) PROVE s[i] \notin Held(x) \cup Held(y)
    BY <1>1, <1>4, <1>5, <2>2 DEF Single
  <2>3. ASSUME Single(s), NEW u \in Held(x), u \in Held(y) PROVE FALSE
    <3>1. PICK j \in 1..(i - 1) : u = s[j] BY <1>4
    <3>2. PICK k \in (i + 1)..Len(s) : u = s[k] BY <1>4, <2>3
    <3>3. j \in DOMAIN s /\ k \in DOMAIN s /\ j # k BY <1>5
    <3> QED BY <2>3, <3>1, <3>2, <3>3 DEF Single
  <2> QED BY <2>1, <2>2, <2>3
<1>7. /\ x \o y \in Seq(S) /\ Held(x \o y) = Held(x) \cup Held(y)
      /\ Single(x) /\ Single(y) /\ Held(x) \cap Held(y) = {} => Single(x \o y)
  BY <1>4, HeldJoined
<1> QED BY <1>2, <1>4, <1>6, <1>7

LEMMA OneRemoved ==
  ASSUME NEW i \in Nat
  PROVE  Updates!Without({i}) = Updates!RemoveIn(i, buffer)
<1> DEFINE It(g) == [s \in SUBSET {i} |-> IF s = {} THEN buffer
                                          ELSE Updates!RemoveIn(Updates!Max(s), g[s \ {Updates!Max(s)}])]
           G == [s \in SUBSET {i} |-> IF s = {} THEN buffer ELSE Updates!RemoveIn(i, buffer)]
<1>1. Updates!Without({i}) = (CHOOSE g : g = It(g))[{i}]
  BY DEF Updates!Without, Updates!MapThenFoldSet
<1>2. Updates!Max({i}) = i BY DEF Updates!Max
<1>3. SUBSET {i} = {{}, {i}} OBVIOUS
<1>4. \A g : g = It(g) => g[{i}] = Updates!RemoveIn(i, buffer)
  <2> SUFFICES ASSUME NEW g, g = It(g) PROVE g[{i}] = Updates!RemoveIn(i, buffer)
    OBVIOUS
  <2>1. g[{}] = buffer /\ g[{i}] = Updates!RemoveIn(i, g[{i} \ {i}]) BY <1>2, <1>3
  <2> QED BY <2>1
<1>5. G = It(G)
  <2>1. G[{}] = buffer BY <1>3
  <2>2. \A s \in SUBSET {i} : G[s] = It(G)[s]
    <3>1. It(G)[{}] = buffer BY <1>3
    <3>2. It(G)[{i}] = Updates!RemoveIn(i, G[{i} \ {i}]) BY <1>2, <1>3
    <3>3. {i} \ {i} = {} /\ G[{i}] = Updates!RemoveIn(i, buffer) BY <1>3
    <3> QED BY <3>1, <3>2, <3>3, <2>1, <1>3
  <2> QED BY <2>2
<1> QED
  <2> HIDE DEF It, G
  <2> QED BY <1>1, <1>4, <1>5

\* A caller is given one update at a time.
OneAtATime == Limits \subseteq {0, 1}

LEMMA SameSize == \A S : Updates!Cardinality(S) = Cardinality(S)
BY DEF Cardinality, Updates!Cardinality

\* Of the updates about a server, the latest is the only one that is selected.
LEMMA OneSelected ==
  ASSUME UpdateTypes, NEW about, NEW limit \in {0, 1}, Updates!Selected(about, limit) # {}
  PROVE  \E i \in DOMAIN buffer : Updates!Selected(about, limit) = {i}
<1> DEFINE matching == {i \in DOMAIN buffer : buffer[i].server \in about}
           From(i) == {j \in matching : j >= i}
<1>1. Updates!Selected(about, limit) = {i \in matching : Cardinality(From(i)) <= limit}
  BY SameSize DEF Updates!Selected
<1>2. Len(buffer) \in Nat /\ DOMAIN buffer = 1..Len(buffer) BY DEF UpdateTypes
<1>3. \A i : IsFiniteSet(From(i)) /\ Cardinality(From(i)) \in Nat
  <2> TAKE i
  <2>1. From(i) \subseteq 1..Len(buffer) BY <1>2
  <2>2. IsFiniteSet(1..Len(buffer)) BY <1>2, FS_Interval
  <2>3. IsFiniteSet(From(i)) BY <2>1, <2>2, FS_Subset
  <2> QED BY <2>3, FS_CardinalityType
<1>4. PICK i \in matching : Cardinality(From(i)) <= limit BY <1>1
<1>5. ASSUME NEW k \in matching, Cardinality(From(k)) <= limit, k # i PROVE FALSE
  <2>1. i \in Nat /\ k \in Nat BY <1>2
  <2>2. \/ i \in From(i) /\ k \in From(i)
        \/ i \in From(k) /\ k \in From(k)
    BY <2>1
  <2>3. PICK m \in {i, k} : i \in From(m) /\ k \in From(m) BY <2>2
  <2>4. Cardinality(From(m)) <= 1 /\ Cardinality(From(m)) \in Nat
    <3>1. Cardinality(From(m)) \in Nat /\ Cardinality(From(m)) <= limit BY <1>3, <1>4, <1>5
    <3> HIDE DEF From
    <3> QED BY <3>1
  <2>5. {i, k} \subseteq From(m) BY <2>3
  <2>6. Cardinality({i, k}) = 2
    <3>1. Cardinality({i}) = 1 /\ IsFiniteSet({i}) BY FS_Singleton
    <3>2. {i, k} = {i} \cup {k} /\ k \notin {i} BY <1>5
    <3>3. k \notin {i} => Cardinality({i} \cup {k}) = Cardinality({i}) + 1
      BY <3>1, FS_AddElement
    <3> QED BY <3>1, <3>2, <3>3
  <2>7. Cardinality({i, k}) <= Cardinality(From(m)) BY <1>3, <2>5, FS_Subset
  <2> HIDE DEF From
  <2> QED BY <2>4, <2>6, <2>7
<1> QED
  <2>1. Updates!Selected(about, limit) = {i} BY <1>1, <1>4, <1>5
  <2> QED BY <2>1, <1>4

LEMMA UpdateStarts == ASSUME Updates!Init PROVE UpdateInv
<1>1. UpdateTypes BY DEF Updates!Init, UpdateTypes, Updates!NoAnswer
<1>2. Held(<<>>) = {} /\ Single(<<>>) BY DEF Held, Single
<1> QED BY <1>1, <1>2 DEF Updates!Init, UpdateInv, Apart, Updates!NoAnswer

LEMMA UpdateAnnounced ==
  ASSUME UpdateInv, NEW s \in Subscribed, Updates!Announce(s) PROVE UpdateInv'
<1> DEFINE u == Updates!Update(s, sent + 1)
           A == Announced(sent)
           B == Announced(sent + 1)
           c == IF Len(channel) = Channel THEN Tail(channel) ELSE channel
<1>1. /\ sent' = sent + 1 /\ channel' = Append(c, u)
      /\ UNCHANGED <<buffer, file, answer, returned, writing>>
  BY DEF Updates!Announce
<1>2. sent \in Nat /\ sent + 1 \in Nat BY DEF UpdateInv, UpdateTypes
<1>3. A \subseteq B /\ u \in B /\ u \notin A BY <1>2, AnnouncedGrow
<1>4. channel \in Seq(A) /\ Single(channel) BY DEF UpdateInv, UpdateTypes, Apart
<1>5. c \in Seq(A) /\ Held(c) \subseteq Held(channel) /\ Single(c)
  <2>1. CASE Len(channel) = Channel
    <3>1. channel # <<>> BY <1>4, <2>1, UpdatesAssumption
    <3>2. /\ Tail(channel) \in Seq(A) /\ Held(Tail(channel)) \subseteq Held(channel)
          /\ Single(Tail(channel))
      BY <1>4, <3>1, HeldTail
    <3> QED BY <2>1, <3>2
  <2>2. CASE Len(channel) # Channel BY <1>4, <2>2
  <2> QED BY <2>1, <2>2
<1> HIDE DEF u, A, B, c
<1>6. Seq(A) \subseteq Seq(B) BY <1>3
<1>7. Held(c) \subseteq A BY <1>5, HeldIsIn
<1>8. Append(c, u) \in Seq(B) /\ Held(Append(c, u)) = Held(c) \cup {u} /\ Single(Append(c, u))
  <2>1. c \in Seq(B) /\ u \in B /\ u \notin Held(c) BY <1>3, <1>5, <1>6, <1>7
  <2> QED BY <1>5, <2>1, HeldAppended
<1>9. UpdateTypes'
  <2>1. Announced(sent)' = B BY <1>1 DEF B, Announced
  <2>2. /\ buffer \in Seq(A) /\ (file # Updates!Torn => file \in Seq(A))
        /\ answer \subseteq A /\ returned \subseteq A
    BY DEF UpdateInv, UpdateTypes, A
  <2> QED BY <1>1, <1>2, <1>3, <1>6, <1>8, <2>1, <2>2 DEF UpdateTypes
<1>10. Apart'
  <2>1. Held(buffer) \cup answer \cup returned \subseteq A
    <3>1. Held(buffer) \subseteq A BY HeldIsIn DEF UpdateInv, UpdateTypes, A
    <3> QED BY <3>1 DEF UpdateInv, UpdateTypes, A
  <2>2. /\ Held(channel') \cap Held(buffer) = {}
        /\ (Held(channel') \cup Held(buffer)) \cap (answer \cup returned) = {}
    BY <1>1, <1>3, <1>5, <1>8, <2>1 DEF UpdateInv, Apart
  <2> QED BY <1>1, <1>8, <2>2 DEF UpdateInv, Apart
<1> QED BY <1>9, <1>10 DEF UpdateInv

LEMMA UpdateRecorded == ASSUME UpdateInv, Updates!Record PROVE UpdateInv'
<1> DEFINE u == Head(channel)
           A == Announced(sent)
           b == Append(buffer, u)
<1>1. /\ channel # <<>> /\ channel' = Tail(channel) /\ buffer' = Updates!Latest(b)
      /\ writing = "no" /\ writing' = "open" /\ UNCHANGED <<sent, file, answer, returned>>
  BY DEF Updates!Record
<1>2. channel \in Seq(A) /\ buffer \in Seq(A) BY DEF UpdateInv, UpdateTypes
<1>3. Single(channel) /\ Single(buffer) /\ Held(channel) \cap Held(buffer) = {}
  BY DEF UpdateInv, Apart
<1> HIDE DEF A, u, b
<1>4. /\ u \in Held(channel) /\ Tail(channel) \in Seq(A) /\ Held(Tail(channel)) \subseteq Held(channel)
      /\ Single(Tail(channel)) /\ u \notin Held(Tail(channel))
  BY <1>1, <1>2, <1>3, HeldTail DEF u
<1>5. u \in A BY <1>2, <1>4, HeldIsIn
<1>6. b \in Seq(A) /\ Held(b) = Held(buffer) \cup {u} /\ Single(b)
  <2>1. u \notin Held(buffer) BY <1>3, <1>4
  <2> QED BY <1>2, <1>3, <1>5, <2>1, HeldAppended DEF b
<1>7. buffer' \in Seq(A) /\ Held(buffer') \subseteq Held(b) /\ Single(buffer')
  BY <1>1, <1>6, HeldLatest
<1>8. UpdateTypes'
  <2>1. Announced(sent)' = A BY <1>1 DEF A, Announced
  <2> QED BY <1>1, <1>4, <1>7, <2>1 DEF UpdateInv, UpdateTypes, A
<1>9. Apart'
  <2>1. /\ Held(channel') \cap Held(buffer') = {}
        /\ (Held(channel') \cup Held(buffer')) \cap (answer \cup returned) = {}
    BY <1>1, <1>3, <1>4, <1>6, <1>7 DEF UpdateInv, Apart
  <2> QED BY <1>1, <1>4, <1>7, <2>1 DEF UpdateInv, Apart
<1> QED BY <1>8, <1>9 DEF UpdateInv

LEMMA UpdateWrites ==
  ASSUME UpdateInv, Updates!OpenFile \/ Updates!WriteFile \/ Updates!WriteFails PROVE UpdateInv'
<1>1. UNCHANGED <<sent, channel, buffer>>
  BY DEF Updates!OpenFile, Updates!WriteFile, Updates!WriteFails
<1>2. Announced(sent)' = Announced(sent) BY <1>1 DEF Announced
<1>3. CASE Updates!OpenFile
  BY <1>1, <1>2, <1>3 DEF UpdateInv, UpdateTypes, Apart, Updates!OpenFile
<1>4. CASE Updates!WriteFile
  <2>1. file' = buffer /\ returned' = returned \cup answer /\ answer' = {}
    BY <1>4 DEF Updates!WriteFile, Updates!Contents, Updates!NoAnswer
  <2>2. UpdateTypes' BY <1>1, <1>2, <2>1 DEF UpdateInv, UpdateTypes
  <2>3. Apart' BY <1>1, <2>1 DEF UpdateInv, Apart
  <2> QED BY <2>2, <2>3 DEF UpdateInv
<1>5. CASE Updates!WriteFails
  <2>1. answer' = {} /\ UNCHANGED <<file, returned>>
    BY <1>5 DEF Updates!WriteFails, Updates!NoAnswer
  <2>2. UpdateTypes' BY <1>1, <1>2, <2>1 DEF UpdateInv, UpdateTypes
  <2>3. Apart' BY <1>1, <2>1 DEF UpdateInv, Apart
  <2> QED BY <2>2, <2>3 DEF UpdateInv
<1> QED BY <1>3, <1>4, <1>5

\* What one call takes out was in the buffer once.
LEMMA UpdateCleared ==
  ASSUME UpdateInv, NEW about, NEW limit \in {0, 1}, Updates!Clear(about, limit) PROVE UpdateInv'
<1> DEFINE A == Announced(sent)
<1>1. PICK i \in DOMAIN buffer : Updates!Selected(about, limit) = {i}
  <2>1. Updates!Selected(about, limit) # {} BY DEF Updates!Clear
  <2> QED BY <2>1, OneSelected DEF UpdateInv
<1>2. /\ buffer' = Updates!Without({i}) /\ writing = "no"
      /\ UNCHANGED <<sent, channel, file, returned>>
      /\ \/ writing' = "open" /\ answer' = {buffer[k] : k \in {i}}
         \/ UNCHANGED <<writing, answer>>
  BY <1>1 DEF Updates!Clear
<1>3. buffer \in Seq(A) BY DEF UpdateInv, UpdateTypes
<1>4. i \in Nat BY <1>3
<1> HIDE DEF A
<1>5. buffer' = Updates!RemoveIn(i, buffer) BY <1>2, <1>4, OneRemoved
<1>6. /\ buffer' \in Seq(A) /\ Held(buffer') \subseteq Held(buffer)
      /\ Single(buffer') /\ buffer[i] \notin Held(buffer')
  <2>1. Single(buffer) BY DEF UpdateInv, Apart
  <2> QED BY <1>3, <1>5, <2>1, HeldRemoved
<1>7. buffer[i] \in Held(buffer) /\ buffer[i] \in A BY <1>3 DEF Held
<1>8. answer = {} /\ answer' \subseteq {buffer[i]} /\ (writing' = "no" => answer' = {})
  BY <1>2 DEF UpdateInv, Apart
<1>9. UpdateTypes'
  <2>1. Announced(sent)' = A BY <1>2 DEF A, Announced
  <2> QED BY <1>2, <1>6, <1>7, <1>8, <2>1 DEF UpdateInv, UpdateTypes, A
<1>10. Apart'
  <2>1. /\ Held(channel) \cap Held(buffer') = {}
        /\ (Held(channel) \cup Held(buffer')) \cap (answer' \cup returned) = {}
    BY <1>6, <1>7, <1>8 DEF UpdateInv, Apart
  <2> QED BY <1>2, <1>6, <1>8, <2>1 DEF UpdateInv, Apart
<1> QED BY <1>9, <1>10 DEF UpdateInv

LEMMA UpdateRestarts == ASSUME UpdateInv, Updates!Restart PROVE UpdateInv'
<1>1. /\ channel' = <<>> /\ buffer' = Updates!Loaded /\ answer' = {}
      /\ UNCHANGED <<sent, file, returned>>
  BY DEF Updates!Restart, Updates!NoAnswer
<1>2. Held(<<>>) = {} /\ Single(<<>>) BY DEF Held, Single
<1>3. /\ Updates!Loaded \in Seq(Announced(sent)) /\ Single(Updates!Loaded)
      /\ Held(Updates!Loaded) \cap returned = {}
  BY <1>2 DEF Updates!Loaded, UpdateInv, UpdateTypes, Apart
<1>4. UpdateTypes'
  <2>1. Announced(sent)' = Announced(sent) BY <1>1 DEF Announced
  <2> QED BY <1>1, <1>3, <2>1 DEF UpdateInv, UpdateTypes
<1>5. Apart' BY <1>1, <1>2, <1>3 DEF UpdateInv, Apart
<1> QED BY <1>4, <1>5 DEF UpdateInv

\* McpUpdates' ClearRemovesReturned: an update that was returned and cleared does not come
\* back, from the channel, the buffer or the file, whatever is announced, forgotten, not
\* written or loaded again -- as long as callers ask for one update at a time.
THEOREM UpdatesHold == OneAtATime => (McpSpec => []ClearRemovesReturned)
<1> SUFFICES ASSUME OneAtATime PROVE McpSpec => []ClearRemovesReturned
  OBVIOUS
<1>1. McpInit => UpdateInv BY UpdateStarts DEF McpInit
<1>2. UpdateInv /\ [McpNext]_all => UpdateInv'
  <2> SUFFICES ASSUME UpdateInv, [McpNext]_all PROVE UpdateInv'
    OBVIOUS
  <2>1. CASE UNCHANGED updateVars
    <3>1. UNCHANGED <<sent, channel, buffer, file, answer, returned, writing>>
      BY <2>1 DEF updateVars
    <3>2. Announced(sent)' = Announced(sent) BY <3>1 DEF Announced
    <3>3. UpdateTypes' BY <3>1, <3>2 DEF UpdateInv, UpdateTypes
    <3>4. Apart' BY <3>1 DEF UpdateInv, Apart
    <3> QED BY <3>3, <3>4 DEF UpdateInv
  <2>2. CASE Updates!Next
    <3>1. CASE \E s \in Subscribed : Updates!Announce(s) BY <3>1, UpdateAnnounced
    <3>2. CASE \E about \in {Subscribed} \cup {{s} : s \in Subscribed}, limit \in Limits :
                 Updates!Clear(about, limit)
      BY <3>2, UpdateCleared DEF OneAtATime
    <3>3. CASE Updates!Record \/ Updates!OpenFile \/ Updates!WriteFile \/ Updates!WriteFails
                 \/ Updates!Restart
      BY <3>3, UpdateRecorded, UpdateWrites, UpdateRestarts
    <3> QED BY <2>2, <3>1, <3>2, <3>3 DEF Updates!Next
  <2> QED BY <2>1, <2>2 DEF McpNext, all
<1>3. UpdateInv => ClearRemovesReturned
  BY DEF UpdateInv, Apart, Held, ClearRemovesReturned, Updates!ClearRemovesReturned
<1> QED BY <1>1, <1>2, <1>3, PTL DEF McpSpec
=============================================================================
