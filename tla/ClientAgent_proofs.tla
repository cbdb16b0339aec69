--------------------------- MODULE ClientAgent_proofs ---------------------------
(***************************************************************************)
(* Proofs about the agent of a client: who holds a resource, what a task   *)
(* leaves behind, what it takes to record a success, and that what the     *)
(* tasks hold on a node is allocated there. The last is about sums over    *)
(* sets of tasks; that they do not depend on the order in which they are   *)
(* added up comes first.                                                   *)
(*                                                                         *)
(* The second half is about its storage (StorageManager): what the monitor *)
(* knows of the workspace comes to be what is there, and what follows for  *)
(* clearing and for the flag. Its sizes are sums as well.                  *)
(***************************************************************************)
EXTENDS ClientAgent, StorageManager, FiniteSetTheorems, SequenceTheorems,
        WellFoundedInduction, TLAPS

TaskPhase == {"none", "stuck", "done", "lost", "dead"} \cup Active
WorkerState == {"none", "pending", "running", "completed", "failed", "leaving", "gone"}
TaskRecord ==
  [pc : TaskPhase, at : 1 .. Workers + 1, seen : 0 .. Workers, listed : 0 .. Workers,
   status : {"running", "success", "failed"}]

\* The types of what the tasks are known by.
TaskTypes ==
  /\ held \subseteq TaskId /\ recorded \subseteq held
  /\ asking.task \in TaskId \cup {NoTask}
  /\ watching \in BOOLEAN
  /\ table \in [TaskType -> TaskId \cup {NoTask}]
  /\ task \in [TaskId -> TaskRecord]
  /\ worker \in [TaskId -> [Index -> WorkerState]]

\* Who holds a resource is in the table, or lost; a task in the table has begun
\* and not ended; and one that is being asked for has not begun.
HoldersInv ==
  /\ asking = NoRequest <=> asking.task = NoTask
  /\ asking # NoRequest => task[asking.task].pc = "none"
  /\ \A k \in TaskType : table[k] # NoTask =>
       table[k] \in held /\ task[table[k]].pc \in {"stuck"} \cup Active
  /\ \A i \in held : task[i].pc \in {"lost", "dead"} \/ \E k \in TaskType : table[k] = i

\* What a pass has seen so far are workers that had completed, if it missed none.
Complete(w) == w \in {"completed", "leaving", "gone"}

\* The workers of a task are those it has listed, and the one it calls for or was
\* cancelled at.
WorkersOK(t, w) ==
  /\ t.pc \in {"none", "lost", "saving", "creating", "called", "starting", "waiting"}
       => t.status = "running"
  /\ t.pc \in {"none", "saving"} => t.listed = 0
  /\ t.pc \in {"none", "lost", "saving"} => \A j \in Index : w[j] = "none"
  /\ t.pc \in {"creating", "called"} => t.at = t.listed + 1 /\ t.at <= Workers
  /\ t.pc \in {"starting", "waiting"} => t.at <= Workers /\ t.listed = Workers
  /\ t.pc \in {"starting", "waiting"} => t.seen < t.at
  /\ t.pc = "waiting" /\ t.seen = t.at - 1 => \A j \in Index : j < t.at => Complete(w[j])
  /\ t.status = "success" => \A j \in Index : Complete(w[j])
  /\ \A j \in Index : w[j] # "none" =>
       \/ j <= t.listed
       \/ /\ j = t.listed + 1 /\ t.status = "running"
          /\ t.pc \in {"called", "deleting", "done", "stuck", "dead"}
  /\ t.pc = "done" => \A j \in Index : j <= t.listed => w[j] = "gone"

CAInv == TaskTypes /\ HoldersInv /\ \A i \in TaskId : WorkersOK(task[i], worker[i])

-----------------------------------------------------------------------------
(* Sums over finite sets.                                                  *)

\* The one that is added next, and what a function must satisfy that adds up f over the
\* subsets of S.
First(s) == CHOOSE x \in s : TRUE
Adds(f, S, g) ==
  g = [s \in SUBSET S |-> IF s = {} THEN 0 ELSE f[First(s)] + g[s \ {First(s)}]]
Adder(f, S) == CHOOSE g : Adds(f, S, g)

\* The sum is what such a function gives for the whole set.
LEMMA SumIs ==
  ASSUME NEW f, NEW S
  PROVE  SumFunctionOnSet(f, S) = Adder(f, S)[S]
BY DEF SumFunctionOnSet, FoldFunctionOnSet, MapThenFoldSet, Adder, Adds, First

LEMMA FirstIn == ASSUME NEW s, s # {} PROVE First(s) \in s
BY DEF First

\* Sets of subsets of a finite set have a smallest member, in place of an induction.
LEMMA Smallest ==
  ASSUME NEW S, IsFiniteSet(S), NEW T, T \subseteq SUBSET S, T # {}
  PROVE  \E u \in T : \A s \in SUBSET S : s \subseteq u /\ s # u => s \notin T
<1>1. IsWellFoundedOn(StrictSubsetOrdering(S), SUBSET S)
  BY FS_StrictSubsetOrderingWellFounded, FS_FiniteSubsetsOfFinite
<1>2. PICK u \in T : \A s \in T : <<s, u>> \notin StrictSubsetOrdering(S)
  BY <1>1, WFMin
<1>3. ASSUME NEW s \in SUBSET S, s \subseteq u, s # u PROVE s \notin T
  <2>1. <<s, u>> \in StrictSubsetOrdering(S)
    BY <1>3 DEF StrictSubsetOrdering
  <2> QED BY <1>2, <2>1
<1> QED BY <1>3

\* Two such functions agree wherever both are defined.
LEMMA OneAdder ==
  ASSUME NEW f, NEW S, IsFiniteSet(S), NEW V, IsFiniteSet(V), NEW g, NEW h,
         Adds(f, S, g), Adds(f, V, h), NEW u, u \subseteq S, u \subseteq V
  PROVE  g[u] = h[u]
<1> DEFINE Differ == {s \in SUBSET u : g[s] # h[s]}
<1> SUFFICES ASSUME Differ # {} PROVE FALSE
  OBVIOUS
<1>1. IsFiniteSet(u)
  BY FS_Subset
<1>2. PICK s \in Differ : \A r \in SUBSET u : r \subseteq s /\ r # s => r \notin Differ
  <2> HIDE DEF Differ
  <2>1. Differ \subseteq SUBSET u
    BY DEF Differ
  <2> QED BY <1>1, <2>1, Smallest
<1>3. /\ g[s] = IF s = {} THEN 0 ELSE f[First(s)] + g[s \ {First(s)}]
      /\ h[s] = IF s = {} THEN 0 ELSE f[First(s)] + h[s \ {First(s)}]
  BY DEF Adds
<1>4. s # {}
  BY <1>3
<1>5. First(s) \in s
  BY <1>4, FirstIn
<1>6. g[s \ {First(s)}] = h[s \ {First(s)}]
  BY <1>2, <1>5
<1> QED BY <1>3, <1>6

\* And there is one: it is put together from those of the smaller sets.
LEMMA AdderExists ==
  ASSUME NEW f, NEW S, IsFiniteSet(S) PROVE Adds(f, S, Adder(f, S))
<1> DEFINE Lacking == {s \in SUBSET S : ~Adds(f, s, Adder(f, s))}
<1> SUFFICES ASSUME Lacking # {} PROVE FALSE
  OBVIOUS
<1>1. PICK u \in Lacking : \A r \in SUBSET S : r \subseteq u /\ r # u => r \notin Lacking
  <2> HIDE DEF Lacking
  <2>1. Lacking \subseteq SUBSET S
    BY DEF Lacking
  <2> QED BY <2>1, Smallest
<1>2. ASSUME NEW r \in SUBSET u, r # u PROVE Adds(f, r, Adder(f, r))
  BY <1>1, <1>2
<1> DEFINE A(s) == Adder(f, s)[s]
           g == [s \in SUBSET u |->
                   IF s = {} THEN 0 ELSE f[First(s)] + A(s \ {First(s)})]
<1>3. ASSUME NEW s \in SUBSET u, s # u PROVE g[s] = A(s)
  <2>1. Adds(f, s, Adder(f, s))
    BY <1>2, <1>3
  <2>2. A(s) = IF s = {} THEN 0 ELSE f[First(s)] + Adder(f, s)[s \ {First(s)}]
    BY <2>1 DEF Adds
  <2>3. CASE s = {}
    BY <2>2, <2>3
  <2>4. CASE s # {}
    <3> DEFINE r == s \ {First(s)}
    <3>1. First(s) \in s
      BY <2>4, FirstIn
    <3>2. Adds(f, r, Adder(f, r))
      BY <1>2, <1>3, <3>1
    <3>3. IsFiniteSet(s) /\ IsFiniteSet(r)
      BY FS_Subset
    <3>4. Adder(f, s)[r] = Adder(f, r)[r]
      <4> HIDE DEF r
      <4>1. r \subseteq s
        BY DEF r
      <4> QED BY <2>1, <3>2, <3>3, <4>1, OneAdder
    <3> QED BY <2>2, <2>4, <3>4
  <2> QED BY <2>3, <2>4
<1>4. Adds(f, u, g)
  <2>1. ASSUME NEW s \in SUBSET u, s # {} PROVE A(s \ {First(s)}) = g[s \ {First(s)}]
    <3> DEFINE r == s \ {First(s)}
    <3>1. First(s) \in s
      BY <2>1, FirstIn
    <3>2. r \in SUBSET u /\ r # u
      BY <3>1
    <3> HIDE DEF g, A, r
    <3>3. g[r] = A(r)
      BY <1>3, <3>2
    <3> QED BY <3>3 DEF r
  <2>2. g = [s \in SUBSET u |-> IF s = {} THEN 0 ELSE f[First(s)] + g[s \ {First(s)}]]
    <3> HIDE DEF A
    <3> QED BY <2>1
  <2> HIDE DEF g
  <2> QED BY <2>2 DEF Adds
<1>5. Adds(f, u, Adder(f, u))
  <2> HIDE DEF g
  <2> QED BY <1>4 DEF Adder
<1> QED BY <1>1, <1>5

\* So a sum can be taken one element at a time.
LEMMA SumStep ==
  ASSUME NEW f, NEW S, IsFiniteSet(S)
  PROVE  SumFunctionOnSet(f, S) =
           IF S = {} THEN 0 ELSE f[First(S)] + SumFunctionOnSet(f, S \ {First(S)})
<1>1. Adds(f, S, Adder(f, S))
  BY AdderExists
<1>2. Adder(f, S)[S] =
        IF S = {} THEN 0 ELSE f[First(S)] + Adder(f, S)[S \ {First(S)}]
  BY <1>1 DEF Adds
<1>3. ASSUME NEW r \in SUBSET S PROVE Adder(f, S)[r] = Adder(f, r)[r]
  <2>1. IsFiniteSet(r)
    BY FS_Subset
  <2>2. Adds(f, r, Adder(f, r)) /\ r \subseteq S /\ r \subseteq r
    BY <2>1, AdderExists
  <2> HIDE DEF Adds
  <2> QED BY <1>1, <2>1, <2>2, OneAdder
<1> QED BY <1>2, <1>3, SumIs

LEMMA SumNat ==
  ASSUME NEW f, NEW S, IsFiniteSet(S), \A x \in S : f[x] \in Nat
  PROVE  SumFunctionOnSet(f, S) \in Nat
<1> DEFINE Not == {s \in SUBSET S : SumFunctionOnSet(f, s) \notin Nat}
<1> SUFFICES ASSUME Not # {} PROVE FALSE
  OBVIOUS
<1>1. PICK u \in Not : \A r \in SUBSET S : r \subseteq u /\ r # u => r \notin Not
  <2> HIDE DEF Not
  <2>1. Not \subseteq SUBSET S
    BY DEF Not
  <2> QED BY <2>1, Smallest
<1>2. IsFiniteSet(u)
  BY FS_Subset
<1>3. u = {} => SumFunctionOnSet(f, u) = 0
  BY <1>2, SumStep
<1>4. u # {} => /\ First(u) \in u
                /\ SumFunctionOnSet(f, u) =
                     f[First(u)] + SumFunctionOnSet(f, u \ {First(u)})
  BY <1>2, SumStep, FirstIn
<1>5. u # {} => SumFunctionOnSet(f, u \ {First(u)}) \in Nat
  BY <1>1, <1>4
<1> QED BY <1>3, <1>4, <1>5

\* It may be any element.
LEMMA SumWithout ==
  ASSUME NEW f, NEW S, IsFiniteSet(S), \A y \in S : f[y] \in Nat, NEW x \in S
  PROVE  SumFunctionOnSet(f, S) = f[x] + SumFunctionOnSet(f, S \ {x})
<1> DEFINE Total(s) == SumFunctionOnSet(f, s)
           Not == {s \in SUBSET S : \E y \in s : Total(s) # f[y] + Total(s \ {y})}
<1> SUFFICES ASSUME Not # {} PROVE FALSE
  OBVIOUS
<1>1. PICK u \in Not : \A r \in SUBSET S : r \subseteq u /\ r # u => r \notin Not
  <2> HIDE DEF Not
  <2>1. Not \subseteq SUBSET S
    BY DEF Not
  <2> QED BY <2>1, Smallest
<1>2. PICK y \in u : Total(u) # f[y] + Total(u \ {y})
  OBVIOUS
<1> DEFINE c == First(u)
<1>3. IsFiniteSet(u)
  BY FS_Subset
<1>4. c \in u /\ Total(u) = f[c] + Total(u \ {c})
  BY <1>2, <1>3, SumStep, FirstIn
<1>5. c # y
  BY <1>2, <1>4
<1>6. Total(u \ {c}) = f[y] + Total((u \ {c}) \ {y})
  BY <1>1, <1>2, <1>4, <1>5
<1>7. Total(u \ {y}) = f[c] + Total((u \ {y}) \ {c})
  BY <1>1, <1>2, <1>4, <1>5
<1>8. (u \ {c}) \ {y} = (u \ {y}) \ {c}
  OBVIOUS
<1>9. Total((u \ {c}) \ {y}) \in Nat
  <2>1. IsFiniteSet((u \ {c}) \ {y})
    BY <1>3, FS_Subset
  <2> QED BY <2>1, SumNat
<1>10. f[c] \in Nat /\ f[y] \in Nat
  BY <1>2, <1>4
<1> HIDE DEF c, Total, Not
<1> QED BY <1>2, <1>4, <1>6, <1>7, <1>8, <1>9, <1>10

\* A sum depends only on what is added.
LEMMA SumSame ==
  ASSUME NEW f, NEW g, NEW S, IsFiniteSet(S), \A x \in S : f[x] = g[x]
  PROVE  SumFunctionOnSet(f, S) = SumFunctionOnSet(g, S)
<1> DEFINE Differ == {s \in SUBSET S : SumFunctionOnSet(f, s) # SumFunctionOnSet(g, s)}
<1> SUFFICES ASSUME Differ # {} PROVE FALSE
  OBVIOUS
<1>1. PICK u \in Differ : \A r \in SUBSET S : r \subseteq u /\ r # u => r \notin Differ
  <2> HIDE DEF Differ
  <2>1. Differ \subseteq SUBSET S
    BY DEF Differ
  <2> QED BY <2>1, Smallest
<1>2. IsFiniteSet(u)
  BY FS_Subset
<1>3. u # {}
  BY <1>1, <1>2, SumStep
<1>4. First(u) \in u
  BY <1>3, FirstIn
<1>5. SumFunctionOnSet(f, u \ {First(u)}) = SumFunctionOnSet(g, u \ {First(u)})
  BY <1>1, <1>4
<1>6. SumFunctionOnSet(f, u) = f[First(u)] + SumFunctionOnSet(f, u \ {First(u)})
  BY <1>2, <1>3, SumStep
<1>7. SumFunctionOnSet(g, u) = g[First(u)] + SumFunctionOnSet(g, u \ {First(u)})
  BY <1>2, <1>3, SumStep
<1> QED BY <1>1, <1>4, <1>5, <1>6, <1>7

LEMMA SumZero ==
  ASSUME NEW f, NEW S, IsFiniteSet(S), \A x \in S : f[x] = 0
  PROVE  SumFunctionOnSet(f, S) = 0
<1> DEFINE Not == {s \in SUBSET S : SumFunctionOnSet(f, s) # 0}
<1> SUFFICES ASSUME Not # {} PROVE FALSE
  OBVIOUS
<1>1. PICK u \in Not : \A r \in SUBSET S : r \subseteq u /\ r # u => r \notin Not
  <2> HIDE DEF Not
  <2>1. Not \subseteq SUBSET S
    BY DEF Not
  <2> QED BY <2>1, Smallest
<1>2. IsFiniteSet(u)
  BY FS_Subset
<1>3. u # {}
  BY <1>1, <1>2, SumStep
<1>4. First(u) \in u
  BY <1>3, FirstIn
<1>5. SumFunctionOnSet(f, u \ {First(u)}) = 0
  BY <1>1, <1>4
<1>6. SumFunctionOnSet(f, u) = f[First(u)] + SumFunctionOnSet(f, u \ {First(u)})
  BY <1>2, <1>3, SumStep
<1> QED BY <1>1, <1>4, <1>5, <1>6

-----------------------------------------------------------------------------
(* The tasks and their workers.                                            *)

LEMMA GoesTo ==
  ASSUME TaskTypes, NEW i \in TaskId, NEW pc \in TaskPhase
  PROVE  /\ Goes(i, pc) \in TaskRecord
         /\ Goes(i, pc).pc = pc /\ Goes(i, pc).at = 1 /\ Goes(i, pc).seen = 0
         /\ Goes(i, pc).listed = task[i].listed /\ Goes(i, pc).status = task[i].status
<1>1. task[i] \in TaskRecord /\ 1 \in 1 .. Workers + 1 /\ 0 \in 0 .. Workers
  BY CAAssumption DEF TaskTypes
<1> QED BY <1>1 DEF Goes, TaskRecord

LEMMA CAInitInv == CAInit => CAInv
<1> SUFFICES ASSUME CAInit PROVE CAInv
  OBVIOUS
<1>1. /\ held = {} /\ recorded = {} /\ asking = NoRequest /\ watching \in BOOLEAN
      /\ table = [k \in TaskType |-> NoTask] /\ task = [i \in TaskId |-> NewTask]
      /\ worker = [i \in TaskId |-> [j \in Index |-> "none"]]
  BY DEF CAInit, RMInit
<1>2. NewTask \in TaskRecord
  BY CAAssumption DEF NewTask, TaskRecord, TaskPhase
<1>3. asking.task = NoTask
  BY <1>1 DEF NoRequest
<1>4. TaskTypes
  BY <1>1, <1>2, <1>3 DEF TaskTypes, WorkerState
<1>5. HoldersInv
  BY <1>1, <1>3 DEF HoldersInv
<1>6. ASSUME NEW i \in TaskId PROVE WorkersOK(task[i], worker[i])
  BY <1>1, CAAssumption DEF WorkersOK, NewTask
<1> QED BY <1>4, <1>5, <1>6 DEF CAInv

\* A task in the table goes on, and nothing else of the agent moves.
LEMMA TaskGoesOn ==
  ASSUME CAInv, NEW i \in TaskId, NEW t \in TaskRecord, Becomes(i, t),
         task[i].pc \in Active, t.pc \in {"stuck"} \cup Active,
         NEW w \in [Index -> WorkerState],
         worker' = [worker EXCEPT ![i] = w],
         WorkersOK(t, w)
  PROVE  CAInv'
<1>1. /\ task' = [task EXCEPT ![i] = t]
      /\ UNCHANGED <<table, held, recorded, asking, watching>>
  BY DEF Becomes
<1>2. TaskTypes /\ HoldersInv
  BY DEF CAInv
<1>3. TaskTypes'
  BY <1>1, <1>2 DEF TaskTypes
<1>4. /\ task'[i] = t /\ worker'[i] = w
      /\ \A j \in TaskId : j # i => task'[j] = task[j] /\ worker'[j] = worker[j]
  BY <1>1, <1>2 DEF TaskTypes
<1>5. "none" \notin Active /\ "lost" \notin Active /\ "dead" \notin Active
  BY DEF Active, Executing
<1>6. HoldersInv'
  <2>1. asking # NoRequest => asking.task \in TaskId
    BY <1>2 DEF TaskTypes, HoldersInv
  <2>2. asking # NoRequest => task'[asking.task].pc = "none"
    BY <1>2, <1>4, <1>5, <2>1 DEF HoldersInv
  <2>3. \A k \in TaskType : table[k] # NoTask =>
          table[k] \in held /\ task'[table[k]].pc \in {"stuck"} \cup Active
    BY <1>2, <1>4 DEF HoldersInv, TaskTypes
  <2>4. \A j \in held : task'[j].pc \in {"lost", "dead"} \/ \E k \in TaskType : table[k] = j
    BY <1>2, <1>4, <1>5 DEF HoldersInv, TaskTypes
  <2> QED BY <1>1, <1>2, <2>2, <2>3, <2>4 DEF HoldersInv
<1>7. \A j \in TaskId : WorkersOK(task'[j], worker'[j])
  BY <1>4 DEF CAInv
<1> QED BY <1>3, <1>6, <1>7 DEF CAInv

\* What is known of one task, in the shape the steps need it.
LEMMA OneTask ==
  ASSUME CAInv, NEW i \in TaskId
  PROVE  /\ TaskTypes /\ HoldersInv /\ WorkersOK(task[i], worker[i])
         /\ task[i] \in TaskRecord /\ worker[i] \in [Index -> WorkerState]
         /\ task[i].at \in 1 .. Workers + 1 /\ task[i].seen \in 0 .. Workers
         /\ task[i].listed \in 0 .. Workers
         /\ worker = [worker EXCEPT ![i] = worker[i]]
         /\ Workers \in Nat \ {0}
BY CAAssumption DEF CAInv, TaskTypes, TaskRecord

LEMMA SaveFilesInv == ASSUME CAInv, NEW i \in TaskId, SaveFiles(i) PROVE CAInv'
<1>1. task[i].pc = "saving" /\ UNCHANGED worker
  BY DEF SaveFiles
<1>2. CASE Becomes(i, Goes(i, "creating"))
  <2> DEFINE t == Goes(i, "creating")
  <2>1. /\ t \in TaskRecord /\ t.pc = "creating" /\ t.at = 1 /\ t.seen = 0
        /\ t.listed = task[i].listed /\ t.status = task[i].status
    BY OneTask, GoesTo DEF TaskPhase, Active, Executing
  <2>2. WorkersOK(t, worker[i])
    BY <1>1, <2>1, OneTask DEF WorkersOK
  <2> QED BY <1>1, <1>2, <2>1, <2>2, OneTask, TaskGoesOn DEF Active, Executing
<1>3. CASE Becomes(i, [Goes(i, "stuck") EXCEPT !.status = "failed"])
  <2> DEFINE t == [Goes(i, "stuck") EXCEPT !.status = "failed"]
  <2>1. /\ t \in TaskRecord /\ t.pc = "stuck" /\ t.listed = task[i].listed /\ t.status = "failed"
    BY OneTask, GoesTo DEF TaskPhase, TaskRecord
  <2>2. WorkersOK(t, worker[i])
    BY <1>1, <2>1, OneTask DEF WorkersOK
  <2> QED BY <1>1, <1>3, <2>1, <2>2, OneTask, TaskGoesOn DEF Active, Executing
<1> QED BY <1>2, <1>3 DEF SaveFiles

\* The workers of a task that fails, or is deleted, are those it has listed.
LEMMA FailsInv ==
  ASSUME CAInv, NEW i \in TaskId, Fails(i), UNCHANGED worker,
         task[i].pc \in {"creating", "starting", "waiting"}
  PROVE  CAInv'
<1> DEFINE t == [Goes(i, "telling") EXCEPT !.status = "failed"]
<1>1. /\ t \in TaskRecord /\ t.pc = "telling" /\ t.listed = task[i].listed /\ t.status = "failed"
  BY OneTask, GoesTo DEF TaskPhase, TaskRecord, Active, Executing
<1>2. WorkersOK(t, worker[i])
  BY <1>1, OneTask DEF WorkersOK
<1> QED BY <1>1, <1>2, OneTask, TaskGoesOn DEF Fails, Active, Executing

LEMMA DeletingInv ==
  ASSUME CAInv, NEW i \in TaskId, NEW s \in {"running", "success", "failed"},
         Becomes(i, [Goes(i, "deleting") EXCEPT !.status = s]), UNCHANGED worker,
         task[i].pc \in {"creating", "starting", "waiting", "telling"},
         s = task[i].status \/ (s = "success" /\ \A j \in Index : Complete(worker[i][j])
                                /\ task[i].listed = Workers)
  PROVE  CAInv'
<1> DEFINE t == [Goes(i, "deleting") EXCEPT !.status = s]
<1>1. /\ t \in TaskRecord /\ t.pc = "deleting" /\ t.listed = task[i].listed /\ t.status = s
  BY OneTask, GoesTo DEF TaskPhase, TaskRecord, Active, Executing
<1>2. WorkersOK(t, worker[i])
  BY <1>1, OneTask DEF WorkersOK, Index
<1> QED BY <1>1, <1>2, OneTask, TaskGoesOn DEF Active, Executing

LEMMA GoesDeleting ==
  ASSUME CAInv, NEW i \in TaskId
  PROVE  Goes(i, "deleting") = [Goes(i, "deleting") EXCEPT !.status = task[i].status]
BY OneTask DEF Goes, TaskRecord

LEMMA CallWorkerInv == ASSUME CAInv, NEW i \in TaskId, CallWorker(i) PROVE CAInv'
<1>1. task[i].pc = "creating"
  BY DEF CallWorker
<1>2. CASE Becomes(i, [task[i] EXCEPT !.pc = "called"]) /\ WorkerStarts(i)
  <2> DEFINE t == [task[i] EXCEPT !.pc = "called"]
             v == IF watching THEN "pending" ELSE "running"
             w == [worker[i] EXCEPT ![task[i].at] = v]
  <2>1. /\ t \in TaskRecord /\ t.pc = "called" /\ t.listed = task[i].listed
        /\ t.status = task[i].status /\ t.at = task[i].at
    BY OneTask DEF TaskRecord, TaskPhase, Active, Executing
  <2>2. worker' = [worker EXCEPT ![i] = w]
    BY <1>2 DEF WorkerStarts, Works
  <2>3. v \in WorkerState /\ task[i].at \in Index
    BY <1>1, OneTask DEF WorkerState, WorkersOK, Index
  <2> HIDE DEF t, v
  <2>4. /\ w \in [Index -> WorkerState] /\ w[task[i].at] = v
        /\ \A j \in Index : j # task[i].at => w[j] = worker[i][j]
    BY <2>3, OneTask
  <2> HIDE DEF w
  <2>5. /\ task[i].status = "running" /\ task[i].at = task[i].listed + 1 /\ task[i].at <= Workers
        /\ \A j \in Index : worker[i][j] # "none" => j <= task[i].listed
    BY <1>1, OneTask DEF WorkersOK
  <2>6. WorkersOK(t, w)
    BY <2>1, <2>4, <2>5 DEF WorkersOK
  <2>7. Becomes(i, t)
    BY <1>2 DEF t
  <2> QED BY <1>1, <2>1, <2>2, <2>4, <2>6, <2>7, TaskGoesOn DEF Active, Executing
<1>3. CASE Fails(i) /\ UNCHANGED worker
  BY <1>1, <1>3, FailsInv
<1>4. CASE Becomes(i, Goes(i, "deleting")) /\ UNCHANGED worker
  <2>1. Becomes(i, [Goes(i, "deleting") EXCEPT !.status = task[i].status])
    BY <1>4, GoesDeleting DEF Becomes
  <2>2. task[i].status \in {"running", "success", "failed"}
    BY OneTask DEF TaskRecord
  <2> QED BY <1>1, <1>4, <2>1, <2>2, DeletingInv
<1> QED BY <1>2, <1>3, <1>4 DEF CallWorker

LEMMA WorkerCalledInv == ASSUME CAInv, NEW i \in TaskId, WorkerCalled(i) PROVE CAInv'
<1>1. task[i].pc = "called" /\ UNCHANGED worker
  BY DEF WorkerCalled
<1>2. /\ task[i].status = "running" /\ task[i].at = task[i].listed + 1 /\ task[i].at <= Workers
      /\ \A j \in Index : worker[i][j] # "none" => j <= task[i].listed + 1
  BY <1>1, OneTask DEF WorkersOK, Index
<1>3. CASE task[i].at < Workers
  <2> DEFINE t == [task[i] EXCEPT !.pc = "creating", !.listed = @ + 1, !.at = @ + 1]
  <2>1. /\ t \in TaskRecord /\ t.pc = "creating" /\ t.listed = task[i].listed + 1
        /\ t.status = "running" /\ t.at = task[i].at + 1
    <3>1. task[i].listed + 1 \in 0 .. Workers /\ task[i].at + 1 \in 1 .. Workers + 1
      BY <1>2, <1>3, OneTask
    <3>2. task[i] \in TaskRecord /\ "creating" \in TaskPhase
      BY OneTask DEF TaskPhase, Active, Executing
    <3> QED BY <1>2, <3>1, <3>2 DEF TaskRecord
  <2>2. Becomes(i, t)
    BY <1>3 DEF WorkerCalled
  <2> HIDE DEF t
  <2>3. WorkersOK(t, worker[i])
    BY <1>2, <1>3, <2>1, OneTask DEF WorkersOK
  <2> QED BY <1>1, <2>1, <2>2, <2>3, OneTask, TaskGoesOn DEF Active, Executing
<1>4. CASE ~(task[i].at < Workers)
  <2> DEFINE t == [Goes(i, "starting") EXCEPT !.listed = @ + 1]
  <2>1. /\ t \in TaskRecord /\ t.pc = "starting" /\ t.listed = Workers
        /\ t.status = "running" /\ t.at = 1 /\ t.seen = 0
    <3>1. /\ Goes(i, "starting") \in TaskRecord /\ Goes(i, "starting").pc = "starting"
          /\ Goes(i, "starting").at = 1 /\ Goes(i, "starting").seen = 0
          /\ Goes(i, "starting").listed = task[i].listed
          /\ Goes(i, "starting").status = "running"
      BY <1>2, OneTask, GoesTo DEF TaskPhase, Active, Executing
    <3>2. task[i].listed + 1 = Workers
      BY <1>2, <1>4, OneTask
    <3> QED BY <3>1, <3>2, OneTask DEF TaskRecord
  <2>2. Becomes(i, t)
    BY <1>4 DEF WorkerCalled
  <2> HIDE DEF t
  <2>3. WorkersOK(t, worker[i])
    BY <2>1, OneTask DEF WorkersOK, Index
  <2> QED BY <1>1, <2>1, <2>2, <2>3, OneTask, TaskGoesOn DEF Active, Executing
<1> QED BY <1>3, <1>4

LEMMA ReadStatusInv == ASSUME CAInv, NEW i \in TaskId, ReadStatus(i) PROVE CAInv'
<1>1. /\ task[i].pc \in {"starting", "waiting"} /\ UNCHANGED worker
      /\ task[i].at \in 1 .. Workers /\ task[i].listed = Workers /\ task[i].seen < task[i].at
      /\ task[i].status = "running"
  BY OneTask DEF ReadStatus, WorkersOK
<1>2. PICK n \in {0, Counts(i)} :
        LET seen == task[i].seen + n
        IN IF worker[i][task[i].at] = "failed" THEN Fails(i)
           ELSE IF task[i].at < Workers
           THEN Becomes(i, [task[i] EXCEPT !.at = @ + 1, !.seen = seen])
           ELSE IF seen < Workers THEN Becomes(i, Goes(i, task[i].pc))
           ELSE IF task[i].pc = "starting" THEN Becomes(i, Goes(i, "waiting"))
           ELSE Becomes(i, [Goes(i, "deleting") EXCEPT !.status = "success"])
  BY DEF ReadStatus
<1> DEFINE seen == task[i].seen + n
<1>3. /\ n \in {0, 1} /\ seen \in Nat /\ seen <= task[i].at
      /\ n = 1 /\ task[i].pc = "waiting" => worker[i][task[i].at] = "completed"
  BY <1>1, OneTask DEF Counts
<1>4. ASSUME task[i].pc = "waiting", seen = task[i].at
      PROVE  \A j \in Index : j <= task[i].at => Complete(worker[i][j])
  <2>1. n = 1 /\ task[i].seen = task[i].at - 1
    BY <1>1, <1>3, <1>4, OneTask
  <2>2. \A j \in Index : j < task[i].at => Complete(worker[i][j])
    BY <1>4, <2>1, OneTask DEF WorkersOK
  <2>3. Complete(worker[i][task[i].at])
    BY <1>3, <1>4, <2>1 DEF Complete
  <2>4. ASSUME NEW j \in Index, j <= task[i].at PROVE j < task[i].at \/ j = task[i].at
    BY <1>1, <2>4, OneTask DEF Index
  <2> QED BY <2>2, <2>3, <2>4
<1>5. CASE Fails(i)
  BY <1>1, <1>5, FailsInv
<1>6. CASE task[i].at < Workers /\ Becomes(i, [task[i] EXCEPT !.at = @ + 1, !.seen = seen])
  <2> DEFINE t == [task[i] EXCEPT !.at = @ + 1, !.seen = seen]
  <2>1. /\ t \in TaskRecord /\ t.pc = task[i].pc /\ t.at = task[i].at + 1 /\ t.seen = seen
        /\ t.listed = Workers /\ t.status = "running"
    <3>1. task[i].at + 1 \in 1 .. Workers + 1 /\ seen \in 0 .. Workers
      BY <1>1, <1>3, OneTask
    <3> QED BY <1>1, <3>1, OneTask DEF TaskRecord
  <2>2. Becomes(i, t)
    BY <1>6
  <2> HIDE DEF t, seen
  <2>3. \A j \in Index : j < task[i].at + 1 => j <= task[i].at
    BY <1>1, OneTask DEF Index
  <2>4. task[i].at + 1 <= Workers /\ seen < task[i].at + 1 /\ task[i].at + 1 - 1 = task[i].at
    BY <1>1, <1>3, <1>6, OneTask
  <2>5. \A j \in Index : j <= Workers
    BY OneTask DEF Index
  <2>6. WorkersOK(t, worker[i])
    BY <1>1, <1>4, <2>1, <2>3, <2>4, <2>5 DEF WorkersOK
  <2> QED BY <1>1, <2>1, <2>2, <2>6, OneTask, TaskGoesOn DEF Active, Executing
<1>7. ASSUME NEW pc \in {"starting", "waiting"}, Becomes(i, Goes(i, pc)) PROVE CAInv'
  <2> DEFINE t == Goes(i, pc)
  <2>1. /\ t \in TaskRecord /\ t.pc = pc /\ t.at = 1 /\ t.seen = 0
        /\ t.listed = Workers /\ t.status = "running"
    BY <1>1, OneTask, GoesTo DEF TaskPhase, Active, Executing
  <2>2. Becomes(i, t)
    BY <1>7
  <2> HIDE DEF t
  <2>3. WorkersOK(t, worker[i])
    BY <2>1, OneTask DEF WorkersOK, Index
  <2> QED BY <1>1, <2>1, <2>2, <2>3, OneTask, TaskGoesOn DEF Active, Executing
<1>8. CASE /\ task[i].pc = "waiting" /\ ~(task[i].at < Workers) /\ ~(seen < Workers)
           /\ Becomes(i, [Goes(i, "deleting") EXCEPT !.status = "success"])
  <2>1. task[i].at = Workers /\ seen = task[i].at
    BY <1>1, <1>3, <1>8, OneTask
  <2>2. \A j \in Index : Complete(worker[i][j])
    BY <1>4, <1>8, <2>1, OneTask DEF Index
  <2> QED BY <1>1, <1>8, <2>2, DeletingInv
<1> QED BY <1>1, <1>2, <1>5, <1>6, <1>7, <1>8

LEMMA ToldInv ==
  ASSUME CAInv, NEW i \in TaskId, Told(i) \/ GiveUp(i)
  PROVE  CAInv'
<1>1. CASE GiveUp(i)
  BY <1>1, FailsInv DEF GiveUp
<1>2. CASE Told(i)
  <2>1. Becomes(i, [Goes(i, "deleting") EXCEPT !.status = task[i].status])
    BY <1>2, GoesDeleting DEF Told, Becomes
  <2>2. task[i].status \in {"running", "success", "failed"}
    BY OneTask DEF TaskRecord
  <2> QED BY <1>2, <2>1, <2>2, DeletingInv DEF Told
<1> QED BY <1>1, <1>2

LEMMA StopInv == ASSUME CAInv, Stop PROVE CAInv'
<1> DEFINE i == table["train"]
           t == Goes(i, "deleting")
           w == [j \in Index |-> IF ~watching /\ task[i].pc = "called" /\ j = task[i].at
                                 THEN "gone" ELSE worker[i][j]]
<1>1. /\ i # NoTask /\ task[i].pc \in Executing /\ Becomes(i, t)
      /\ worker' = [worker EXCEPT ![i] = w]
  BY DEF Stop
<1>2. i \in TaskId
  BY <1>1 DEF CAInv, TaskTypes, TaskType
<1>3. /\ t \in TaskRecord /\ t.pc = "deleting" /\ t.listed = task[i].listed
      /\ t.status = task[i].status
  BY <1>2, OneTask, GoesTo DEF TaskPhase, Active, Executing
<1> HIDE DEF t
<1>4. /\ w \in [Index -> WorkerState]
      /\ \A j \in Index : w[j] = worker[i][j] \/ (w[j] = "gone" /\ task[i].pc = "called"
                                                  /\ j = task[i].at)
  BY <1>2, OneTask DEF WorkerState
<1> HIDE DEF w, i
<1>5. /\ task[i].pc = "called" => task[i].at = task[i].listed + 1 /\ task[i].status = "running"
      /\ WorkersOK(task[i], worker[i])
  BY <1>2, OneTask DEF WorkersOK
<1>6. ASSUME task[i].status = "success", NEW j \in Index PROVE Complete(w[j])
  BY <1>4, <1>5, <1>6 DEF WorkersOK, Complete
<1>7. ASSUME NEW j \in Index, w[j] # "none"
      PROVE  j <= t.listed \/ (j = t.listed + 1 /\ t.status = "running")
  BY <1>3, <1>4, <1>5, <1>7 DEF WorkersOK
<1>8. WorkersOK(t, w)
  BY <1>3, <1>6, <1>7 DEF WorkersOK
<1> QED BY <1>1, <1>2, <1>3, <1>4, <1>8, TaskGoesOn DEF Active

LEMMA DeleteWorkerInv == ASSUME CAInv, NEW i \in TaskId, DeleteWorker(i) PROVE CAInv'
<1> DEFINE j == task[i].at
<1>1. task[i].pc = "deleting" /\ j <= task[i].listed /\ j \in Index
  BY OneTask DEF DeleteWorker, Index
<1>2. PICK t : /\ Becomes(i, t)
               /\ t \in {Goes(i, "stuck"), [task[i] EXCEPT !.at = @ + 1]}
               /\ \/ UNCHANGED worker
                  \/ WorkerGoes(i, j)
  BY DEF DeleteWorker
<1>3. /\ t \in TaskRecord /\ t.pc \in {"stuck", "deleting"} /\ t.listed = task[i].listed
      /\ t.status = task[i].status
  <2>1. CASE t = Goes(i, "stuck")
    BY <2>1, OneTask, GoesTo DEF TaskPhase
  <2>2. CASE t = [task[i] EXCEPT !.at = @ + 1]
    <3>1. j + 1 \in 1 .. Workers + 1
      BY <1>1, OneTask
    <3> QED BY <1>1, <2>2, <3>1, OneTask DEF TaskRecord
  <2> QED BY <1>2, <2>1, <2>2
<1>4. PICK w \in [Index -> WorkerState] :
        /\ worker' = [worker EXCEPT ![i] = w]
        /\ \A k \in Index : w[k] = worker[i][k] \/ (k = j /\ w[k] \in {"leaving", "gone"})
  <2>1. CASE UNCHANGED worker
    BY <2>1, OneTask
  <2>2. CASE WorkerGoes(i, j)
    <3> DEFINE v == IF watching /\ worker[i][j] # "gone" THEN "leaving" ELSE "gone"
               x == [worker[i] EXCEPT ![j] = v]
    <3>1. worker' = [worker EXCEPT ![i] = x]
      BY <2>2 DEF WorkerGoes, Works
    <3>2. v \in {"leaving", "gone"} /\ v \in WorkerState
      BY DEF WorkerState
    <3> HIDE DEF v
    <3>3. /\ x \in [Index -> WorkerState] /\ x[j] = v
          /\ \A k \in Index : k # j => x[k] = worker[i][k]
      BY <1>1, <3>2, OneTask
    <3> QED BY <3>1, <3>2, <3>3
  <2> QED BY <1>2, <2>1, <2>2
<1>5. WorkersOK(task[i], worker[i])
  BY OneTask
<1>6. ASSUME task[i].status = "success", NEW k \in Index PROVE Complete(w[k])
  BY <1>4, <1>5, <1>6 DEF WorkersOK, Complete
<1>7. ASSUME NEW k \in Index, w[k] # "none"
      PROVE  k <= t.listed \/ (k = t.listed + 1 /\ t.status = "running")
  BY <1>1, <1>3, <1>4, <1>5, <1>7 DEF WorkersOK
<1>8. WorkersOK(t, w)
  BY <1>3, <1>6, <1>7 DEF WorkersOK
<1> QED BY <1>1, <1>2, <1>3, <1>4, <1>8, TaskGoesOn DEF Active, Executing

-----------------------------------------------------------------------------
(* Beginnings and ends. *)

LEMMA CreateInv ==
  ASSUME CAInv, NEW k \in TaskType, NEW i \in TaskId, Create(k, i)
  PROVE  CAInv'
<1>1. /\ task[i].pc = "none" /\ asking = NoRequest
      /\ held' = held \ {i} /\ recorded' = recorded \ {i}
      /\ UNCHANGED <<table, task, worker, watching>>
      /\ \E g : asking' = [task |-> i, grant |-> g]
  BY DEF Create, Request, Looping, taskVars
<1>2. asking'.task = i /\ asking' # NoRequest /\ i # NoTask
  BY <1>1, NoTaskIsNoTask DEF NoRequest
<1>3. TaskTypes /\ HoldersInv
  BY DEF CAInv
<1>4. TaskTypes'
  BY <1>1, <1>2, <1>3 DEF TaskTypes
<1>5. \A l \in TaskType : table[l] # i
  BY <1>1, <1>2, <1>3 DEF HoldersInv, Active, Executing
<1>6. HoldersInv'
  BY <1>1, <1>2, <1>3, <1>5 DEF HoldersInv
<1> QED BY <1>1, <1>4, <1>6 DEF CAInv

LEMMA CreatedInv == ASSUME CAInv, NEW k \in TaskType, Created(k) PROVE CAInv'
<1> DEFINE i == asking.task
<1>1. /\ asking # NoRequest /\ table[k] = NoTask
      /\ held' = held \cup {i} /\ recorded' \in {recorded, recorded \cup {i}}
      /\ asking' = NoRequest /\ UNCHANGED <<watching, worker>>
      /\ \/ table' = [table EXCEPT ![k] = i] /\ task' = [task EXCEPT ![i] = Goes(i, "saving")]
         \/ task' = [task EXCEPT ![i] = Goes(i, "lost")] /\ UNCHANGED table
  BY DEF Created, Grant, Looping
<1>2. TaskTypes /\ HoldersInv
  BY DEF CAInv
<1>3. i \in TaskId /\ i # NoTask /\ task[i].pc = "none"
  BY <1>1, <1>2 DEF TaskTypes, HoldersInv
<1> HIDE DEF i
<1>4. PICK pc \in {"saving", "lost"} :
        /\ task' = [task EXCEPT ![i] = Goes(i, pc)]
        /\ \/ pc = "saving" /\ table' = [table EXCEPT ![k] = i]
           \/ pc = "lost" /\ UNCHANGED table
  BY <1>1
<1>5. /\ Goes(i, pc) \in TaskRecord /\ Goes(i, pc).pc = pc
      /\ Goes(i, pc).listed = task[i].listed /\ Goes(i, pc).status = task[i].status
  BY <1>2, <1>3, GoesTo DEF TaskPhase, Active, Executing
<1>6. /\ task'[i] = Goes(i, pc)
      /\ \A j \in TaskId : j # i => task'[j] = task[j]
  BY <1>2, <1>3, <1>4 DEF TaskTypes
<1>7. asking'.task = NoTask
  BY <1>1 DEF NoRequest
<1>8. TaskTypes'
  BY <1>1, <1>2, <1>3, <1>4, <1>5, <1>7 DEF TaskTypes
<1>9. \A l \in TaskType : table[l] # i
  BY <1>2, <1>3 DEF HoldersInv, Active, Executing
<1>10. HoldersInv'
  <2>1. ASSUME NEW l \in TaskType, table'[l] # NoTask
        PROVE  table'[l] \in held' /\ task'[table'[l]].pc \in {"stuck"} \cup Active
    <3>1. CASE table'[l] = i
      <4>1. pc = "saving"
        BY <1>4, <1>9, <3>1
      <4> QED BY <1>1, <1>5, <1>6, <3>1, <4>1 DEF Active
    <3>2. CASE table'[l] = table[l]
      <4>1. table[l] \in TaskId /\ table[l] # i
        BY <1>2, <1>9, <2>1, <3>2 DEF TaskTypes
      <4> QED BY <1>1, <1>2, <1>6, <2>1, <3>2, <4>1 DEF HoldersInv
    <3> QED BY <1>2, <1>4, <3>1, <3>2 DEF TaskTypes
  <2>2. ASSUME NEW j \in held'
        PROVE  task'[j].pc \in {"lost", "dead"} \/ \E l \in TaskType : table'[l] = j
    <3>1. CASE j = i
      BY <1>2, <1>4, <1>5, <1>6, <3>1 DEF TaskTypes
    <3>2. CASE j # i
      <4>1. j \in held /\ j \in TaskId
        BY <1>1, <1>2, <3>2 DEF TaskTypes
      <4>2. \A l \in TaskType : table[l] = j => l # k
        BY <1>1, <1>2, <4>1, NoTaskIsNoTask
      <4> QED BY <1>2, <1>4, <1>6, <3>2, <4>1, <4>2 DEF HoldersInv, TaskTypes
    <3> QED BY <3>1, <3>2
  <2> QED BY <1>1, <1>7, <2>1, <2>2 DEF HoldersInv
<1>11. \A j \in TaskId : WorkersOK(task'[j], worker'[j])
  <2>1. WorkersOK(task[i], worker[i])
    BY <1>3 DEF CAInv
  <2>2. WorkersOK(Goes(i, pc), worker[i])
    BY <1>3, <1>5, <2>1 DEF WorkersOK
  <2> QED BY <1>1, <1>6, <2>2 DEF CAInv
<1> QED BY <1>8, <1>10, <1>11 DEF CAInv

LEMMA FinishInv == ASSUME CAInv, NEW i \in TaskId, Finish(i) PROVE CAInv'
<1>1. /\ task[i].pc = "deleting" /\ \A j \in 1 .. task[i].listed : worker[i][j] = "gone"
      /\ held' = held \ {i} /\ recorded' = recorded \ {i}
      /\ table' = [k \in TaskType |-> IF table[k] = i THEN NoTask ELSE table[k]]
      /\ task' = [task EXCEPT ![i] = Goes(i, "done")]
      /\ UNCHANGED <<worker, asking, watching>>
  BY DEF Finish, Release
<1>2. TaskTypes /\ HoldersInv /\ WorkersOK(task[i], worker[i])
  BY DEF CAInv
<1>3. /\ Goes(i, "done") \in TaskRecord /\ Goes(i, "done").pc = "done"
      /\ Goes(i, "done").listed = task[i].listed /\ Goes(i, "done").status = task[i].status
  BY <1>2, GoesTo DEF TaskPhase
<1>4. /\ task'[i] = Goes(i, "done")
      /\ \A j \in TaskId : j # i => task'[j] = task[j]
  BY <1>1, <1>2 DEF TaskTypes
<1>5. TaskTypes'
  BY <1>1, <1>2, <1>3 DEF TaskTypes
<1>6. HoldersInv'
  <2>1. asking # NoRequest => asking.task \in TaskId /\ asking.task # i
    BY <1>1, <1>2 DEF HoldersInv, TaskTypes
  <2>2. \A k \in TaskType : table'[k] # NoTask =>
          table'[k] = table[k] /\ table[k] # i /\ table[k] \in TaskId
    BY <1>1, <1>2 DEF TaskTypes
  <2>3. \A j \in held' : j # i /\ j \in held /\ j \in TaskId
    BY <1>1, <1>2 DEF TaskTypes
  <2>4. \A k \in TaskType : table[k] # i => table'[k] = table[k]
    BY <1>1
  <2> QED BY <1>1, <1>2, <1>4, <2>1, <2>2, <2>3, <2>4 DEF HoldersInv
<1>7. WorkersOK(Goes(i, "done"), worker[i])
  <2>1. \A j \in Index : j <= task[i].listed => worker[i][j] = "gone"
    BY <1>1, OneTask DEF Index
  <2> QED BY <1>1, <1>2, <1>3, <2>1 DEF WorkersOK
<1> QED BY <1>1, <1>4, <1>5, <1>6, <1>7 DEF CAInv

\* A pod or a process moves by itself.
LEMMA WorkerInv ==
  ASSUME CAInv, NEW i \in TaskId, NEW j \in Index, WorkerMoves(i, j) \/ Evict(i, j)
  PROVE  CAInv'
<1>1. UNCHANGED <<table, task, held, recorded, asking, watching>>
  BY DEF WorkerMoves, Evict, rmVars
<1>2. PICK v \in WorkerState :
        /\ worker' = [worker EXCEPT ![i][j] = v]
        /\ worker[i][j] \notin {"none", "gone"} /\ v # "none"
        /\ Complete(worker[i][j]) => Complete(v)
  BY DEF WorkerMoves, Evict, Works, Progress, WorkerState, Complete
<1>3. TaskTypes /\ HoldersInv /\ WorkersOK(task[i], worker[i])
  BY DEF CAInv
<1> DEFINE w == [worker[i] EXCEPT ![j] = v]
<1>4. /\ w \in [Index -> WorkerState] /\ w[j] = v
      /\ \A k \in Index : k # j => w[k] = worker[i][k]
  BY <1>3 DEF TaskTypes
<1>5. /\ worker' \in [TaskId -> [Index -> WorkerState]] /\ worker'[i] = w
      /\ \A k \in TaskId : k # i => worker'[k] = worker[k]
  BY <1>2, <1>3, <1>4 DEF TaskTypes
<1> HIDE DEF w
<1>6. TaskTypes' /\ HoldersInv'
  BY <1>1, <1>3, <1>5 DEF TaskTypes, HoldersInv
<1>7. WorkersOK(task[i], w)
  BY <1>2, <1>3, <1>4 DEF WorkersOK
<1> QED BY <1>1, <1>5, <1>6, <1>7 DEF CAInv

LEMMA RestartInv == ASSUME CAInv, Restart PROVE CAInv'
<1>1. /\ held' = recorded /\ recorded' = recorded /\ asking' = NoRequest
      /\ table' = [k \in TaskType |-> NoTask]
      /\ task' = [i \in TaskId |->
           IF task[i].pc \in {"none", "done", "lost"} /\ asking.task # i THEN task[i]
           ELSE Goes(i, "dead")]
      /\ UNCHANGED <<worker, watching>>
  BY DEF Restart, Restore
<1>2. TaskTypes /\ HoldersInv
  BY DEF CAInv
<1>3. ASSUME NEW i \in TaskId
      PROVE  /\ Goes(i, "dead") \in TaskRecord /\ Goes(i, "dead").pc = "dead"
             /\ Goes(i, "dead").listed = task[i].listed /\ Goes(i, "dead").status = task[i].status
  BY <1>2, GoesTo DEF TaskPhase
<1>4. asking'.task = NoTask
  BY <1>1 DEF NoRequest
<1>5. TaskTypes'
  BY <1>1, <1>2, <1>3, <1>4 DEF TaskTypes
<1>6. HoldersInv'
  <2>1. ASSUME NEW i \in held' PROVE task'[i].pc \in {"lost", "dead"}
    <3>1. i \in held /\ i \in TaskId
      BY <1>1, <1>2, <2>1 DEF TaskTypes
    <3>2. task[i].pc \notin {"none", "done"}
      BY <1>2, <3>1, NoTaskIsNoTask DEF HoldersInv, Active, Executing
    <3> QED BY <1>1, <1>3, <3>1, <3>2
  <2> QED BY <1>1, <1>4, <2>1 DEF HoldersInv
<1>7. ASSUME NEW i \in TaskId PROVE WorkersOK(task'[i], worker'[i])
  <2>1. WorkersOK(task[i], worker[i])
    BY DEF CAInv
  <2>2. WorkersOK(Goes(i, "dead"), worker[i])
    BY <1>3, <2>1 DEF WorkersOK
  <2> QED BY <1>1, <2>1, <2>2
<1> QED BY <1>5, <1>6, <1>7 DEF CAInv

LEMMA NothingInv ==
  ASSUME CAInv, UNCHANGED <<table, task, worker, held, recorded, asking, watching>>
  PROVE  CAInv'
BY DEF CAInv, TaskTypes, HoldersInv

LEMMA CAStep == ASSUME CAInv, [CANext]_caVars PROVE CAInv'
<1>1. ASSUME NEW i \in TaskId, TaskStep(i) \/ GiveUp(i) PROVE CAInv'
  BY <1>1, SaveFilesInv, CallWorkerInv, WorkerCalledInv, ReadStatusInv, ToldInv,
     DeleteWorkerInv, FinishInv DEF TaskStep
<1>2. ASSUME NEW i \in TaskId, NEW j \in Index, TimeUp(i, j) PROVE CAInv'
  BY <1>2, NothingInv DEF TimeUp, rmVars
<1>3. CASE WatchNodes
  BY <1>3, NothingInv DEF WatchNodes, Watch, taskVars
<1>4. CASE UNCHANGED caVars
  BY <1>4, NothingInv DEF caVars
<1> QED BY <1>1, <1>2, <1>3, <1>4, CreateInv, CreatedInv, StopInv, WorkerInv, RestartInv
        DEF CANext

LEMMA CAAlways == CASafety => []CAInv
BY CAInitInv, CAStep, PTL DEF CASafety

\* Every task in the table holds its resource, and no other does but those whose
\* saving failed and those of an earlier life of the agent.
THEOREM ResourceIsHeld == CASpec => []HeldByTasks
<1>1. CAInv => HeldByTasks
  BY DEF CAInv, HoldersInv, HeldByTasks
<1> QED BY <1>1, CAAlways, PTL DEF CASpec

\* A task that is done has taken its workers with it, but for the one whose creation
\* was cancelled.
THEOREM WorkersAreGone == CASpec => []WorkersGoFirst
<1>1. CAInv => WorkersGoFirst
  BY DEF CAInv, WorkersOK, WorkersGoFirst
<1> QED BY <1>1, CAAlways, PTL DEF CASpec

\* A success was recorded when all the workers had completed, although they are
\* looked at one after the other, and some fail or go meanwhile.
THEOREM SuccessMeansComplete == CASpec => []SuccessIsComplete
<1>1. CAInv => SuccessIsComplete
  BY DEF CAInv, WorkersOK, SuccessIsComplete, Complete
<1> QED BY <1>1, CAAlways, PTL DEF CASpec

-----------------------------------------------------------------------------
(* What is allocated.                                                      *)

\* What AllocationCoversHeld says of one node, with its arguments spelled out, so that
\* a node can be compared with itself after a step.
NodeRecord ==
  [volume : 0 .. Volume, ready : BOOLEAN, allocated : Nat, tasks : [TaskId -> Nat]]

\* What each task holds on a node that knows it by the table tasks.
Shares(tasks, x, gr) == [t \in TaskId |-> IF tasks[t] > 0 THEN gr[t][x] ELSE 0]

Covered(n, x, gr, h, w) ==
  /\ SumFunctionOnSet(Shares(n.tasks, x, gr), h) <= n.allocated
  /\ ~w => SumFunctionOnSet(Shares(n.tasks, x, gr), h) = n.allocated

\* The types, and: the task that is being asked for holds nothing, and one that holds
\* nothing is granted nothing, so that what it is granted can be added, and what it
\* gives back is what the nodes counted.
AllocInv ==
  /\ RMTypeOK
  /\ asking.task \notin held
  /\ \A t \in TaskId : t \notin held => granted[t] = Nothing
  /\ AllocationCoversHeld

\* The same of all nodes is the property, now and after a step.
LEMMA CoveredMeans ==
  AllocationCoversHeld <=> \A x \in nodes : Covered(node[x], x, granted, held, watching)
BY DEF AllocationCoversHeld, HeldOn, Covered, Shares

LEMMA CoveredMeansNext ==
  AllocationCoversHeld' <=>
    \A x \in nodes' : Covered(node'[x], x, granted', held', watching')
BY DEF AllocationCoversHeld, HeldOn, Covered, Shares

LEMMA SharesNat ==
  ASSUME NEW tasks \in [TaskId -> Nat], NEW x \in Node,
         NEW gr \in [TaskId -> [Node -> Nat]], NEW h \in SUBSET TaskId
  PROVE  /\ IsFiniteSet(h)
         /\ \A t \in h : Shares(tasks, x, gr)[t] \in Nat
         /\ SumFunctionOnSet(Shares(tasks, x, gr), h) \in Nat
<1>1. IsFiniteSet(h)
  BY RMAssumption, FS_Subset
<1>2. \A t \in h : Shares(tasks, x, gr)[t] \in Nat
  BY DEF Shares
<1> QED BY <1>1, <1>2, SumNat

LEMMA NewNodeType ==
  ASSUME NEW v \in 0 .. Volume, NEW r \in BOOLEAN PROVE NewNode(v, r) \in NodeRecord
BY RMAssumption DEF NewNode, NodeRecord

LEMMA AllocInit == CAInit => AllocInv
<1> SUFFICES ASSUME RMInit PROVE AllocInv
  BY DEF CAInit
<1>1. Fetched \in [Node -> NodeRecord]
  <2>1. Volume \in 0 .. Volume /\ TRUE \in BOOLEAN
    BY RMAssumption
  <2>2. NewNode(Volume, TRUE) \in NodeRecord
    BY <2>1, NewNodeType
  <2> QED BY <2>2 DEF Fetched
<1>2. Nothing \in [Node -> Nat]
  BY DEF Nothing
<1>3. NoRequest \in [task : TaskId \cup {NoTask}, grant : [Node -> Nat]]
  BY <1>2 DEF NoRequest
<1>4. 0 \in 0 .. MaxEvents
  BY RMAssumption
<1>5. RMTypeOK
  BY <1>1, <1>2, <1>3, <1>4 DEF RMInit, RMTypeOK, NodeRecord
<1>6. ASSUME NEW x \in Node PROVE Covered(node[x], x, granted, held, watching)
  <2>1. SumFunctionOnSet(Shares(node[x].tasks, x, granted), {}) = 0
    BY SumZero, FS_EmptySet
  <2>2. node[x].allocated = 0
    BY DEF RMInit, Fetched, NewNode
  <2> QED BY <2>1, <2>2 DEF Covered, RMInit
<1> QED BY <1>5, <1>6, CoveredMeans DEF AllocInv, RMInit

\* A node from which a task takes back all it holds there.
LEMMA NodeReleases ==
  ASSUME NEW n \in NodeRecord, NEW x \in Node, NEW gr \in [TaskId -> [Node -> Nat]],
         NEW h \in SUBSET TaskId, NEW w, Covered(n, x, gr, h, w),
         NEW t \in TaskId, t \notin h => gr[t] = Nothing
  PROVE  /\ Released(n, t, gr[t][x]) \in NodeRecord
         /\ Covered(Released(n, t, gr[t][x]), x, [gr EXCEPT ![t] = Nothing], h \ {t}, w)
<1> DEFINE f == Shares(n.tasks, x, gr)
           m == Released(n, t, gr[t][x])
           g == Shares(m.tasks, x, [gr EXCEPT ![t] = Nothing])
           S == SumFunctionOnSet(f, h)
           R == SumFunctionOnSet(f, h \ {t})
<1>1. n.tasks \in [TaskId -> Nat] /\ n.allocated \in Nat /\ gr[t][x] \in Nat
  BY DEF NodeRecord
<1>2. IsFiniteSet(h) /\ (\A s \in h : f[s] \in Nat) /\ S \in Nat /\ R \in Nat
  BY <1>1, SharesNat
<1>3. f[t] = IF n.tasks[t] > 0 THEN gr[t][x] ELSE 0
  BY DEF Shares
<1>4. S = f[t] + R
  <2>1. CASE t \in h
    BY <1>2, <2>1, SumWithout
  <2>2. CASE t \notin h
    <3>1. f[t] = 0
      BY <1>3, <2>2 DEF Nothing
    <3>2. h \ {t} = h
      BY <2>2
    <3>3. R = S
      <4> HIDE DEF f
      <4> QED BY <3>2
    <3> HIDE DEF f, R, S
    <3> QED BY <1>2, <3>1, <3>3
  <2> QED BY <2>1, <2>2
<1>5. n.tasks[t] = 0 => m = n
  BY DEF Released
<1>6. n.tasks[t] # 0 =>
        /\ m = [n EXCEPT !.tasks[t] = n.tasks[t] + gr[t][x], !.allocated = n.allocated - gr[t][x]]
        /\ m.allocated = n.allocated - gr[t][x]
        /\ m.tasks = [n.tasks EXCEPT ![t] = n.tasks[t] + gr[t][x]]
        /\ m.volume = n.volume /\ m.ready = n.ready
        /\ m = [volume |-> m.volume, ready |-> m.ready, allocated |-> m.allocated,
                tasks |-> m.tasks]
  BY DEF Released, NodeRecord
<1>7. S <= n.allocated /\ (~w => S = n.allocated)
  BY DEF Covered
<1>8. m.allocated = n.allocated - f[t] /\ m.allocated \in Nat
  <2>1. m.allocated = n.allocated - f[t]
    <3> HIDE DEF f, m
    <3>1. CASE n.tasks[t] = 0
      BY <1>1, <1>3, <1>5, <3>1
    <3>2. CASE n.tasks[t] # 0
      BY <1>1, <1>3, <1>6, <3>2
    <3> QED BY <3>1, <3>2
  <2> HIDE DEF f, m, R, S
  <2>2. f[t] \in Nat
    BY <1>1, <1>3
  <2> QED BY <1>1, <1>2, <1>4, <1>7, <2>1, <2>2
<1>9. m \in NodeRecord
  <2>1. CASE n.tasks[t] = 0
    BY <1>5, <2>1
  <2>2. CASE n.tasks[t] # 0
    <3>1. n.volume \in 0 .. Volume /\ n.ready \in BOOLEAN
      BY DEF NodeRecord
    <3>2. m.tasks \in [TaskId -> Nat]
      <4> HIDE DEF m
      <4> QED BY <1>1, <1>6, <2>2
    <3> HIDE DEF m
    <3> QED BY <1>6, <1>8, <2>2, <3>1, <3>2 DEF NodeRecord
  <2> QED BY <2>1, <2>2
<1>10. ASSUME NEW s \in h \ {t} PROVE g[s] = f[s]
  <2>1. m.tasks[s] = n.tasks[s]
    BY <1>1, <1>5, <1>6, <1>10 DEF NodeRecord
  <2> QED BY <1>10, <2>1 DEF Shares
<1>11. SumFunctionOnSet(g, h \ {t}) = R
  <2>1. IsFiniteSet(h \ {t})
    BY <1>2, FS_Subset
  <2> HIDE DEF f, g
  <2> QED BY <1>10, <2>1, SumSame
<1>12. R <= m.allocated /\ (~w => R = m.allocated)
  <2> HIDE DEF f, m, R, S
  <2> QED BY <1>1, <1>2, <1>3, <1>4, <1>7, <1>8
<1> QED BY <1>9, <1>11, <1>12 DEF Covered

\* A task gives back what it holds on all nodes: release, and the start of request.
LEMMA GivesBack ==
  ASSUME AllocInv, NEW t \in TaskId, node' = GivenBack(t), held' = held \ {t},
         recorded' = recorded \ {t}, granted' = [granted EXCEPT ![t] = Nothing],
         UNCHANGED <<nodes, watching, events>>,
         asking' \in [task : TaskId \cup {NoTask}, grant : [Node -> Nat]],
         asking'.task \notin held'
  PROVE  AllocInv'
<1>1. RMTypeOK /\ node \in [Node -> NodeRecord]
  BY DEF AllocInv, RMTypeOK, NodeRecord
<1>2. ASSUME NEW x \in nodes
      PROVE  /\ node'[x] \in NodeRecord
             /\ Covered(node'[x], x, granted', held', watching')
  <2>1. x \in Node /\ node'[x] = Released(node[x], t, granted[t][x])
    BY <1>1, <1>2 DEF GivenBack, RMTypeOK
  <2>2. Covered(node[x], x, granted, held, watching)
    BY <1>2, CoveredMeans DEF AllocInv
  <2>3. node[x] \in NodeRecord
    BY <1>1, <2>1
  <2>4. granted \in [TaskId -> [Node -> Nat]] /\ held \in SUBSET TaskId
    BY <1>1 DEF RMTypeOK
  <2>5. t \notin held => granted[t] = Nothing
    BY DEF AllocInv
  <2>6. /\ Released(node[x], t, granted[t][x]) \in NodeRecord
        /\ Covered(Released(node[x], t, granted[t][x]), x,
                   [granted EXCEPT ![t] = Nothing], held \ {t}, watching)
    BY <2>1, <2>2, <2>3, <2>4, <2>5, NodeReleases
  <2> QED BY <2>1, <2>6
<1>3. ASSUME NEW x \in Node PROVE GivenBack(t)[x] \in NodeRecord
  <2>1. CASE x \in nodes
    BY <1>2, <2>1
  <2>2. CASE x \notin nodes
    BY <1>1, <2>2 DEF GivenBack
  <2> QED BY <2>1, <2>2
<1>4. node' \in [Node -> NodeRecord]
  BY <1>3 DEF GivenBack
<1>5. granted' \in [TaskId -> [Node -> Nat]]
  BY <1>1 DEF RMTypeOK, Nothing
<1>6. RMTypeOK'
  BY <1>1, <1>4, <1>5 DEF RMTypeOK, NodeRecord
<1>7. ASSUME NEW s \in TaskId, s \notin held' PROVE granted'[s] = Nothing
  BY <1>1, <1>7 DEF AllocInv, RMTypeOK
<1> QED BY <1>2, <1>6, <1>7, CoveredMeansNext DEF AllocInv

\* A node on which a task is given something, which it did not hold before.
LEMMA NodeOccupied ==
  ASSUME NEW n \in NodeRecord, NEW x \in Node, NEW gr \in [TaskId -> [Node -> Nat]],
         NEW h \in SUBSET TaskId, NEW w, Covered(n, x, gr, h, w),
         NEW t \in TaskId, t \notin h, NEW a \in [Node -> Nat]
  PROVE  /\ Occupied(n, t, a[x]) \in NodeRecord
         /\ Covered(Occupied(n, t, a[x]), x, [gr EXCEPT ![t] = a], h \cup {t}, w)
<1> DEFINE f == Shares(n.tasks, x, gr)
           m == Occupied(n, t, a[x])
           g == Shares(m.tasks, x, [gr EXCEPT ![t] = a])
           S == SumFunctionOnSet(f, h)
           R == SumFunctionOnSet(g, h \cup {t})
<1>1. n.tasks \in [TaskId -> Nat] /\ n.allocated \in Nat /\ a[x] \in Nat
      /\ n.volume \in 0 .. Volume /\ n.ready \in BOOLEAN
  BY DEF NodeRecord
<1>2. /\ m.allocated = n.allocated + a[x]
      /\ m.tasks = [n.tasks EXCEPT ![t] = n.tasks[t] + a[x]]
      /\ m.volume = n.volume /\ m.ready = n.ready
      /\ m = [volume |-> m.volume, ready |-> m.ready, allocated |-> m.allocated,
              tasks |-> m.tasks]
  <2>1. m = [n EXCEPT !.tasks = [n.tasks EXCEPT ![t] = n.tasks[t] + a[x]],
                      !.allocated = n.allocated + a[x]]
    BY DEF Occupied
  <2> HIDE DEF m
  <2> QED BY <2>1 DEF NodeRecord
<1>3. m.tasks \in [TaskId -> Nat]
  <2> HIDE DEF m
  <2> QED BY <1>1, <1>2
<1>4. m \in NodeRecord
  <2>1. m.allocated \in Nat
    <3> HIDE DEF m
    <3> QED BY <1>1, <1>2
  <2> HIDE DEF m
  <2> QED BY <1>1, <1>2, <1>3, <2>1 DEF NodeRecord
<1>5. /\ IsFiniteSet(h \cup {t}) /\ IsFiniteSet(h)
      /\ \A s \in h \cup {t} : g[s] \in Nat
      /\ S \in Nat
  <2>1. [gr EXCEPT ![t] = a] \in [TaskId -> [Node -> Nat]]
    OBVIOUS
  <2>2. h \cup {t} \in SUBSET TaskId
    OBVIOUS
  <2> HIDE DEF m
  <2> QED BY <1>1, <1>3, <2>1, <2>2, SharesNat
<1>6. g[t] = a[x]
  <2>1. g[t] = IF m.tasks[t] > 0 THEN a[x] ELSE 0
    BY DEF Shares
  <2>2. m.tasks[t] = n.tasks[t] + a[x] /\ n.tasks[t] \in Nat /\ m.tasks[t] \in Nat
    <3> HIDE DEF m
    <3> QED BY <1>1, <1>2
  <2> DEFINE b == a[x]
  <2>3. b \in Nat /\ n.tasks[t] \in Nat /\ m.tasks[t] = n.tasks[t] + b
    BY <1>1, <2>2
  <2>4. m.tasks[t] > 0 \/ b = 0
    <3> HIDE DEF b, m
    <3> QED BY <2>3
  <2> HIDE DEF m, g
  <2> QED BY <2>1, <2>4
<1>7. R = g[t] + SumFunctionOnSet(g, h)
  <2> DEFINE H == h \cup {t}
  <2>1. H \ {t} = h
    OBVIOUS
  <2>2. IsFiniteSet(H) /\ (\A s \in H : g[s] \in Nat) /\ t \in H
    BY <1>5
  <2> HIDE DEF g, H
  <2>3. SumFunctionOnSet(g, H) = g[t] + SumFunctionOnSet(g, H \ {t})
    BY <2>2, SumWithout
  <2> QED BY <2>1, <2>3 DEF H
<1>8. SumFunctionOnSet(g, h) = S
  <2>1. ASSUME NEW s \in h PROVE g[s] = f[s]
    <3>1. m.tasks[s] = n.tasks[s]
      <4> HIDE DEF m
      <4> QED BY <1>1, <1>2, <2>1
    <3> HIDE DEF m
    <3> QED BY <2>1, <3>1 DEF Shares
  <2> HIDE DEF f, g
  <2> QED BY <1>5, <2>1, SumSame
<1>9. S <= n.allocated /\ (~w => S = n.allocated)
  BY DEF Covered
<1>10. R <= m.allocated /\ (~w => R = m.allocated)
  <2>1. R = a[x] + S
    <3> HIDE DEF g, R, S
    <3> QED BY <1>6, <1>7, <1>8
  <2> HIDE DEF m, R, S
  <2> QED BY <1>1, <1>2, <1>5, <1>9, <2>1
<1> QED BY <1>4, <1>10 DEF Covered

\* The rest of request, however the nodes have changed since its start.
LEMMA GrantAlloc == ASSUME AllocInv, asking.task \in TaskId, Grant PROVE AllocInv'
<1> DEFINE t == asking.task
           a == asking.grant
<1>1. RMTypeOK /\ node \in [Node -> NodeRecord] /\ a \in [Node -> Nat]
  BY DEF AllocInv, RMTypeOK, NodeRecord
<1>2. /\ held' = held \cup {t} /\ granted' = [granted EXCEPT ![t] = a]
      /\ asking' = NoRequest /\ recorded' \in {recorded, recorded \cup {t}}
      /\ UNCHANGED <<nodes, watching, events>>
      /\ node' = [x \in Node |-> IF x \in nodes THEN Occupied(node[x], t, a[x]) ELSE node[x]]
  BY DEF Grant, Occupy
<1>3. ASSUME NEW x \in nodes
      PROVE  /\ node'[x] \in NodeRecord
             /\ Covered(node'[x], x, granted', held', watching')
  <2>1. x \in Node /\ node'[x] = Occupied(node[x], t, a[x])
    BY <1>1, <1>2, <1>3 DEF RMTypeOK
  <2>2. Covered(node[x], x, granted, held, watching)
    BY <1>3, CoveredMeans DEF AllocInv
  <2>3. /\ node[x] \in NodeRecord
        /\ granted \in [TaskId -> [Node -> Nat]] /\ held \in SUBSET TaskId
        /\ t \notin held
    BY <1>1, <2>1 DEF RMTypeOK, AllocInv
  <2>4. /\ Occupied(node[x], t, a[x]) \in NodeRecord
        /\ Covered(Occupied(node[x], t, a[x]), x,
                   [granted EXCEPT ![t] = a], held \cup {t}, watching)
    <3> HIDE DEF t, a
    <3>1. t \in TaskId
      BY DEF t
    <3> QED BY <1>1, <2>1, <2>2, <2>3, <3>1, NodeOccupied
  <2> QED BY <1>2, <2>1, <2>4
<1>4. node' \in [Node -> NodeRecord]
  BY <1>1, <1>2, <1>3
<1>5. granted' \in [TaskId -> [Node -> Nat]]
  BY <1>1, <1>2 DEF RMTypeOK
<1>6. asking' \in [task : TaskId \cup {NoTask}, grant : [Node -> Nat]] /\ asking'.task = NoTask
  BY <1>2 DEF NoRequest, Nothing
<1>7. RMTypeOK'
  BY <1>1, <1>2, <1>4, <1>5, <1>6 DEF RMTypeOK, NodeRecord
<1>8. asking'.task \notin held'
  BY <1>1, <1>2, <1>6, NoTaskIsNoTask DEF RMTypeOK
<1>9. ASSUME NEW s \in TaskId, s \notin held' PROVE granted'[s] = Nothing
  BY <1>1, <1>2, <1>9 DEF AllocInv, RMTypeOK
<1>10. AllocationCoversHeld'
  BY <1>2, <1>3, CoveredMeansNext
<1> QED BY <1>7, <1>8, <1>9, <1>10 DEF AllocInv

\* A node that is reported once more, differently or not, while the cluster is watched.
LEMMA NodeUpdated ==
  ASSUME NEW n \in NodeRecord, NEW x \in Node, NEW gr \in [TaskId -> [Node -> Nat]],
         NEW h \in SUBSET TaskId, Covered(n, x, gr, h, TRUE),
         NEW v \in 0 .. Volume, NEW r \in BOOLEAN
  PROVE  /\ Updated(n, v, r) \in NodeRecord
         /\ Covered(Updated(n, v, r), x, gr, h, TRUE)
<1> DEFINE m == Updated(n, v, r)
           d == [t \in TaskId |-> 2 * n.tasks[t]]
           f == Shares(n.tasks, x, gr)
           g == Shares(d, x, gr)
<1>1. n.tasks \in [TaskId -> Nat] /\ n.allocated \in Nat
  BY DEF NodeRecord
<1>2. d \in [TaskId -> Nat]
  BY <1>1
<1>3. SumFunction(d) \in Nat
  <2>1. DOMAIN d = TaskId /\ \A t \in TaskId : d[t] \in Nat
    BY <1>2
  <2>2. SumFunctionOnSet(d, TaskId) \in Nat
    <3> HIDE DEF d
    <3> QED BY <2>1, SumNat, RMAssumption
  <2> HIDE DEF d
  <2> QED BY <2>1, <2>2 DEF SumFunction
<1>4. CASE m = n
  BY <1>4
<1>5. CASE m # n
  <2>1. m = [volume |-> v, ready |-> r, tasks |-> d, allocated |-> n.allocated + SumFunction(d)]
    BY <1>5 DEF Updated
  <2>2. m.tasks = d /\ m.allocated = n.allocated + SumFunction(d)
    BY <2>1
  <2>3. m \in NodeRecord
    <3>1. n.allocated + SumFunction(d) \in Nat
      BY <1>1, <1>3
    <3> HIDE DEF d, m
    <3> QED BY <1>2, <2>1, <3>1 DEF NodeRecord
  <2>4. ASSUME NEW t \in h PROVE g[t] = f[t]
    <3>1. d[t] > 0 <=> n.tasks[t] > 0
      BY <1>1
    <3> HIDE DEF d
    <3> QED BY <3>1 DEF Shares
  <2>5. SumFunctionOnSet(g, h) = SumFunctionOnSet(f, h)
    <3>1. IsFiniteSet(h)
      BY RMAssumption, FS_Subset
    <3> HIDE DEF f, g
    <3> QED BY <2>4, <3>1, SumSame
  <2>6. SumFunctionOnSet(f, h) \in Nat
    BY <1>1, SharesNat
  <2>7. SumFunctionOnSet(f, h) <= n.allocated
    BY DEF Covered
  <2>8. SumFunctionOnSet(g, h) <= m.allocated
    <3> HIDE DEF d, f, g, m
    <3> QED BY <1>1, <1>3, <2>2, <2>5, <2>6, <2>7
  <2>9. Covered(m, x, gr, h, TRUE)
    <3> HIDE DEF d, m
    <3> QED BY <2>2, <2>8 DEF Covered
  <2> QED BY <2>3, <2>9
<1> QED BY <1>4, <1>5

\* A node comes, goes or is reported differently.
LEMMA WatchAlloc == ASSUME AllocInv, Watch PROVE AllocInv'
<1>1. RMTypeOK /\ node \in [Node -> NodeRecord]
  BY DEF AllocInv, RMTypeOK, NodeRecord
<1>2. /\ watching /\ events < MaxEvents /\ events' = events + 1
      /\ UNCHANGED <<held, granted, recorded, asking, watching>>
  BY DEF Watch
<1>3. watching = TRUE
  BY <1>1, <1>2 DEF RMTypeOK
<1>4. granted \in [TaskId -> [Node -> Nat]] /\ held \in SUBSET TaskId
  BY <1>1 DEF RMTypeOK
<1>5. ASSUME NEW x \in nodes PROVE Covered(node[x], x, granted, held, TRUE)
  BY <1>3, <1>5, CoveredMeans DEF AllocInv
<1>6. PICK x \in Node : DeleteNode(x) \/ \E v \in 1 .. Volume, r \in BOOLEAN : AddNode(x, v, r)
  BY DEF Watch
<1>7. /\ nodes' \subseteq Node /\ node' \in [Node -> NodeRecord]
      /\ \A y \in nodes' : Covered(node'[y], y, granted, held, TRUE)
  <2>1. CASE DeleteNode(x)
    <3>1. 0 \in 0 .. Volume /\ FALSE \in BOOLEAN
      BY RMAssumption
    <3>2. NewNode(0, FALSE) \in NodeRecord
      BY <3>1, NewNodeType
    <3>3. node' = [node EXCEPT ![x] = NewNode(0, FALSE)] /\ nodes' = nodes \ {x}
      BY <2>1 DEF DeleteNode
    <3>4. \A y \in nodes' : y \in nodes /\ node'[y] = node[y]
      BY <1>1, <3>3 DEF RMTypeOK
    <3> QED BY <1>1, <1>5, <3>2, <3>3, <3>4 DEF RMTypeOK
  <2>2. ASSUME NEW v \in 1 .. Volume, NEW r \in BOOLEAN, AddNode(x, v, r)
        PROVE  /\ nodes' \subseteq Node /\ node' \in [Node -> NodeRecord]
               /\ \A y \in nodes' : Covered(node'[y], y, granted, held, TRUE)
    <3> DEFINE m == IF x \in nodes THEN Updated(node[x], v, r) ELSE NewNode(v, r)
    <3>1. node' = [node EXCEPT ![x] = m] /\ nodes' = nodes \cup {x}
      BY <2>2 DEF AddNode
    <3>2. v \in 0 .. Volume
      BY RMAssumption
    <3>3. m \in NodeRecord /\ Covered(m, x, granted, held, TRUE)
      <4>1. CASE x \in nodes
        <5>1. node[x] \in NodeRecord /\ Covered(node[x], x, granted, held, TRUE)
          BY <1>1, <1>5, <4>1
        <5> QED BY <1>4, <3>2, <4>1, <5>1, NodeUpdated
      <4>2. CASE x \notin nodes
        <5> DEFINE n == NewNode(v, r)
        <5>1. n \in NodeRecord
          BY <3>2, NewNodeType
        <5>2. n.tasks = [t \in TaskId |-> 0] /\ n.allocated = 0
          BY DEF NewNode
        <5>3. \A t \in held : Shares(n.tasks, x, granted)[t] = 0
          <6> HIDE DEF n
          <6> QED BY <1>4, <5>2 DEF Shares
        <5>4. SumFunctionOnSet(Shares(n.tasks, x, granted), held) = 0
          <6>1. IsFiniteSet(held)
            BY <1>4, RMAssumption, FS_Subset
          <6> HIDE DEF n
          <6> QED BY <5>3, <6>1, SumZero
        <5>5. Covered(n, x, granted, held, TRUE)
          <6> HIDE DEF n
          <6> QED BY <5>2, <5>4 DEF Covered
        <5> QED BY <4>2, <5>1, <5>5
      <4> QED BY <4>1, <4>2
    <3>4. node' \in [Node -> NodeRecord]
      <4> HIDE DEF m
      <4> QED BY <1>1, <3>1, <3>3
    <3>5. ASSUME NEW y \in nodes' PROVE Covered(node'[y], y, granted, held, TRUE)
      <4> HIDE DEF m
      <4>1. CASE y = x
        BY <1>1, <3>1, <3>3, <4>1
      <4>2. CASE y # x
        <5>1. y \in nodes /\ node'[y] = node[y]
          BY <1>1, <3>1, <3>5, <4>2 DEF RMTypeOK
        <5> QED BY <1>5, <5>1
      <4> QED BY <4>1, <4>2
    <3> QED BY <1>1, <3>1, <3>4, <3>5 DEF RMTypeOK
  <2> QED BY <1>6, <2>1, <2>2
<1>8. events' \in 0 .. MaxEvents
  BY <1>1, <1>2, RMAssumption DEF RMTypeOK
<1>9. RMTypeOK'
  BY <1>1, <1>2, <1>7, <1>8 DEF RMTypeOK, NodeRecord
<1>10. AllocationCoversHeld'
  BY <1>2, <1>3, <1>7, CoveredMeansNext
<1> QED BY <1>2, <1>9, <1>10 DEF AllocInv

\* The agent starts again with what the database has.
LEMMA RestoreAlloc == ASSUME AllocInv, Restore PROVE AllocInv'
<1>1. RMTypeOK
  BY DEF AllocInv
<1>2. /\ held' = recorded /\ nodes' = Node /\ asking' = NoRequest
      /\ granted' = [t \in TaskId |-> IF t \in recorded THEN granted[t] ELSE Nothing]
      /\ UNCHANGED <<recorded, watching, events>>
  BY DEF Restore
<1>3. /\ recorded \subseteq TaskId /\ IsFiniteSet(recorded)
      /\ granted \in [TaskId -> [Node -> Nat]]
      /\ granted' \in [TaskId -> [Node -> Nat]]
  BY <1>1, <1>2, RMAssumption, FS_Subset DEF RMTypeOK, Nothing
<1>4. ASSUME NEW x \in Node
      PROVE  /\ node'[x] \in NodeRecord
             /\ Covered(node'[x], x, granted', held', watching')
  <2> DEFINE g == [t \in TaskId |-> granted[t][x]]
             k == [t \in TaskId |-> IF t \in recorded THEN granted[t][x] ELSE 0]
             n == node'[x]
             f == Shares(k, x, granted')
  <2>1. n = [volume |-> Volume, ready |-> TRUE,
             allocated |-> SumFunctionOnSet(g, recorded), tasks |-> k]
    BY DEF Restore, Fetched, NewNode
  <2>2. SumFunctionOnSet(g, recorded) \in Nat
    <3>1. \A t \in recorded : g[t] \in Nat
      BY <1>3
    <3> HIDE DEF g
    <3> QED BY <1>3, <3>1, SumNat
  <2>3. k \in [TaskId -> Nat]
    BY <1>3
  <2>4. n \in NodeRecord
    <3> HIDE DEF n, k, g
    <3> QED BY <2>1, <2>2, <2>3, RMAssumption DEF NodeRecord
  <2>5. ASSUME NEW t \in recorded PROVE f[t] = g[t]
    <3>1. t \in TaskId /\ k[t] = granted[t][x] /\ granted'[t][x] = granted[t][x] /\ granted[t][x] \in Nat
      BY <1>2, <1>3, <2>5
    <3>2. f[t] = IF k[t] > 0 THEN granted'[t][x] ELSE 0
      <4> HIDE DEF k
      <4> QED BY <3>1 DEF Shares
    <3>3. g[t] = granted[t][x]
      BY <3>1
    <3> HIDE DEF f, g, k
    <3> QED BY <3>1, <3>2, <3>3
  <2>6. SumFunctionOnSet(f, recorded) = SumFunctionOnSet(g, recorded)
    <3> HIDE DEF f, g
    <3> QED BY <1>3, <2>5, SumSame
  <2>7. Covered(n, x, granted', recorded, watching')
    <3> HIDE DEF n, k, g
    <3> QED BY <2>1, <2>2, <2>6 DEF Covered
  <2> QED BY <1>2, <2>4, <2>7
<1>5. node' \in [Node -> NodeRecord]
  <2>1. node' = [x \in Node |-> node'[x]]
    BY DEF Restore
  <2> QED BY <1>4, <2>1
<1>6. asking' \in [task : TaskId \cup {NoTask}, grant : [Node -> Nat]] /\ asking'.task = NoTask
  BY <1>2 DEF NoRequest, Nothing
<1>7. RMTypeOK'
  BY <1>1, <1>2, <1>3, <1>5, <1>6 DEF RMTypeOK, NodeRecord
<1>8. asking'.task \notin held'
  BY <1>2, <1>3, <1>6, NoTaskIsNoTask
<1>9. ASSUME NEW s \in TaskId, s \notin held' PROVE granted'[s] = Nothing
  BY <1>2, <1>9
<1>10. AllocationCoversHeld'
  BY <1>2, <1>4, CoveredMeansNext
<1> QED BY <1>7, <1>8, <1>9, <1>10 DEF AllocInv

LEMMA AllocStep == ASSUME AllocInv, CAInv, [CANext]_caVars PROVE AllocInv'
<1>1. CASE UNCHANGED rmVars
  BY <1>1 DEF rmVars, AllocInv, RMTypeOK, AllocationCoversHeld, HeldOn
<1>2. ASSUME NEW k \in TaskType, NEW i \in TaskId, Create(k, i) PROVE AllocInv'
  <2>1. PICK g \in Allocations(nodes, GivenBack(i), Workers, 1) :
          asking' = [task |-> i, grant |-> [x \in Node |-> g[x] * 1]]
    BY <1>2 DEF Create, Request
  <2>2. g \in [Node -> 0 .. Workers]
    BY DEF Allocations
  <2>3. [x \in Node |-> g[x] * 1] \in [Node -> Nat]
    BY <2>2, CAAssumption
  <2>4. asking' \in [task : TaskId \cup {NoTask}, grant : [Node -> Nat]] /\ asking'.task = i
    BY <2>1, <2>3
  <2>5. /\ node' = GivenBack(i) /\ held' = held \ {i} /\ recorded' = recorded \ {i}
        /\ granted' = [granted EXCEPT ![i] = Nothing]
        /\ UNCHANGED <<nodes, watching, events>>
    BY <1>2 DEF Create, Request
  <2> QED BY <2>4, <2>5, GivesBack
<1>3. ASSUME NEW k \in TaskType, Created(k) PROVE AllocInv'
  <2>1. Grant /\ asking.task \in TaskId
    BY <1>3 DEF Created, Looping, CAInv, TaskTypes, HoldersInv
  <2> QED BY <2>1, GrantAlloc
<1>4. ASSUME NEW i \in TaskId, Finish(i) PROVE AllocInv'
  <2>1. /\ node' = GivenBack(i) /\ held' = held \ {i} /\ recorded' = recorded \ {i}
        /\ granted' = [granted EXCEPT ![i] = Nothing]
        /\ UNCHANGED <<nodes, asking, watching, events>> /\ asking = NoRequest
    BY <1>4 DEF Finish, Release
  <2>2. asking \in [task : TaskId \cup {NoTask}, grant : [Node -> Nat]] /\ asking.task \notin held
    BY DEF AllocInv, RMTypeOK
  <2> QED BY <2>1, <2>2, GivesBack
<1>5. CASE Restart
  BY <1>5, RestoreAlloc DEF Restart
<1>6. CASE WatchNodes
  BY <1>6, WatchAlloc DEF WatchNodes
<1>7. CASE Stop
  BY <1>1, <1>7 DEF Stop, Becomes, rmVars
<1>8. ASSUME NEW i \in TaskId, TaskStep(i) \/ GiveUp(i), ~Finish(i) PROVE UNCHANGED rmVars
  <2>1. CASE SaveFiles(i)
    BY <2>1 DEF SaveFiles, Becomes, rmVars
  <2>2. CASE CallWorker(i)
    BY <2>2 DEF CallWorker, Becomes, Fails, rmVars
  <2>3. CASE WorkerCalled(i)
    BY <2>3 DEF WorkerCalled, Becomes, rmVars
  <2>4. CASE ReadStatus(i)
    BY <2>4 DEF ReadStatus, Becomes, Fails, rmVars
  <2>5. CASE Told(i)
    BY <2>5 DEF Told, Becomes, rmVars
  <2>6. CASE DeleteWorker(i)
    BY <2>6 DEF DeleteWorker, Becomes, rmVars
  <2>7. CASE GiveUp(i)
    BY <2>7 DEF GiveUp, Becomes, Fails, rmVars
  <2> QED BY <1>8, <2>1, <2>2, <2>3, <2>4, <2>5, <2>6, <2>7 DEF TaskStep
<1>9. ASSUME NEW i \in TaskId, NEW j \in Index, WorkerMoves(i, j) \/ Evict(i, j) \/ TimeUp(i, j)
      PROVE  UNCHANGED rmVars
  BY <1>9 DEF WorkerMoves, Evict, TimeUp
<1>10. CASE UNCHANGED caVars
  BY <1>1, <1>10 DEF caVars, rmVars
<1> QED BY <1>1, <1>2, <1>3, <1>4, <1>5, <1>6, <1>7, <1>8, <1>9, <1>10 DEF CANext

\* All that the tasks a node knows hold there is allocated on it, whatever the cluster,
\* restarts and the doubling in update() do; and where the nodes do not change, nothing
\* else is.
THEOREM AllocationCovers == CASpec => []AllocationCoversHeld
<1>1. AllocInv => AllocationCoversHeld
  BY DEF AllocInv
<1>2. CASafety => []AllocInv
  BY AllocInit, AllocStep, CAAlways, PTL DEF CASafety
<1> QED BY <1>1, <1>2, PTL DEF CASpec

-----------------------------------------------------------------------------
(* Storage: what the monitor follows.                                      *)

\* The paths of a task, and what the monitor knows of them.
At(w, finished, part) == [name |-> [task |-> w, finished |-> finished], node |-> part]
Knows(m, w, finished, part) == At(w, finished, part) \in DOMAIN m

\* What can be told of a task, in the order in which it can: the directory appears, a file
\* in it, the file grows; the directory is renamed, and the file with it; both go.
Kind == {"createdDir", "createdFile", "modifiedDir", "modifiedFile", "movedDir", "walk",
         "movedFile", "deletedFile", "modifiedLater", "deletedDir"}
Rank == [k \in Kind |->
  CASE k = "createdDir" -> 1 [] k = "createdFile" -> 2 [] k \in {"modifiedDir", "modifiedFile"} -> 3
    [] k = "movedDir" -> 4 [] k \in {"walk", "movedFile"} -> 5
    [] k = "deletedFile" -> 6 [] k = "modifiedLater" -> 7 [] k = "deletedDir" -> 8]
Of(k, w) ==
  CASE k = "createdDir" -> [type |-> "created", path |-> At(w, FALSE, "dir")]
    [] k = "createdFile" -> [type |-> "created", path |-> At(w, FALSE, "file")]
    [] k = "modifiedDir" -> [type |-> "modified", path |-> At(w, FALSE, "dir")]
    [] k = "modifiedFile" -> [type |-> "modified", path |-> At(w, FALSE, "file")]
    [] k = "movedDir" -> [type |-> "moved", path |-> At(w, TRUE, "dir")]
    [] k = "walk" -> [type |-> "walk", path |-> At(w, TRUE, "file")]
    [] k = "movedFile" -> [type |-> "moved", path |-> At(w, TRUE, "file")]
    [] k = "deletedFile" -> [type |-> "deleted", path |-> At(w, TRUE, "file")]
    [] k = "modifiedLater" -> [type |-> "modified", path |-> At(w, TRUE, "dir")]
    [] k = "deletedDir" -> [type |-> "deleted", path |-> At(w, TRUE, "dir")]
Tidings == {RootModified} \cup {Of(k, w) : k \in Kind, w \in Task}
InOrder(k1, k2) == Rank[k1] < Rank[k2] \/ (Rank[k1] = 3 /\ Rank[k2] = 3)
Sorted(es) ==
  \A i, j \in DOMAIN es : i < j =>
    \A w \in Task, k1, k2 \in Kind : es[i] = Of(k1, w) /\ es[j] = Of(k2, w) => InOrder(k1, k2)

\* What is still to be told of a task.
Waiting(es, w) == {k \in Kind : Of(k, w) \in Range(es)}

\* What the monitor knows of a task, by where the directory of the task is.
Unborn(k, m, w) ==
  k = {} /\ \A finished \in BOOLEAN, part \in {"dir", "file"} : ~Knows(m, w, finished, part)
Grows(d, k, m, w, miss) ==
  /\ \A x \in k : Rank[x] <= 3
  /\ ~Knows(m, w, TRUE, "dir") /\ ~Knows(m, w, TRUE, "file")
  /\ Knows(m, w, FALSE, "dir") <=> "createdDir" \notin k
  /\ Knows(m, w, FALSE, "dir") => m[At(w, FALSE, "dir")] = 1
  /\ \A x \in k : Rank[x] \in {2, 3} => d.size > 0
  /\ d.place = "running" \/ ~miss =>
       /\ Knows(m, w, FALSE, "file") <=> d.size > 0 /\ "createdFile" \notin k
       /\ Knows(m, w, FALSE, "file") /\ "modifiedFile" \notin k => m[At(w, FALSE, "file")] = d.size
FileMoves(k) == "walk" \in k \/ "movedFile" \in k
Moves(d, k, m, w) ==
  /\ \A x \in k : Rank[x] <= 5
  /\ \A x \in k : Rank[x] <= 3 => "movedDir" \in k
  /\ \A x \in k : Rank[x] \in {2, 3} => d.size > 0
  /\ "movedFile" \in k => d.size > 0
  /\ "movedDir" \in k /\ d.size > 0 => FileMoves(k)
  /\ Knows(m, w, FALSE, "dir") <=> "movedDir" \in k /\ "createdDir" \notin k
  /\ Knows(m, w, FALSE, "file") <=> d.size > 0 /\ FileMoves(k) /\ "createdFile" \notin k
  /\ Knows(m, w, TRUE, "dir") <=> "movedDir" \notin k
  /\ Knows(m, w, TRUE, "dir") => m[At(w, TRUE, "dir")] = 1
  /\ Knows(m, w, TRUE, "file") <=> d.size > 0 /\ ~FileMoves(k)
  /\ Knows(m, w, TRUE, "file") => m[At(w, TRUE, "file")] = d.size
Vanishes(k, m, w, race) ==
  /\ \A x \in k : Rank[x] >= 5
  /\ k # {} => "deletedDir" \in k
  /\ "walk" \in k => race
  /\ "movedFile" \in k => "deletedFile" \in k
  /\ ~Knows(m, w, FALSE, "dir")
  /\ Knows(m, w, TRUE, "dir") <=> "deletedDir" \in k
  /\ "deletedFile" \notin k => ~Knows(m, w, FALSE, "file") /\ ~Knows(m, w, TRUE, "file")
  /\ "deletedFile" \in k /\ FileMoves(k) => Knows(m, w, FALSE, "file") /\ ~Knows(m, w, TRUE, "file")
  /\ "deletedFile" \in k /\ ~FileMoves(k) =>
       \/ ~Knows(m, w, FALSE, "file") /\ Knows(m, w, TRUE, "file")
       \/ ~Knows(m, w, TRUE, "file") /\ race
Follows(d, k, m, w, race, miss) ==
  /\ d.place = "none" => Unborn(k, m, w)
  /\ d.place \in Running => Grows(d, k, m, w, miss)
  /\ d.place = "finished" => Moves(d, k, m, w)
  /\ d.place = "removed" => Vanishes(k, m, w, race)

\* The directories in the dictionary.
Names(m) == {p.name : p \in DOMAIN m}
IsOrder(o, ns) ==
  /\ o \in Seq(Name) /\ Range(o) = ns
  /\ \A i, j \in DOMAIN o : o[i] = o[j] => i = j

\* The known sizes of some of the paths, added up; and the paths of what was not removed.
Part(m, X) == SumFunctionOnSet(m, DOMAIN m \cap X)
Standing(dk) == {p \in Path : dk[p.name.task].place # "removed"}
EnoughCleared(m, dk) ==
  \/ \A p \in DOMAIN m : p.name.finished => dk[p.name.task].place = "removed"
  \/ Part(m, Standing(dk)) <= alarm_size

OnlyWalks(es) == \A e \in Range(es) : e.type = "walk"
FlagFits(flag, occupied, q) ==
  /\ flag => occupied <= quota
  /\ ~flag => occupied > alarm_size \/ q

SMTypes ==
  /\ disk \in [Task -> [place : Place, size : 0 .. MaxSize]]
  /\ \A w \in Task : disk[w].place \in {"none", "removed"} => disk[w].size = 0
  /\ pending \in Seq(Tidings)
  /\ phase \in {"initial", "started", "on", "dead"}
  /\ missed \in BOOLEAN /\ raced \in BOOLEAN /\ is_storage_sufficient \in BOOLEAN
  /\ quiet \in BOOLEAN
Metadatas(m) == DOMAIN m \subseteq Path /\ m \in [DOMAIN m -> Nat]

PhaseInv ==
  /\ phase # "on" => pending = <<>>
  /\ phase \in {"initial", "started"} => \A w \in Task : disk[w].place # "running"
  /\ phase = "initial" => \A w \in Task : disk[w].place # "removed"
  /\ phase \in {"initial", "started"} => quiet
  /\ phase = "dead" => raced
KnowsInv ==
  phase \in {"started", "on"} =>
    /\ Metadatas(metadatas)
    /\ IsOrder(order, Names(metadatas))
    /\ occupied_size = TotalSize(metadatas)
    /\ EnoughCleared(metadatas, disk)
    /\ OnlyWalks(pending) /\ ~missed => FlagFits(is_storage_sufficient, occupied_size, quiet)
    /\ \A w \in Task : Follows(disk[w], Waiting(pending, w), metadatas, w, raced, missed)
StorageInv == SMTypes /\ Sorted(pending) /\ PhaseInv /\ KnowsInv

-----------------------------------------------------------------------------
(* Storage: what is told, and in which order.                              *)

\* A nonempty set of numbers has a least one.
LEMMA Least ==
  ASSUME NEW T, T \subseteq Nat, T # {} PROVE \E n \in T : \A m \in T : n <= m
<1>1. PICK n \in T : \A m \in T : <<m, n>> \notin OpToRel(<, Nat)
  BY NatLessThanWellFounded, WFMin
<1>2. ASSUME NEW m \in T PROVE n <= m
  <2>1. <<m, n>> \notin OpToRel(<, Nat)
    BY <1>1
  <2>2. ~(m < n)
    BY <2>1 DEF OpToRel
  <2> QED BY <2>2
<1> QED BY <1>2

\* Paths and tidings tell their parts.
LEMMA AtParts ==
  ASSUME NEW w, NEW v, NEW f, NEW g, NEW a, NEW b
  PROVE  /\ At(w, f, a) = At(v, g, b) <=> w = v /\ f = g /\ a = b
         /\ At(w, f, a).name = [task |-> w, finished |-> f] /\ At(w, f, a).node = a
         /\ At(w, f, a).name.task = w /\ At(w, f, a).name.finished = f
BY DEF At

\* The paths of a task are paths.
LEMMA AtPath ==
  ASSUME NEW w \in Task, NEW f \in BOOLEAN, NEW a \in {"dir", "file"}
  PROVE  At(w, f, a) \in Path /\ [task |-> w, finished |-> f] \in Name
BY DEF At, Path, Name

\* And a path is one of them.
LEMMA PathAt ==
  ASSUME NEW p \in Path
  PROVE  /\ p = At(p.name.task, p.name.finished, p.node)
         /\ p.name.task \in Task /\ p.name.finished \in BOOLEAN /\ p.node \in {"dir", "file"}
         /\ p.name \in Name
BY DEF At, Path, Name

\* What the parts of a tiding say of its kind.
KindType == [k \in Kind |->
  CASE k \in {"createdDir", "createdFile"} -> "created"
    [] k \in {"modifiedDir", "modifiedFile", "modifiedLater"} -> "modified"
    [] k \in {"movedDir", "movedFile"} -> "moved"
    [] k = "walk" -> "walk"
    [] k \in {"deletedFile", "deletedDir"} -> "deleted"]
\* Is it of the directory by its new name?
KindFinished == [k \in Kind |->
  k \notin {"createdDir", "createdFile", "modifiedDir", "modifiedFile"}]

\* Of the directory, or of the file?
KindNode == [k \in Kind |->
  IF k \in {"createdFile", "modifiedFile", "walk", "movedFile", "deletedFile"}
  THEN "file" ELSE "dir"]

\* A tiding has the type and the path of its kind.
LEMMA OfParts ==
  ASSUME NEW k \in Kind, NEW w
  PROVE  /\ Of(k, w) = [type |-> KindType[k], path |-> At(w, KindFinished[k], KindNode[k])]
         /\ Of(k, w).type = KindType[k] /\ Of(k, w).path = At(w, KindFinished[k], KindNode[k])
         /\ Of(k, w) # RootModified
<1>1. Of(k, w) = [type |-> KindType[k], path |-> At(w, KindFinished[k], KindNode[k])]
  <2> DEFINE a(f, n) == At(w, f, n)
  <2> HIDE DEF a
  <2>1. Of(k, w) = CASE k = "createdDir" -> [type |-> "created", path |-> a(FALSE, "dir")]
    [] k = "createdFile" -> [type |-> "created", path |-> a(FALSE, "file")]
    [] k = "modifiedDir" -> [type |-> "modified", path |-> a(FALSE, "dir")]
    [] k = "modifiedFile" -> [type |-> "modified", path |-> a(FALSE, "file")]
    [] k = "movedDir" -> [type |-> "moved", path |-> a(TRUE, "dir")]
    [] k = "walk" -> [type |-> "walk", path |-> a(TRUE, "file")]
    [] k = "movedFile" -> [type |-> "moved", path |-> a(TRUE, "file")]
    [] k = "deletedFile" -> [type |-> "deleted", path |-> a(TRUE, "file")]
    [] k = "modifiedLater" -> [type |-> "modified", path |-> a(TRUE, "dir")]
    [] k = "deletedDir" -> [type |-> "deleted", path |-> a(TRUE, "dir")]
    BY DEF Of, a
  <2>2. Of(k, w) = [type |-> KindType[k], path |-> a(KindFinished[k], KindNode[k])]
    BY <2>1 DEF Kind, KindType, KindFinished, KindNode
  <2> QED BY <2>2 DEF a
<1>2. KindType[k] # "root"
  BY DEF KindType, Kind
<1> QED BY <1>1, <1>2 DEF RootModified

\* It tells its kind and its task.
LEMMA OfInjective ==
  ASSUME NEW k1 \in Kind, NEW k2 \in Kind, NEW w, NEW v, Of(k1, w) = Of(k2, v)
  PROVE  k1 = k2 /\ w = v
<1>1. /\ KindType[k1] = KindType[k2]
      /\ At(w, KindFinished[k1], KindNode[k1]) = At(v, KindFinished[k2], KindNode[k2])
  BY OfParts
<1>2. /\ w = v /\ KindFinished[k1] = KindFinished[k2] /\ KindNode[k1] = KindNode[k2]
  <2> DEFINE f == KindFinished[k1]
             g == KindFinished[k2]
             a == KindNode[k1]
             b == KindNode[k2]
  <2> HIDE DEF f, g, a, b
  <2>1. At(w, f, a) = At(v, g, b)
    BY <1>1 DEF f, g, a, b
  <2>2. w = v /\ f = g /\ a = b
    BY <2>1 DEF At
  <2> QED BY <2>2 DEF f, g, a, b
<1> QED BY <1>1, <1>2 DEF KindType, KindFinished, KindNode, Kind

\* The order in which the tidings of a task come.
LEMMA RankIs ==
  /\ Rank["createdDir"] = 1 /\ Rank["createdFile"] = 2 /\ Rank["modifiedDir"] = 3
  /\ Rank["modifiedFile"] = 3 /\ Rank["movedDir"] = 4 /\ Rank["walk"] = 5
  /\ Rank["movedFile"] = 5 /\ Rank["deletedFile"] = 6 /\ Rank["modifiedLater"] = 7
  /\ Rank["deletedDir"] = 8
BY DEF Rank, Kind

\* There are ten kinds of them.
LEMMA Kinds ==
  ASSUME NEW k \in Kind
  PROVE  \/ k = "createdDir" \/ k = "createdFile" \/ k = "modifiedDir" \/ k = "modifiedFile"
         \/ k = "movedDir" \/ k = "walk" \/ k = "movedFile" \/ k = "deletedFile"
         \/ k = "modifiedLater" \/ k = "deletedDir"
BY DEF Kind

\* Whatever is told is of the root or of a task.
LEMMA TidingIs ==
  ASSUME NEW e \in Tidings
  PROVE  e = RootModified \/ \E k \in Kind, w \in Task : e = Of(k, w)
BY DEF Tidings

-----------------------------------------------------------------------------
(* Sequences of tidings. *)

\* The members of a sequence, by their places.
LEMMA RangeIs ==
  ASSUME NEW S, NEW s \in Seq(S)
  PROVE  /\ Range(s) = {s[i] : i \in 1 .. Len(s)} /\ DOMAIN s = 1 .. Len(s) /\ Len(s) \in Nat
         /\ \A i \in 1 .. Len(s) : s[i] \in S
BY RangeEquality, LenProperties, ElementOfSeq

\* What RemoveAt leaves.
LEMMA RemoveAtIs ==
  ASSUME NEW S, NEW s \in Seq(S), NEW i \in 1 .. Len(s)
  PROVE  /\ RemoveAt(s, i) \in Seq(S) /\ Len(RemoveAt(s, i)) = Len(s) - 1
         /\ \A j \in 1 .. Len(s) - 1 : RemoveAt(s, i)[j] = IF j < i THEN s[j] ELSE s[j + 1]
<1> DEFINE a == SubSeq(s, 1, i - 1)
           b == SubSeq(s, i + 1, Len(s))
<1>1. Len(s) \in Nat /\ \A j \in 1 .. Len(s) : s[j] \in S
  BY RangeIs
<1>2. /\ a \in Seq(S) /\ Len(a) = i - 1 /\ \A j \in 1 .. i - 1 : a[j] = s[j]
  <2>1. \A j \in 1 .. i - 1 : s[j] \in S
    BY <1>1
  <2>2. /\ a \in Seq(S) /\ Len(a) = IF 1 <= i - 1 THEN i - 1 - 1 + 1 ELSE 0
        /\ \A j \in 1 .. i - 1 - 1 + 1 : a[j] = s[1 + j - 1]
    BY <1>1, <2>1, SubSeqProperties
  <2> HIDE DEF a
  <2> QED BY <1>1, <2>2
<1>3. /\ b \in Seq(S) /\ Len(b) = Len(s) - i /\ \A j \in 1 .. Len(s) - i : b[j] = s[i + j]
  <2>1. \A j \in i + 1 .. Len(s) : s[j] \in S
    BY <1>1
  <2>2. /\ b \in Seq(S) /\ Len(b) = IF i + 1 <= Len(s) THEN Len(s) - (i + 1) + 1 ELSE 0
        /\ \A j \in 1 .. Len(s) - (i + 1) + 1 : b[j] = s[(i + 1) + j - 1]
    BY <1>1, <2>1, SubSeqProperties
  <2> HIDE DEF b
  <2>3. \A j \in 1 .. Len(s) - i : j \in 1 .. Len(s) - (i + 1) + 1 /\ (i + 1) + j - 1 = i + j
    BY <1>1
  <2> QED BY <1>1, <2>2, <2>3
<1>4. RemoveAt(s, i) = a \o b
  BY DEF RemoveAt
<1>5. /\ a \o b \in Seq(S) /\ Len(a \o b) = Len(a) + Len(b)
      /\ \A j \in 1 .. Len(a) + Len(b) : (a \o b)[j] = IF j <= Len(a) THEN a[j] ELSE b[j - Len(a)]
  <2> HIDE DEF a, b
  <2> QED BY <1>2, <1>3, ConcatProperties
<1>6. ASSUME NEW j \in 1 .. Len(s) - 1
      PROVE  (a \o b)[j] = IF j < i THEN s[j] ELSE s[j + 1]
  <2> HIDE DEF a, b
  <2>1. CASE j < i
    <3>1. j \in 1 .. Len(a) + Len(b) /\ j <= Len(a) /\ j \in 1 .. i - 1
      BY <1>1, <1>2, <1>3, <2>1
    <3> QED BY <1>2, <1>5, <2>1, <3>1
  <2>2. CASE ~(j < i)
    <3>1. j \in 1 .. Len(a) + Len(b) /\ ~(j <= Len(a)) /\ j - Len(a) \in 1 .. Len(s) - i
          /\ i + (j - Len(a)) = j + 1
      BY <1>1, <1>2, <1>3, <2>2
    <3>2. b[j - Len(a)] = s[i + (j - Len(a))]
      BY <1>3, <3>1
    <3> QED BY <1>5, <2>2, <3>1, <3>2
  <2> QED BY <2>1, <2>2
<1> HIDE DEF a, b
<1> QED BY <1>1, <1>2, <1>3, <1>4, <1>5, <1>6

\* One element is taken out of a sequence.
TakenOut(s, i, t) ==
  Len(t) = Len(s) - 1 /\ \A j \in 1 .. Len(s) - 1 : t[j] = IF j < i THEN s[j] ELSE s[j + 1]

\* What is left when one is taken out of a sequence.
LEMMA TakenOutRange ==
  ASSUME NEW S, NEW s \in Seq(S), NEW t \in Seq(S), NEW i \in 1 .. Len(s), TakenOut(s, i, t)
  PROVE  /\ Range(s) = Range(t) \cup {s[i]}
         /\ \A x : (\A j \in 1 .. Len(s) : s[j] = x => j = i) => x \notin Range(t)
<1>1. /\ Range(s) = {s[j] : j \in 1 .. Len(s)} /\ Len(s) \in Nat
      /\ Range(t) = {t[j] : j \in 1 .. Len(s) - 1}
  BY RangeIs DEF TakenOut
<1>2. ASSUME NEW j \in 1 .. Len(s), j # i PROVE s[j] \in Range(t)
  <2>1. CASE j < i
    <3>1. j \in 1 .. Len(s) - 1
      BY <1>1, <2>1
    <3>2. t[j] = s[j]
      BY <2>1, <3>1 DEF TakenOut
    <3> QED BY <1>1, <3>1, <3>2
  <2>2. CASE j > i
    <3>1. j - 1 \in 1 .. Len(s) - 1 /\ ~(j - 1 < i) /\ (j - 1) + 1 = j
      BY <1>1, <2>2
    <3>2. t[j - 1] = s[j]
      BY <3>1 DEF TakenOut
    <3> QED BY <1>1, <3>1, <3>2
  <2> QED BY <1>1, <1>2, <2>1, <2>2
<1>3. ASSUME NEW j \in 1 .. Len(s) - 1 PROVE \E h \in 1 .. Len(s) : h # i /\ t[j] = s[h]
  <2>1. j \in 1 .. Len(s) /\ j + 1 \in 1 .. Len(s)
    BY <1>1
  <2>2. t[j] = IF j < i THEN s[j] ELSE s[j + 1]
    BY <1>3 DEF TakenOut
  <2> QED BY <1>1, <2>1, <2>2
<1> QED BY <1>1, <1>2, <1>3

\* The order is left, too.
LEMMA TakenOutSorted ==
  ASSUME NEW s \in Seq(Tidings), NEW t \in Seq(Tidings), NEW i \in 1 .. Len(s),
         TakenOut(s, i, t), Sorted(s)
  PROVE  Sorted(t)
<1>1. Len(s) \in Nat /\ DOMAIN s = 1 .. Len(s) /\ DOMAIN t = 1 .. Len(s) - 1
  BY RangeIs DEF TakenOut
<1> DEFINE at(j) == IF j < i THEN j ELSE j + 1
<1>2. ASSUME NEW j \in DOMAIN t PROVE at(j) \in DOMAIN s /\ t[j] = s[at(j)]
  BY <1>1, <1>2 DEF TakenOut
<1>3. ASSUME NEW j \in DOMAIN t, NEW h \in DOMAIN t, j < h PROVE at(j) < at(h)
  BY <1>1, <1>3
<1> HIDE DEF at
<1>4. ASSUME NEW j \in DOMAIN t, NEW h \in DOMAIN t, j < h, NEW w \in Task, NEW k1 \in Kind,
             NEW k2 \in Kind, t[j] = Of(k1, w), t[h] = Of(k2, w)
      PROVE  InOrder(k1, k2)
  BY <1>2, <1>3, <1>4 DEF Sorted
<1> QED BY <1>4 DEF Sorted

\* The first of what is waiting is taken out.
LEMMA HeadOut ==
  ASSUME NEW s \in Seq(Tidings), s # <<>>
  PROVE  /\ Tail(s) \in Seq(Tidings) /\ Head(s) \in Tidings /\ Head(s) = s[1]
         /\ TakenOut(s, 1, Tail(s)) /\ 1 \in 1 .. Len(s)
<1>1. Len(s) \in Nat \ {0}
  BY EmptySeq
<1>2. /\ Head(s) \in Tidings /\ Tail(s) \in Seq(Tidings) /\ Len(Tail(s)) = Len(s) - 1
      /\ \A j \in 1 .. Len(Tail(s)) : Tail(s)[j] = s[j + 1]
  BY HeadTailProperties
<1>3. Head(s) = s[1]
  OBVIOUS
<1> QED BY <1>1, <1>2, <1>3 DEF TakenOut

\* Ranks are numbers.
LEMMA RankNat == \A k \in Kind : Rank[k] \in 1 .. 8
BY RankIs, Kinds

\* What becomes of what is waiting when one is taken out of it.
LEMMA OneOut ==
  ASSUME NEW s \in Seq(Tidings), NEW t \in Seq(Tidings), NEW i \in 1 .. Len(s),
         TakenOut(s, i, t), Sorted(s), NEW k \in Kind, NEW w \in Task, s[i] = Of(k, w)
  PROVE  /\ k \in Waiting(s, w)
         /\ Waiting(t, w) \subseteq Waiting(s, w)
         /\ Waiting(s, w) \ {k} \subseteq Waiting(t, w)
         /\ k \in Waiting(t, w) => Rank[k] = 3
         /\ \A v \in Task : v # w => Waiting(t, v) = Waiting(s, v)
<1>1. Range(s) = Range(t) \cup {s[i]} /\ DOMAIN s = 1 .. Len(s) /\ Len(s) \in Nat
  BY TakenOutRange, RangeIs
<1>2. ASSUME NEW v \in Task, NEW x \in Kind
      PROVE  Of(x, v) \in Range(s) <=> Of(x, v) \in Range(t) \/ (x = k /\ v = w)
  BY <1>1, OfInjective
<1>3. ASSUME k \in Waiting(t, w) PROVE Rank[k] = 3
  <2>1. PICK j \in 1 .. Len(s) : s[j] = s[i] /\ j # i
    <3>1. s[i] \in Range(t)
      BY <1>3 DEF Waiting
    <3> QED BY <3>1, TakenOutRange
  <2>2. j < i \/ i < j
    BY <1>1, <2>1
  <2>3. InOrder(k, k)
    BY <1>1, <2>1, <2>2 DEF Sorted
  <2> QED BY <2>3, RankNat DEF InOrder
<1> QED BY <1>1, <1>2, <1>3 DEF Waiting

\* And what is in the front comes first.
LEMMA FrontFirst ==
  ASSUME NEW s \in Seq(Tidings), s # <<>>, Sorted(s), NEW k \in Kind, NEW w \in Task,
         Head(s) = Of(k, w), NEW x \in Waiting(s, w)
  PROVE  x = k \/ InOrder(k, x)
<1>1. /\ Head(s) = s[1] /\ DOMAIN s = 1 .. Len(s) /\ Len(s) \in Nat /\ 1 \in 1 .. Len(s)
      /\ Range(s) = {s[i] : i \in 1 .. Len(s)}
  BY HeadOut, RangeIs
<1>2. PICK j \in 1 .. Len(s) : s[j] = Of(x, w)
  BY <1>1 DEF Waiting
<1>3. CASE j = 1
  BY <1>1, <1>2, <1>3, OfInjective DEF Waiting
<1>4. CASE j # 1
  <2>1. 1 < j
    BY <1>1, <1>4
  <2> QED BY <1>1, <1>2, <2>1 DEF Sorted, Waiting
<1> QED BY <1>3, <1>4

\* More is told.
LEMMA MoreTold ==
  ASSUME NEW s \in Seq(Tidings), NEW t \in Seq(Tidings), Sorted(s), Sorted(t),
         \A w \in Task : \A k1 \in Waiting(s, w), k2 \in Waiting(t, w) : InOrder(k1, k2)
  PROVE  /\ s \o t \in Seq(Tidings) /\ Sorted(s \o t)
         /\ Range(s \o t) = Range(s) \cup Range(t)
         /\ \A w : Waiting(s \o t, w) = Waiting(s, w) \cup Waiting(t, w)
<1>1. /\ s \o t \in Seq(Tidings) /\ Len(s \o t) = Len(s) + Len(t)
      /\ \A i \in 1 .. Len(s) + Len(t) : (s \o t)[i] = IF i <= Len(s) THEN s[i] ELSE t[i - Len(s)]
  BY ConcatProperties
<1>2. Range(s \o t) = Range(s) \cup Range(t)
  BY RangeConcatenation
<1>3. /\ Len(s) \in Nat /\ DOMAIN s = 1 .. Len(s) /\ Range(s) = {s[i] : i \in 1 .. Len(s)}
      /\ Len(t) \in Nat /\ DOMAIN t = 1 .. Len(t) /\ Range(t) = {t[i] : i \in 1 .. Len(t)}
      /\ DOMAIN (s \o t) = 1 .. Len(s) + Len(t)
  BY <1>1, RangeIs
<1>4. ASSUME NEW i \in DOMAIN (s \o t), NEW j \in DOMAIN (s \o t), i < j,
             NEW w \in Task, NEW k1 \in Kind, NEW k2 \in Kind,
             (s \o t)[i] = Of(k1, w), (s \o t)[j] = Of(k2, w)
      PROVE  InOrder(k1, k2)
  <2>1. CASE j <= Len(s)
    <3>1. i \in DOMAIN s /\ j \in DOMAIN s /\ s[i] = Of(k1, w) /\ s[j] = Of(k2, w)
      BY <1>1, <1>3, <1>4, <2>1
    <3> QED BY <1>4, <3>1 DEF Sorted
  <2>2. CASE i <= Len(s) /\ ~(j <= Len(s))
    <3>1. s[i] = Of(k1, w) /\ i \in DOMAIN s /\ t[j - Len(s)] = Of(k2, w) /\ j - Len(s) \in DOMAIN t
      BY <1>1, <1>3, <1>4, <2>2
    <3>2. k1 \in Waiting(s, w) /\ k2 \in Waiting(t, w)
      BY <1>3, <3>1 DEF Waiting
    <3> QED BY <3>2
  <2>3. CASE ~(i <= Len(s))
    <3>1. /\ t[i - Len(s)] = Of(k1, w) /\ i - Len(s) \in DOMAIN t
          /\ t[j - Len(s)] = Of(k2, w) /\ j - Len(s) \in DOMAIN t /\ i - Len(s) < j - Len(s)
      BY <1>1, <1>3, <1>4, <2>3
    <3> QED BY <3>1 DEF Sorted
  <2> QED BY <1>3, <1>4, <2>1, <2>2, <2>3
<1>5. Sorted(s \o t)
  BY <1>4 DEF Sorted
<1>6. \A w : Waiting(s \o t, w) = Waiting(s, w) \cup Waiting(t, w)
  BY <1>2 DEF Waiting
<1> QED BY <1>1, <1>2, <1>5, <1>6

\* A look of watchdog into a directory becomes the news that a file was renamed.
LEMMA MovedRecord ==
  ASSUME NEW p, NEW r, r = [type |-> "walk", path |-> p]
  PROVE  [r EXCEPT !.type = "moved"] = [type |-> "moved", path |-> p]
<1>1. ASSUME NEW T, p \in T, NEW a \in [type : {"walk", "moved"}, path : T], a.path = p
      PROVE  [a EXCEPT !.type = "moved"] = [type |-> "moved", path |-> p]
  BY <1>1
<1> DEFINE T == {p}
<1>2. p \in T /\ r \in [type : {"walk", "moved"}, path : T] /\ r.path = p
  OBVIOUS
<1> HIDE DEF T
<1> QED BY <1>1, <1>2

\* Watchdog has looked: what it found takes the place of the look.
LEMMA WalkFinds ==
  ASSUME NEW s \in Seq(Tidings), Sorted(s), NEW i \in 1 .. Len(s), NEW w \in Task,
         s[i] = Of("walk", w), NEW t \in Seq(Tidings), Len(t) = Len(s),
         \A j \in 1 .. Len(s) : t[j] = IF j = i THEN Of("movedFile", w) ELSE s[j]
  PROVE  /\ Sorted(t)
         /\ Waiting(t, w) = (Waiting(s, w) \ {"walk"}) \cup {"movedFile"}
         /\ \A v \in Task : v # w => Waiting(t, v) = Waiting(s, v)
         /\ ~OnlyWalks(t)
<1> DEFINE e == Of("movedFile", w)
<1>1. Len(s) \in Nat /\ DOMAIN s = 1 .. Len(s) /\ Range(s) = {s[j] : j \in 1 .. Len(s)}
  BY RangeIs
<1>2. "walk" \in Kind /\ "movedFile" \in Kind /\ Rank["walk"] = 5 /\ Rank["movedFile"] = 5
  BY RankIs DEF Kind
<1>3. e.type = "moved"
  BY DEF Of
<1> HIDE DEF e
<1>6. Len(t) = Len(s) /\ \A j \in 1 .. Len(s) : t[j] = IF j = i THEN e ELSE s[j]
  BY DEF e
<1>7. DOMAIN t = 1 .. Len(s) /\ Range(t) = {t[j] : j \in 1 .. Len(s)}
  <2>1. DOMAIN t = 1 .. Len(t)
    BY <1>6, LenProperties
  <2> QED BY <1>6, <2>1 DEF Range
<1>8. ASSUME NEW j \in 1 .. Len(s), NEW v \in Task, NEW k \in Kind, t[j] = Of(k, v)
      PROVE  \E x \in Kind :
               s[j] = Of(x, v) /\ Rank[x] = Rank[k]
               /\ (x = k \/ (j = i /\ v = w /\ k = "movedFile"))
  <2>1. CASE j = i
    <3>1. k = "movedFile" /\ v = w
      BY <1>2, <1>6, <1>8, <2>1, OfInjective DEF e
    <3> QED BY <1>2, <2>1, <3>1
  <2>2. CASE j # i
    BY <1>6, <1>8, <2>2
  <2> QED BY <2>1, <2>2
<1>9. Sorted(t)
  <2>1. ASSUME NEW j \in 1 .. Len(s), NEW h \in 1 .. Len(s), j < h, NEW v \in Task,
               NEW k1 \in Kind, NEW k2 \in Kind, t[j] = Of(k1, v), t[h] = Of(k2, v)
        PROVE  InOrder(k1, k2)
    <3>1. PICK x1 \in Kind : s[j] = Of(x1, v) /\ Rank[x1] = Rank[k1]
      BY <1>8, <2>1
    <3>2. PICK x2 \in Kind : s[h] = Of(x2, v) /\ Rank[x2] = Rank[k2]
      BY <1>8, <2>1
    <3>3. InOrder(x1, x2)
      BY <1>1, <2>1, <3>1, <3>2 DEF Sorted
    <3> QED BY <3>1, <3>2, <3>3 DEF InOrder
  <2> QED BY <1>7, <2>1 DEF Sorted
<1>10. ASSUME NEW v \in Task, NEW k \in Kind
       PROVE  Of(k, v) \in Range(t) <=>
                (Of(k, v) \in Range(s) /\ ~(v = w /\ k = "walk")) \/ (v = w /\ k = "movedFile")
  <2>1. ASSUME Of(k, v) \in Range(t)
        PROVE  (Of(k, v) \in Range(s) /\ ~(v = w /\ k = "walk")) \/ (v = w /\ k = "movedFile")
    <3>1. PICK j \in 1 .. Len(s) : t[j] = Of(k, v)
      BY <1>7, <2>1
    <3>2. CASE j = i
      BY <1>2, <1>6, <3>1, <3>2, OfInjective DEF e
    <3>3. CASE j # i
      <4>1. s[j] = Of(k, v)
        BY <1>6, <3>1, <3>3
      <4>2. ASSUME v = w, k = "walk" PROVE FALSE
        <5>1. InOrder("walk", "walk")
          <6>1. j < i \/ i < j
            BY <1>1, <3>3
          <6> QED BY <1>1, <1>2, <4>1, <4>2, <6>1 DEF Sorted
        <5> QED BY <1>2, <5>1 DEF InOrder
      <4> QED BY <1>1, <4>1, <4>2
    <3> QED BY <3>2, <3>3
  <2>2. ASSUME Of(k, v) \in Range(s), ~(v = w /\ k = "walk") PROVE Of(k, v) \in Range(t)
    <3>1. PICK j \in 1 .. Len(s) : s[j] = Of(k, v)
      BY <1>1, <2>2
    <3>2. j # i
      BY <1>2, <2>2, <3>1, OfInjective
    <3> QED BY <1>6, <1>7, <3>1, <3>2
  <2>3. Of("movedFile", w) \in Range(t)
    BY <1>6, <1>7 DEF e
  <2> QED BY <2>1, <2>2, <2>3
<1>11. /\ Waiting(t, w) = (Waiting(s, w) \ {"walk"}) \cup {"movedFile"}
       /\ \A v \in Task : v # w => Waiting(t, v) = Waiting(s, v)
  BY <1>2, <1>10 DEF Waiting
<1>12. ~OnlyWalks(t)
  <2>1. e \in Range(t)
    BY <1>6, <1>7
  <2> QED BY <1>3, <2>1 DEF OnlyWalks, e
<1> QED BY <1>6, <1>9, <1>11, <1>12

\* A few tidings.
LEMMA OneTold ==
  ASSUME NEW e \in Tidings
  PROVE  <<e>> \in Seq(Tidings) /\ Sorted(<<e>>) /\ Range(<<e>>) = {e}
BY DEF Sorted, Range

\* One tiding may come before another.
Ordered(d, e) == \A w \in Task, k1, k2 \in Kind : d = Of(k1, w) /\ e = Of(k2, w) => InOrder(k1, k2)

\* Two tidings that come in their order, one after the other.
LEMMA TwoTold ==
  ASSUME NEW d \in Tidings, NEW e \in Tidings, Ordered(d, e)
  PROVE  <<d, e>> \in Seq(Tidings) /\ Sorted(<<d, e>>) /\ Range(<<d, e>>) = {d, e}
<1> DEFINE s == <<d, e>>
<1>1. s \in Seq(Tidings) /\ DOMAIN s = {1, 2} /\ s[1] = d /\ s[2] = e
  OBVIOUS
<1> HIDE DEF s
<1>2. Range(s) = {d, e}
  BY <1>1 DEF Range
<1>3. Sorted(s)
  BY <1>1 DEF Sorted, Ordered
<1> QED BY <1>1, <1>2, <1>3 DEF s

\* And three.
LEMMA ThreeTold ==
  ASSUME NEW c \in Tidings, NEW d \in Tidings, NEW e \in Tidings, Ordered(c, d), Ordered(d, e),
         Ordered(c, e)
  PROVE  <<c, d, e>> \in Seq(Tidings) /\ Sorted(<<c, d, e>>) /\ Range(<<c, d, e>>) = {c, d, e}
<1> DEFINE s == <<c, d, e>>
<1>1. s \in Seq(Tidings) /\ DOMAIN s = {1, 2, 3} /\ s[1] = c /\ s[2] = d /\ s[3] = e
  OBVIOUS
<1> HIDE DEF s
<1>2. Range(s) = {c, d, e}
  BY <1>1 DEF Range
<1>3. Sorted(s)
  BY <1>1 DEF Sorted, Ordered
<1> QED BY <1>1, <1>2, <1>3 DEF s

\* Two tidings of a task come in the order of their kinds; the root comes anywhere.
LEMMA OrderedKinds ==
  ASSUME NEW k1 \in Kind, NEW k2 \in Kind, InOrder(k1, k2), NEW w, NEW e
  PROVE  /\ Ordered(Of(k1, w), Of(k2, w))
         /\ Ordered(RootModified, e) /\ Ordered(e, RootModified)
BY OfInjective, OfParts DEF Ordered

\* What is waiting of each task when all that is told is of one of them.
LEMMA WaitingOf ==
  ASSUME NEW s, NEW w, NEW v, NEW ks \in SUBSET Kind,
         Range(s) \ {RootModified} = {Of(k, w) : k \in ks}
  PROVE  Waiting(s, v) = IF v = w THEN ks ELSE {}
<1>1. ASSUME NEW k \in Kind PROVE Of(k, v) \in Range(s) <=> v = w /\ k \in ks
  BY OfInjective, OfParts
<1> QED BY <1>1 DEF Waiting

\* When nothing is told, nothing is waiting.
LEMMA NothingTold ==
  <<>> \in Seq(Tidings) /\ Sorted(<<>>) /\ Range(<<>>) = {} /\ OnlyWalks(<<>>)
  /\ \A w : Waiting(<<>>, w) = {}
BY DEF Sorted, Range, Waiting, OnlyWalks

-----------------------------------------------------------------------------
(* The deletions. *)

\* What is told when the directory of a task is removed.
DeletedKinds(w) ==
  IF HasFile(w) THEN {"deletedFile", "modifiedLater", "deletedDir"} ELSE {"deletedDir"}

\* What watchdog tells of the removal of the directory of a finished task, if it is
\* there.
LEMMA DeletionsTold ==
  ASSUME NEW n \in Name, n.finished
  PROVE  /\ Deletions(n) \in Seq(Tidings) /\ Sorted(Deletions(n))
         /\ \A v : Waiting(Deletions(n), v) = IF Exists(n) /\ v = n.task
              THEN DeletedKinds(v) ELSE {}
<1> DEFINE w == n.task
           a == Of("deletedFile", w)
           b == Of("modifiedLater", w)
           c == Of("deletedDir", w)
<1>1. w \in Task /\ n = [task |-> w, finished |-> TRUE]
  BY DEF Name
<1>2. /\ Event("deleted", n, "file") = a /\ Event("modified", n, "dir") = b
      /\ Event("deleted", n, "dir") = c
  BY <1>1 DEF Event, Of, At
<1>3. "deletedFile" \in Kind /\ "modifiedLater" \in Kind /\ "deletedDir" \in Kind
  BY DEF Kind
<1>4. InOrder("deletedFile", "modifiedLater") /\ InOrder("modifiedLater", "deletedDir")
      /\ InOrder("deletedFile", "deletedDir")
  BY RankIs DEF InOrder
<1>5. a \in Tidings /\ b \in Tidings /\ c \in Tidings /\ RootModified \in Tidings
  BY <1>1, <1>3 DEF Tidings
<1>6. /\ Ordered(a, b) /\ Ordered(c, RootModified)
  BY <1>3, <1>4, OrderedKinds
<1>7. a # RootModified /\ b # RootModified /\ c # RootModified
  BY <1>3, OfParts
<1> HIDE DEF a, b, c, w
<1> DEFINE ab == <<a, b>>
           cr == <<c, RootModified>>
<1>8. ab \in Seq(Tidings) /\ Sorted(ab) /\ Range(ab) = {a, b}
  BY <1>5, <1>6, TwoTold
<1>9. cr \in Seq(Tidings) /\ Sorted(cr) /\ Range(cr) = {c, RootModified}
  BY <1>5, <1>6, TwoTold
<1> HIDE DEF ab, cr
<1>10. ASSUME NEW v
       PROVE  /\ Waiting(ab, v) = IF v = w THEN {"deletedFile", "modifiedLater"} ELSE {}
              /\ Waiting(cr, v) = IF v = w THEN {"deletedDir"} ELSE {}
  <2>1. Range(ab) \ {RootModified} = {Of(k, w) : k \in {"deletedFile", "modifiedLater"}}
    BY <1>7, <1>8 DEF a, b
  <2>2. Range(cr) \ {RootModified} = {Of(k, w) : k \in {"deletedDir"}}
    BY <1>7, <1>9 DEF c
  <2>3. {"deletedFile", "modifiedLater"} \in SUBSET Kind /\ {"deletedDir"} \in SUBSET Kind
    BY <1>3
  <2>4. Waiting(ab, v) = IF v = w THEN {"deletedFile", "modifiedLater"} ELSE {}
    BY <2>1, <2>3, WaitingOf
  <2>5. Waiting(cr, v) = IF v = w THEN {"deletedDir"} ELSE {}
    BY <2>2, <2>3, WaitingOf
  <2> QED BY <2>4, <2>5
<1>11. /\ ab \o cr \in Seq(Tidings) /\ Sorted(ab \o cr)
       /\ \A v : Waiting(ab \o cr, v) = Waiting(ab, v) \cup Waiting(cr, v)
  <2>1. ASSUME NEW v \in Task, NEW k1 \in Waiting(ab, v), NEW k2 \in Waiting(cr, v)
        PROVE  InOrder(k1, k2)
    BY <1>4, <1>10, <2>1
  <2> QED BY <1>8, <1>9, <2>1, MoreTold
<1>12. <<>> \o cr = cr
  BY <1>9, ConcatEmptySeq
<1>13. Deletions(n) = IF ~Exists(n) THEN <<>> ELSE IF HasFile(w) THEN ab \o cr ELSE cr
  BY <1>2, <1>12 DEF Deletions, ab, cr, w
<1>14. CASE ~Exists(n)
  BY <1>13, <1>14, NothingTold
<1>15. CASE Exists(n) /\ HasFile(w)
  <2>1. ASSUME NEW v PROVE Waiting(Deletions(n), v) = IF v = w THEN DeletedKinds(v) ELSE {}
    BY <1>10, <1>11, <1>13, <1>15 DEF DeletedKinds
  <2> QED BY <1>11, <1>13, <1>15, <2>1 DEF w
<1>16. CASE Exists(n) /\ ~HasFile(w)
  <2>1. ASSUME NEW v PROVE Waiting(Deletions(n), v) = IF v = w THEN DeletedKinds(v) ELSE {}
    BY <1>10, <1>13, <1>16 DEF DeletedKinds
  <2> QED BY <1>9, <1>13, <1>16, <2>1 DEF w
<1> QED BY <1>14, <1>15, <1>16

\* The definition of FlattenSeq is recursive: that there is a function as it says.
Flattens(q, n, g) == g = [i \in 1 .. n |-> IF i = 1 THEN q[i] ELSE g[i - 1] \o q[i]]

\* FlattenSeq is defined by a function that is chosen; there is one.
LEMMA FlattenerExists ==
  ASSUME NEW q, NEW n \in Nat PROVE \E g : Flattens(q, n, g)
<1> DEFINE Bad == {j \in Nat : ~\E g : Flattens(q, j, g)}
<1> SUFFICES ASSUME Bad # {} PROVE FALSE
  OBVIOUS
<1>1. PICK m \in Bad : \A j \in Bad : m <= j
  <2> HIDE DEF Bad
  <2>1. Bad \subseteq Nat
    BY DEF Bad
  <2> QED BY <2>1, Least
<1>2. m # 0
  <2>1. ASSUME m = 0 PROVE FALSE
    <3> DEFINE g == [i \in 1 .. 0 |-> 0]
    <3>1. g = [i \in 1 .. 0 |-> IF i = 1 THEN q[i] ELSE g[i - 1] \o q[i]]
      OBVIOUS
    <3> HIDE DEF g
    <3>2. Flattens(q, 0, g)
      BY <3>1 DEF Flattens
    <3> QED BY <2>1, <3>2
  <2> QED BY <2>1
<1>3. m - 1 \in Nat /\ m - 1 \notin Bad
  BY <1>1, <1>2
<1>4. PICK h : Flattens(q, m - 1, h)
  BY <1>3
<1> DEFINE g == [i \in 1 .. m |-> IF i = 1 THEN q[i] ELSE h[i - 1] \o q[i]]
<1>5. ASSUME NEW i \in 1 .. m - 1 PROVE g[i] = h[i]
  <2>1. h[i] = IF i = 1 THEN q[i] ELSE h[i - 1] \o q[i]
    BY <1>4 DEF Flattens
  <2> QED BY <1>3, <2>1
<1>6. ASSUME NEW i \in 1 .. m, i # 1 PROVE g[i - 1] = h[i - 1]
  <2>1. i - 1 \in 1 .. m - 1
    BY <1>3, <1>6
  <2> QED BY <1>5, <2>1
<1>7. g = [i \in 1 .. m |-> IF i = 1 THEN q[i] ELSE g[i - 1] \o q[i]]
  BY <1>6
<1>8. Flattens(q, m, g)
  <2> HIDE DEF g
  <2> QED BY <1>7 DEF Flattens
<1> HIDE DEF g
<1> QED BY <1>8

\* The one that is chosen.
Flattener(q) == CHOOSE g : Flattens(q, Len(q), g)

\* So FlattenSeq gives what such a function gives.
LEMMA FlattenIs ==
  ASSUME NEW q, Len(q) \in Nat \ {0}
  PROVE  Flattens(q, Len(q), Flattener(q)) /\ FlattenSeq(q) = Flattener(q)[Len(q)]
<1>1. Flattens(q, Len(q), Flattener(q))
  BY FlattenerExists DEF Flattener
<1>2. FlattenSeq(q) = Flattener(q)[Len(q)]
  BY DEF FlattenSeq, Flattener, Flattens
<1> QED BY <1>1, <1>2

\* What is told when directories of finished tasks are removed.
LEMMA DeletionsInOrderTold ==
  ASSUME NEW o \in Seq(Name), \A i, j \in DOMAIN o : o[i] = o[j] => i = j,
         NEW ns, \A n \in ns : n.finished
  PROVE  /\ DeletionsInOrder(o, ns) \in Seq(Tidings) /\ Sorted(DeletionsInOrder(o, ns))
         /\ \A v : Waiting(DeletionsInOrder(o, ns), v) =
                IF \E n \in ns \cap Range(o) : Exists(n) /\ v = n.task THEN DeletedKinds(v) ELSE {}
<1> DEFINE q == [i \in DOMAIN o |-> IF o[i] \in ns THEN Deletions(o[i]) ELSE <<>>]
           N == Len(o)
           Hit(j, v) == \E i \in 1 .. j : o[i] \in ns /\ Exists(o[i]) /\ v = o[i].task
           Good(j, s) == /\ s \in Seq(Tidings) /\ Sorted(s)
                         /\ \A v : Waiting(s, v) = IF Hit(j, v) THEN DeletedKinds(v) ELSE {}
<1>1. /\ N \in Nat /\ DOMAIN o = 1 .. N /\ Range(o) = {o[i] : i \in 1 .. N}
      /\ \A i \in 1 .. N : o[i] \in Name
  BY RangeIs
<1>2. DeletionsInOrder(o, ns) = FlattenSeq(q)
  BY DEF DeletionsInOrder
<1>3. ASSUME NEW i \in 1 .. N
      PROVE  /\ q[i] \in Seq(Tidings) /\ Sorted(q[i])
             /\ \A v : Waiting(q[i], v) =
                    IF o[i] \in ns /\ Exists(o[i]) /\ v = o[i].task THEN DeletedKinds(v) ELSE {}
  <2>1. CASE o[i] \in ns
    <3>1. o[i] \in Name /\ o[i].finished /\ q[i] = Deletions(o[i])
      BY <1>1, <2>1
    <3> HIDE DEF q
    <3> QED BY <2>1, <3>1, DeletionsTold
  <2>2. CASE o[i] \notin ns
    <3>1. q[i] = <<>>
      BY <1>1, <2>2
    <3> HIDE DEF q
    <3> QED BY <2>2, <3>1, NothingTold
  <2> QED BY <2>1, <2>2
<1>4. Len(q) = N /\ (N = 0 => q = <<>>)
  <2>1. q \in [1 .. N -> Seq(Tidings)] /\ DOMAIN q = 1 .. N
    <3>1. DOMAIN q = 1 .. N
      BY <1>1
    <3>2. q = [i \in 1 .. N |-> q[i]]
      BY <1>1
    <3> HIDE DEF q
    <3> QED BY <1>3, <3>1, <3>2
  <2> HIDE DEF q
  <2>2. q \in Seq(Seq(Tidings))
    BY <1>1, <2>1, SeqDef
  <2>3. Len(q) \in Nat /\ DOMAIN q = 1 .. Len(q)
    BY <2>2, LenProperties
  <2>4. Len(q) = N
    BY <1>1, <2>1, <2>3
  <2> QED BY <2>2, <2>4
<1> HIDE DEF q
<1>5. CASE N = 0
  <2>1. DeletionsInOrder(o, ns) = <<>>
    BY <1>2, <1>4, <1>5 DEF FlattenSeq
  <2>2. Range(o) = {}
    BY <1>1, <1>5
  <2> QED BY <2>1, <2>2, NothingTold
<1>6. CASE N # 0
  <2> DEFINE g == Flattener(q)
  <2>1. /\ \A i \in 1 .. N : g[i] = IF i = 1 THEN q[i] ELSE g[i - 1] \o q[i]
        /\ DeletionsInOrder(o, ns) = g[N]
    <3>1. Len(q) \in Nat \ {0}
      BY <1>1, <1>4, <1>6
    <3>2. Flattens(q, N, g) /\ DeletionsInOrder(o, ns) = g[N]
      BY <1>2, <1>4, <3>1, FlattenIs
    <3> QED BY <3>2 DEF Flattens
  <2> HIDE DEF g
  <2> DEFINE Bad == {i \in 1 .. N : ~Good(i, g[i])}
  <2>2. Bad = {}
    <3> SUFFICES ASSUME Bad # {} PROVE FALSE
      OBVIOUS
    <3>1. PICK i \in Bad : \A j \in Bad : i <= j
      <4>1. Bad \subseteq Nat
        BY <1>1
      <4> HIDE DEF Bad
      <4> QED BY <4>1, Least
    <3>2. i \in 1 .. N /\ ~Good(i, g[i])
      BY <3>1
    <3>3. CASE i = 1
      <4>1. g[i] = q[1]
        BY <2>1, <3>2, <3>3
      <4>2. \A v : Hit(1, v) <=> o[1] \in ns /\ Exists(o[1]) /\ v = o[1].task
        OBVIOUS
      <4> HIDE DEF Hit
      <4> QED BY <1>3, <3>2, <3>3, <4>1, <4>2
    <3>4. CASE i # 1
      <4>1. i - 1 \in 1 .. N /\ i - 1 \notin Bad
        <5> HIDE DEF Good
        <5>1. i - 1 \in 1 .. N /\ ~(i <= i - 1)
          BY <1>1, <3>2, <3>4
        <5> QED BY <3>1, <5>1
      <4>2. Good(i - 1, g[i - 1])
        <5> HIDE DEF Good
        <5> QED BY <4>1
      <4>3. g[i] = g[i - 1] \o q[i]
        BY <2>1, <3>2, <3>4
      <4>4. ASSUME NEW v, Hit(i - 1, v)
            PROVE  ~(o[i] \in ns /\ Exists(o[i]) /\ v = o[i].task)
        <5>1. PICK j \in 1 .. i - 1 : o[j] \in ns /\ Exists(o[j]) /\ v = o[j].task
          BY <4>4
        <5>2. ASSUME o[i] \in ns, v = o[i].task PROVE FALSE
          <6>1. j \in 1 .. N /\ j # i
            BY <1>1, <3>2
          <6>2. o[i] = [task |-> v, finished |-> TRUE] /\ o[j] = [task |-> v, finished |-> TRUE]
            <7>1. o[i] \in Name /\ o[j] \in Name /\ o[i].finished /\ o[j].finished
                  /\ o[i].finished \in BOOLEAN /\ o[j].finished \in BOOLEAN
              BY <1>1, <3>2, <5>1, <5>2, <6>1 DEF Name
            <7> QED BY <5>1, <5>2, <7>1 DEF Name
          <6> QED BY <1>1, <3>2, <6>1, <6>2
        <5> QED BY <5>2
      <4>5. \A v : Hit(i, v) <=> Hit(i - 1, v) \/ (o[i] \in ns /\ Exists(o[i]) /\ v = o[i].task)
        BY <1>1, <3>2, <3>4
      <4> DEFINE s == g[i - 1]
                 t == q[i]
      <4>6. /\ t \in Seq(Tidings) /\ Sorted(t)
            /\ \A v : Waiting(t, v) =
                   IF o[i] \in ns /\ Exists(o[i]) /\ v = o[i].task THEN DeletedKinds(v) ELSE {}
        BY <1>3, <3>2
      <4>7. /\ s \in Seq(Tidings) /\ Sorted(s)
            /\ \A v : Waiting(s, v) = IF Hit(i - 1, v) THEN DeletedKinds(v) ELSE {}
        BY <4>2
      <4> HIDE DEF s, t, Hit
      <4>8. \A v \in Task : \A k1 \in Waiting(s, v), k2 \in Waiting(t, v) : InOrder(k1, k2)
        BY <4>4, <4>6, <4>7
      <4>9. /\ s \o t \in Seq(Tidings) /\ Sorted(s \o t)
            /\ \A v : Waiting(s \o t, v) = Waiting(s, v) \cup Waiting(t, v)
        BY <4>6, <4>7, <4>8, MoreTold
      <4>10. \A v : Waiting(s \o t, v) = IF Hit(i, v) THEN DeletedKinds(v) ELSE {}
        <5> SUFFICES ASSUME NEW v
                     PROVE  Waiting(s \o t, v) = IF Hit(i, v) THEN DeletedKinds(v) ELSE {}
          OBVIOUS
        <5>1. Waiting(s \o t, v) = Waiting(s, v) \cup Waiting(t, v)
          BY <4>9
        <5>2. CASE Hit(i - 1, v)
          BY <4>5, <4>6, <4>7, <4>4, <5>1, <5>2
        <5>3. CASE ~Hit(i - 1, v)
          <6>1. Waiting(s, v) = {}
            BY <4>7, <5>3
          <6>2. Waiting(s \o t, v) = Waiting(t, v)
            BY <5>1, <6>1
          <6> QED BY <4>5, <4>6, <5>3, <6>2
        <5> QED BY <5>2, <5>3
      <4>11. g[i] = s \o t
        BY <4>3 DEF s, t
      <4> QED BY <3>2, <4>9, <4>10, <4>11
    <3> QED BY <3>3, <3>4
  <2>3. N \in 1 .. N
    BY <1>1, <1>6
  <2>4. Good(N, g[N])
    BY <2>2, <2>3
  <2>5. \A v : Hit(N, v) <=> \E n \in ns \cap Range(o) : Exists(n) /\ v = n.task
    BY <1>1
  <2> HIDE DEF Hit
  <2> QED BY <2>1, <2>4, <2>5
<1> QED BY <1>5, <1>6

-----------------------------------------------------------------------------
(* Storage: the order of the directories, and sums of sizes.               *)

\* There are finitely many directories and paths, as there are finitely many tasks.
LEMMA FiniteNames == IsFiniteSet(Name) /\ IsFiniteSet(Path)
<1>1. IsFiniteSet(Task) /\ IsFiniteSet(BOOLEAN) /\ IsFiniteSet({"dir", "file"})
  <2>1. IsFiniteSet({TRUE} \cup {FALSE}) /\ IsFiniteSet({"dir"} \cup {"file"})
    BY FS_Singleton, FS_Union
  <2>2. BOOLEAN = {TRUE} \cup {FALSE} /\ {"dir", "file"} = {"dir"} \cup {"file"}
    OBVIOUS
  <2> QED BY <2>1, <2>2, StorageAssumption
<1>2. IsFiniteSet(Name)
  <2> DEFINE f == [x \in Task \X BOOLEAN |-> [task |-> x[1], finished |-> x[2]]]
  <2>1. IsFiniteSet(Task \X BOOLEAN)
    BY <1>1, FS_Product
  <2>2. f \in Surjection(Task \X BOOLEAN, Name)
    <3>1. f \in [Task \X BOOLEAN -> Name]
      BY DEF Name
    <3>2. ASSUME NEW n \in Name PROVE \E x \in Task \X BOOLEAN : f[x] = n
      <4>1. <<n.task, n.finished>> \in Task \X BOOLEAN /\ f[<<n.task, n.finished>>] = n
        BY DEF Name
      <4> QED BY <4>1
    <3> HIDE DEF f
    <3> QED BY <3>1, <3>2 DEF Surjection
  <2> HIDE DEF f
  <2> QED BY <2>1, <2>2, FS_Surjection
<1>3. IsFiniteSet(Path)
  <2> DEFINE N == {"dir", "file"}
             f == [x \in Name \X N |-> [name |-> x[1], node |-> x[2]]]
  <2>1. IsFiniteSet(Name \X N)
    BY <1>1, <1>2, FS_Product
  <2>2. f \in Surjection(Name \X N, Path)
    <3>1. f \in [Name \X N -> Path]
      BY DEF Path
    <3>2. ASSUME NEW n \in Path PROVE \E x \in Name \X N : f[x] = n
      <4>1. <<n.name, n.node>> \in Name \X N /\ f[<<n.name, n.node>>] = n
        BY DEF Path
      <4> QED BY <4>1
    <3> HIDE DEF f
    <3> QED BY <3>1, <3>2 DEF Surjection
  <2> HIDE DEF f, N
  <2> QED BY <2>1, <2>2, FS_Surjection
<1> QED BY <1>2, <1>3

-----------------------------------------------------------------------------
(* The order of the directories. *)

\* An order of the directories is a sequence that has each of them once.
LEMMA OrderIs ==
  ASSUME NEW o, NEW ns, IsOrder(o, ns)
  PROVE  /\ o \in Seq(Name) /\ Len(o) \in Nat /\ DOMAIN o = 1 .. Len(o)
         /\ ns = {o[i] : i \in 1 .. Len(o)} /\ Range(o) = ns
         /\ \A i \in 1 .. Len(o) : o[i] \in Name
         /\ \A i, j \in 1 .. Len(o) : o[i] = o[j] => i = j
<1>1. o \in Seq(Name) /\ Range(o) = ns /\ \A i, j \in DOMAIN o : o[i] = o[j] => i = j
  BY DEF IsOrder
<1>2. /\ Range(o) = {o[i] : i \in 1 .. Len(o)} /\ DOMAIN o = 1 .. Len(o) /\ Len(o) \in Nat
      /\ \A i \in 1 .. Len(o) : o[i] \in Name
  BY <1>1, RangeIs
<1> QED BY <1>1, <1>2

\* A new directory is appended to the order.
LEMMA AppendedOrder ==
  ASSUME NEW o, NEW ns, IsOrder(o, ns), NEW n \in Name, n \notin ns
  PROVE  IsOrder(Append(o, n), ns \cup {n})
<1> DEFINE p == Append(o, n)
<1>1. /\ o \in Seq(Name) /\ Len(o) \in Nat /\ ns = {o[i] : i \in 1 .. Len(o)}
      /\ \A i, j \in 1 .. Len(o) : o[i] = o[j] => i = j
  BY OrderIs
<1>2. /\ p \in Seq(Name) /\ Len(p) = Len(o) + 1 /\ \A i \in 1 .. Len(o) : p[i] = o[i]
      /\ p[Len(o) + 1] = n
  BY <1>1, AppendProperties
<1> HIDE DEF p
<1>3. DOMAIN p = 1 .. Len(o) + 1 /\ Range(p) = {p[i] : i \in 1 .. Len(o) + 1}
  BY <1>2, RangeIs
<1>4. \A i \in 1 .. Len(o) + 1 : i \in 1 .. Len(o) \/ i = Len(o) + 1
  BY <1>1
<1>5. \A i \in 1 .. Len(o) : i \in 1 .. Len(o) + 1
  BY <1>1
<1>6. Len(o) + 1 \in 1 .. Len(o) + 1
  BY <1>1
<1>7. Range(p) = ns \cup {n}
  BY <1>1, <1>2, <1>3, <1>4, <1>5, <1>6
<1>8. \A i, j \in DOMAIN p : p[i] = p[j] => i = j
  BY <1>1, <1>2, <1>3, <1>4
<1> QED BY <1>2, <1>7, <1>8 DEF IsOrder, p

\* __push_file keeps the order one of the directories that are known.
LEMMA PlacedOrder ==
  ASSUME NEW o, NEW ns, IsOrder(o, ns), NEW n \in Name
  PROVE  IsOrder(Placed(o, n), ns \cup {n})
<1>1. Range(o) = ns
  BY DEF IsOrder
<1>2. CASE n \in ns
  <2>1. Placed(o, n) = o /\ ns \cup {n} = ns
    BY <1>1, <1>2 DEF Placed
  <2> QED BY <2>1
<1>3. CASE n \notin ns
  <2>1. Placed(o, n) = Append(o, n)
    BY <1>1, <1>3 DEF Placed
  <2> QED BY <1>3, <2>1, AppendedOrder
<1> QED BY <1>2, <1>3

\* A directory is dropped from the order.
LEMMA DroppedOrder ==
  ASSUME NEW o, NEW ns, IsOrder(o, ns), NEW n PROVE IsOrder(Dropped(o, n), ns \ {n})
<1>1. /\ o \in Seq(Name) /\ Len(o) \in Nat /\ DOMAIN o = 1 .. Len(o) /\ Range(o) = ns
      /\ ns = {o[i] : i \in 1 .. Len(o)} /\ \A i, j \in 1 .. Len(o) : o[i] = o[j] => i = j
  BY OrderIs
<1>2. CASE n \notin ns
  <2>1. Dropped(o, n) = o /\ ns \ {n} = ns
    BY <1>1, <1>2 DEF Dropped
  <2> QED BY <2>1
<1>3. CASE n \in ns
  <2> DEFINE h == CHOOSE i \in DOMAIN o : o[i] = n
             t == RemoveAt(o, h)
             at(j) == IF j < h THEN j ELSE j + 1
  <2>1. h \in 1 .. Len(o) /\ o[h] = n
    BY <1>1, <1>3
  <2>2. Dropped(o, n) = t
    BY <1>1, <1>3 DEF Dropped
  <2> HIDE DEF h
  <2>3. /\ t \in Seq(Name) /\ Len(t) = Len(o) - 1
        /\ \A j \in 1 .. Len(o) - 1 : t[j] = IF j < h THEN o[j] ELSE o[j + 1]
    BY <1>1, <2>1, RemoveAtIs
  <2>4. TakenOut(o, h, t)
    BY <2>3 DEF TakenOut
  <2> HIDE DEF t
  <2>5. Range(o) = Range(t) \cup {n} /\ n \notin Range(t)
    <3>1. h \in 1 .. Len(o) /\ o[h] = n /\ \A j \in 1 .. Len(o) : o[j] = n => j = h
      BY <1>1, <2>1
    <3>2. Range(o) = Range(t) \cup {o[h]}
      BY <1>1, <2>1, <2>3, <2>4, TakenOutRange
    <3>3. \A x : (\A j \in 1 .. Len(o) : o[j] = x => j = h) => x \notin Range(t)
      BY <1>1, <2>1, <2>3, <2>4, TakenOutRange
    <3> QED BY <3>1, <3>2, <3>3
  <2>6. DOMAIN t = 1 .. Len(o) - 1
    BY <2>3, LenProperties
  <2>7. ASSUME NEW i \in DOMAIN t, NEW j \in DOMAIN t, t[i] = t[j] PROVE i = j
    <3>1. at(i) \in 1 .. Len(o) /\ at(j) \in 1 .. Len(o) /\ t[i] = o[at(i)] /\ t[j] = o[at(j)]
      BY <1>1, <2>1, <2>3, <2>6, <2>7
    <3>2. at(i) = at(j)
      <4> HIDE DEF at
      <4> QED BY <1>1, <2>7, <3>1
    <3> QED BY <1>1, <2>1, <2>6, <2>7, <3>2
  <2>8. Range(t) = ns \ {n}
    BY <1>1, <2>5
  <2> QED BY <2>2, <2>3, <2>7, <2>8 DEF IsOrder
<1> QED BY <1>2, <1>3

\* __pop_file keeps the order one of the directories of which something is left.
LEMMA RenewedOrder ==
  ASSUME NEW o, NEW m, NEW p \in DOMAIN m, DOMAIN m \subseteq Path, IsOrder(o, Names(m)),
         NEW left, DOMAIN left = DOMAIN m \ {p}
  PROVE  IsOrder(Renewed(o, left, p.name), Names(left))
<1> DEFINE n == p.name
<1>1. n \in Name /\ n \in Names(m)
  BY DEF Path, Names
<1>2. IsOrder(Dropped(o, n), Names(m) \ {n})
  <2> HIDE DEF n
  <2> QED BY DroppedOrder
<1>3. CASE \E q \in DOMAIN left : q.name = n
  <2>1. Names(left) = (Names(m) \ {n}) \cup {n}
    BY <1>3 DEF Names
  <2>2. Renewed(o, left, n) = Append(Dropped(o, n), n)
    BY <1>3 DEF Renewed
  <2> HIDE DEF n
  <2>3. IsOrder(Append(Dropped(o, n), n), (Names(m) \ {n}) \cup {n})
    BY <1>1, <1>2, AppendedOrder
  <2> QED BY <2>1, <2>2, <2>3 DEF n
<1>4. CASE ~\E q \in DOMAIN left : q.name = n
  <2>1. Names(left) = Names(m) \ {n}
    BY <1>4 DEF Names
  <2>2. Renewed(o, left, n) = Dropped(o, n)
    BY <1>4 DEF Renewed
  <2> QED BY <1>2, <2>1, <2>2
<1> QED BY <1>3, <1>4

\* A sequence of all members of a set of names is an order of them.
LEMMA SequencesOrder ==
  ASSUME NEW ns, ns \subseteq Name, NEW o \in SetToSeqs(ns) PROVE IsOrder(o, ns)
<1> DEFINE N == Cardinality(ns)
<1>1. IsFiniteSet(ns) /\ N \in Nat
  BY FiniteNames, FS_Subset, FS_CardinalityType
<1>2. o \in [1 .. N -> ns] /\ \A i, j \in 1 .. N : i # j => o[i] # o[j]
  BY DEF SetToSeqs
<1>3. IsFiniteSet(1 .. N) /\ Cardinality(1 .. N) = N
  <2>1. Cardinality(1 .. N) = IF 1 > N THEN 0 ELSE N - 1 + 1
    BY <1>1, FS_Interval
  <2> HIDE DEF N
  <2> QED BY <1>1, <2>1, FS_Interval
<1>4. o \in Injection(1 .. N, ns)
  BY <1>2 DEF Injection, IsInjective
<1>5. o \in Surjection(1 .. N, ns)
  BY <1>1, <1>3, <1>4, FS_Injection
<1>6. \A n \in ns : \E i \in 1 .. N : o[i] = n
  BY <1>5 DEF Surjection
<1> HIDE DEF N
<1>7. o \in Seq(Name)
  <2>1. o \in [1 .. N -> Name]
    BY <1>2
  <2> QED BY <1>1, <2>1, SeqDef
<1>8. Range(o) = ns
  BY <1>2, <1>6 DEF Range
<1> QED BY <1>2, <1>7, <1>8 DEF IsOrder

-----------------------------------------------------------------------------
(* Sizes added up. *)

\* A sum is the sum over a part and over the rest.
LEMMA SumSplit ==
  ASSUME NEW f, NEW S, IsFiniteSet(S), \A x \in S : f[x] \in Nat, NEW V, V \subseteq S
  PROVE  SumFunctionOnSet(f, S) = SumFunctionOnSet(f, V) + SumFunctionOnSet(f, S \ V)
<1> DEFINE Total(s) == SumFunctionOnSet(f, s)
           Bad == {u \in SUBSET V : Total(S) # Total(u) + Total(S \ u)}
<1> SUFFICES ASSUME Bad # {} PROVE FALSE
  OBVIOUS
<1>1. IsFiniteSet(V)
  BY FS_Subset
<1>2. PICK u \in Bad : \A r \in SUBSET V : r \subseteq u /\ r # u => r \notin Bad
  <2> HIDE DEF Bad
  <2>1. Bad \subseteq SUBSET V
    BY DEF Bad
  <2> QED BY <1>1, <2>1, Smallest
<1>3. u \subseteq S /\ Total(S) # Total(u) + Total(S \ u)
  OBVIOUS
<1>4. IsFiniteSet(u) /\ IsFiniteSet({}) /\ \A s : s \subseteq S => IsFiniteSet(s)
  BY <1>3, FS_Subset, FS_EmptySet
<1>5. Total({}) = 0
  BY <1>4, SumStep
<1>6. Total(S) \in Nat
  BY SumNat
<1>7. u # {}
  <2>1. S \ {} = S
    OBVIOUS
  <2> HIDE DEF Total, Bad
  <2> QED BY <1>3, <1>5, <1>6, <2>1
<1> DEFINE x == First(u)
           r == u \ {x}
<1>8. x \in u
  BY <1>7, FirstIn
<1>9. Total(S) = Total(r) + Total(S \ r)
  BY <1>2, <1>8
<1>10. Total(u) = f[x] + Total(r)
  BY <1>3, <1>4, <1>8, SumWithout
<1>11. Total(S \ r) = f[x] + Total(S \ u)
  <2> HIDE DEF x
  <2>1. x \in S \ r /\ (S \ r) \ {x} = S \ u /\ \A y \in S \ r : f[y] \in Nat
    BY <1>3, <1>8
  <2>2. IsFiniteSet(S \ r)
    BY <1>4
  <2> HIDE DEF r
  <2>3. Total(S \ r) = f[x] + Total((S \ r) \ {x})
    BY <2>1, <2>2, SumWithout
  <2> QED BY <2>1, <2>3
<1>12. f[x] \in Nat /\ Total(r) \in Nat /\ Total(S \ u) \in Nat
  <2>1. f[x] \in Nat
    BY <1>3, <1>8
  <2>2. IsFiniteSet(r) /\ r \subseteq S /\ IsFiniteSet(S \ u)
    BY <1>3, <1>4
  <2> HIDE DEF r
  <2> QED BY <2>1, <2>2, SumNat
<1> HIDE DEF Total, Bad, r, x
<1> QED BY <1>3, <1>9, <1>10, <1>11, <1>12

\* What is known is finite, so that its sizes add up to a number.
LEMMA KnownFinite ==
  ASSUME NEW m, Metadatas(m), NEW X
  PROVE  /\ IsFiniteSet(DOMAIN m \cap X) /\ \A x \in DOMAIN m \cap X : m[x] \in Nat
         /\ Part(m, X) \in Nat
<1>1. IsFiniteSet(DOMAIN m \cap X) /\ \A x \in DOMAIN m \cap X : m[x] \in Nat
  BY FiniteNames, FS_Subset DEF Metadatas
<1> QED BY <1>1, SumNat DEF Part

\* The sizes of some paths are those of some of them and of the others.
LEMMA PartSplit ==
  ASSUME NEW m, Metadatas(m), NEW X, NEW Y
  PROVE  Part(m, X) = Part(m, X \cap Y) + Part(m, X \ Y)
<1>1. /\ DOMAIN m \cap (X \cap Y) \subseteq DOMAIN m \cap X
      /\ (DOMAIN m \cap X) \ (DOMAIN m \cap (X \cap Y)) = DOMAIN m \cap (X \ Y)
  OBVIOUS
<1>2. SumFunctionOnSet(m, DOMAIN m \cap X) = SumFunctionOnSet(m, DOMAIN m \cap (X \cap Y))
        + SumFunctionOnSet(m, (DOMAIN m \cap X) \ (DOMAIN m \cap (X \cap Y)))
  BY <1>1, KnownFinite, SumSplit
<1> QED BY <1>1, <1>2 DEF Part

\* The sizes of all paths are the total.
LEMMA PartTotal == ASSUME NEW m, Metadatas(m) PROVE TotalSize(m) = Part(m, Path)
<1>1. DOMAIN m \cap Path = DOMAIN m
  BY DEF Metadatas
<1> QED BY <1>1 DEF Part, TotalSize, SumFunction

\* The sum depends only on what is known of the paths.
LEMMA PartSame ==
  ASSUME NEW m, Metadatas(m), NEW m2, NEW X, NEW X2, DOMAIN m \cap X = DOMAIN m2 \cap X2,
         \A p \in DOMAIN m \cap X : m[p] = m2[p]
  PROVE  Part(m, X) = Part(m2, X2)
BY KnownFinite, SumSame DEF Part

\* What __push_file leaves.
LEMMA PushedIs ==
  ASSUME NEW m, Metadatas(m), NEW p \in Path, NEW s \in Nat
  PROVE  /\ Metadatas(Pushed(m, p, s)) /\ DOMAIN Pushed(m, p, s) = DOMAIN m \cup {p}
         /\ Pushed(m, p, s)[p] = s /\ \A q \in DOMAIN m : q # p => Pushed(m, p, s)[q] = m[q]
         /\ Cached(m, p) \in Nat /\ Names(Pushed(m, p, s)) = Names(m) \cup {p.name}
<1> DEFINE m2 == Pushed(m, p, s)
<1>1. /\ m2 = [q \in DOMAIN m \cup {p} |-> IF q = p THEN s ELSE m[q]]
      /\ \A q \in DOMAIN m : m[q] \in Nat
  BY DEF Pushed, Metadatas
<1>2. Cached(m, p) \in Nat
  BY <1>1 DEF Cached
<1>3. DOMAIN m2 \subseteq Path
  BY <1>1 DEF Metadatas
<1> HIDE DEF m2
<1>4. Metadatas(m2)
  BY <1>1, <1>3 DEF Metadatas
<1>5. DOMAIN m2 = DOMAIN m \cup {p} /\ m2[p] = s /\ \A q \in DOMAIN m : q # p => m2[q] = m[q]
  BY <1>1
<1>6. Names(m2) = Names(m) \cup {p.name}
  BY <1>5 DEF Names
<1> QED BY <1>2, <1>4, <1>5, <1>6 DEF m2

\* And what it does to the sum: the new size in place of the old one.
LEMMA PushedPart ==
  ASSUME NEW m, Metadatas(m), NEW p \in Path, NEW s \in Nat, NEW X
  PROVE  Part(Pushed(m, p, s), X) =
           IF p \in X THEN Part(m, X) + s - Cached(m, p) ELSE Part(m, X)
<1> DEFINE m2 == Pushed(m, p, s)
           D == DOMAIN m \cap X
           D2 == DOMAIN m2 \cap X
<1>1. /\ Metadatas(m2) /\ DOMAIN m2 = DOMAIN m \cup {p} /\ m2[p] = s
      /\ \A q \in DOMAIN m : q # p => m2[q] = m[q]
  <2> HIDE DEF D, D2, m2
  <2>1. DOMAIN Pushed(m, p, s) = DOMAIN m \cup {p}
    BY DEF Pushed
  <2>4. Metadatas(Pushed(m, p, s))
    BY PushedIs
  <2>2. Pushed(m, p, s)[p] = s
    BY DEF Pushed
  <2>3. \A q \in DOMAIN m : q # p => Pushed(m, p, s)[q] = m[q]
    BY DEF Pushed
  <2> QED BY <2>1, <2>2, <2>3, <2>4 DEF m2
<1> HIDE DEF m2
<1>2. CASE p \notin X
  <2>1. D = D2 /\ \A q \in D : m[q] = m2[q]
    BY <1>1, <1>2
  <2> QED BY <1>2, <2>1, PartSame DEF m2
<1>3. CASE p \in X
  <2>1. p \in D2 /\ D2 \ {p} = D \ {p} /\ \A q \in D \ {p} : m2[q] = m[q]
    BY <1>1, <1>3
  <2>2. IsFiniteSet(D2) /\ \A x \in D2 : m2[x] \in Nat
    BY <1>1, KnownFinite
  <2>3. IsFiniteSet(D) /\ \A x \in D : m[x] \in Nat
    BY KnownFinite
  <2>4. IsFiniteSet(D \ {p})
    BY <2>3, FS_Subset
  <2> HIDE DEF D, D2
  <2>5. SumFunctionOnSet(m2, D2) = s + SumFunctionOnSet(m2, D \ {p})
    BY <1>1, <2>1, <2>2, SumWithout
  <2>6. SumFunctionOnSet(m2, D \ {p}) = SumFunctionOnSet(m, D \ {p})
    BY <2>1, <2>4, SumSame
  <2>7. SumFunctionOnSet(m, D \ {p}) \in Nat /\ SumFunctionOnSet(m, D) \in Nat
    BY <2>3, <2>4, SumNat
  <2>8. SumFunctionOnSet(m, D) = Cached(m, p) + SumFunctionOnSet(m, D \ {p})
    <3>1. CASE p \in DOMAIN m
      <4>1. p \in D /\ Cached(m, p) = m[p]
        BY <1>3, <3>1 DEF D, Cached
      <4> QED BY <2>3, <4>1, SumWithout
    <3>2. CASE p \notin DOMAIN m
      <4>1. D \ {p} = D /\ Cached(m, p) = 0
        BY <3>2 DEF D, Cached
      <4> QED BY <2>7, <4>1
    <3> QED BY <3>1, <3>2
  <2>9. Part(m2, X) = SumFunctionOnSet(m2, D2) /\ Part(m, X) = SumFunctionOnSet(m, D)
    BY DEF Part, D, D2
  <2>10. Cached(m, p) \in Nat
    BY PushedIs
  <2>11. Part(m2, X) = Part(m, X) + s - Cached(m, p)
    BY <2>5, <2>6, <2>7, <2>8, <2>9, <2>10
  <2> QED BY <1>3, <2>11 DEF m2
<1> QED BY <1>2, <1>3

\* What __pop_file leaves of a path that is known.
LEMMA PoppedIs ==
  ASSUME NEW m, Metadatas(m), NEW p \in DOMAIN m
  PROVE  /\ Metadatas(Popped(m, p)) /\ DOMAIN Popped(m, p) = DOMAIN m \ {p}
         /\ \A q \in DOMAIN m \ {p} : Popped(m, p)[q] = m[q]
         /\ m[p] \in Nat /\ Cached(m, p) = m[p]
<1> DEFINE m2 == Popped(m, p)
<1>1. m2 = [q \in DOMAIN m \ {p} |-> m[q]] /\ \A q \in DOMAIN m : m[q] \in Nat
  BY DEF Popped, Restrict, Metadatas
<1>2. Cached(m, p) = m[p]
  BY DEF Cached
<1> HIDE DEF m2
<1>3. Metadatas(m2)
  BY <1>1 DEF Metadatas
<1> QED BY <1>1, <1>2, <1>3 DEF m2

\* And what it does to the sum.
LEMMA PoppedPart ==
  ASSUME NEW m, Metadatas(m), NEW p \in DOMAIN m, NEW X
  PROVE  Part(Popped(m, p), X) = IF p \in X THEN Part(m, X) - m[p] ELSE Part(m, X)
<1> DEFINE m2 == Popped(m, p)
           D == DOMAIN m \cap X
           D2 == DOMAIN m2 \cap X
<1>1. /\ Metadatas(m2) /\ DOMAIN m2 = DOMAIN m \ {p} /\ m[p] \in Nat
      /\ \A q \in DOMAIN m \ {p} : m2[q] = m[q]
  BY PoppedIs
<1> HIDE DEF m2
<1>2. CASE p \notin X
  <2>1. D = D2 /\ \A q \in D : m[q] = m2[q]
    BY <1>1, <1>2
  <2> QED BY <1>2, <2>1, PartSame DEF m2
<1>3. CASE p \in X
  <2>1. p \in D /\ D2 = D \ {p} /\ \A q \in D2 : m2[q] = m[q]
    BY <1>1, <1>3
  <2>2. IsFiniteSet(D2) /\ \A x \in D2 : m2[x] \in Nat
    BY <1>1, KnownFinite
  <2>3. IsFiniteSet(D) /\ \A x \in D : m[x] \in Nat
    BY KnownFinite
  <2> HIDE DEF D, D2
  <2>4. SumFunctionOnSet(m, D) = m[p] + SumFunctionOnSet(m, D2)
    BY <2>1, <2>3, SumWithout
  <2>5. SumFunctionOnSet(m2, D2) = SumFunctionOnSet(m, D2) /\ SumFunctionOnSet(m2, D2) \in Nat
    BY <2>1, <2>2, SumSame, SumNat
  <2>6. Part(m2, X) = SumFunctionOnSet(m2, D2) /\ Part(m, X) = SumFunctionOnSet(m, D)
    BY DEF Part, D, D2
  <2>7. Part(m2, X) = Part(m, X) - m[p]
    BY <1>1, <2>4, <2>5, <2>6
  <2> QED BY <1>3, <2>7 DEF m2
<1> QED BY <1>2, <1>3

-----------------------------------------------------------------------------
(* What is cleared. *)

\* _clear_files takes directories of finished tasks only; it takes all of them, or more
\* than it was asked for.
LEMMA ClearedAre ==
  ASSUME NEW m, Metadatas(m), NEW o, IsOrder(o, Names(m)), NEW b \in Int
  PROVE  /\ \A n \in Cleared(m, o, b) : n \in Names(m) /\ n \in Name /\ n.finished
         /\ ~IsDone(m, o, b) => \A n \in Names(m) : n.finished => n \in Cleared(m, o, b)
         /\ IsDone(m, o, b) => Part(m, {p \in Path : p.name \in Cleared(m, o, b)}) > b
<1> DEFINE Q(i) == {q \in DOMAIN m : q.name.finished /\ \E j \in 1 .. i - 1 : o[j] = q.name}
           ns == Cleared(m, o, b)
           P == {p \in Path : p.name \in ns}
<1>1. /\ Len(o) \in Nat /\ DOMAIN o = 1 .. Len(o) /\ Names(m) = {o[i] : i \in 1 .. Len(o)}
      /\ \A i \in 1 .. Len(o) : o[i] \in Name
  BY OrderIs
<1>2. ASSUME NEW i
      PROVE  /\ Uncleared(m, o, b, i) = b - SumFunctionOnSet(m, Q(i))
             /\ SumFunctionOnSet(m, Q(i)) \in Nat
             /\ Uncleared(m, o, b, i) \in Int
  <2>1. DOMAIN m \cap Q(i) = Q(i)
    OBVIOUS
  <2> HIDE DEF Q
  <2>2. Part(m, Q(i)) \in Nat /\ Part(m, Q(i)) = SumFunctionOnSet(m, Q(i))
    BY <2>1, KnownFinite DEF Part
  <2>3. Uncleared(m, o, b, i) = b - SumFunctionOnSet(m, Q(i))
    BY DEF Uncleared, Q
  <2> QED BY <2>2, <2>3
<1>3. \A n : n \in ns <=> \E i \in 1 .. Len(o) :
        o[i] = n /\ n.finished /\ Uncleared(m, o, b, i) >= 0
  BY <1>1 DEF Cleared
<1>4. \A n \in ns : n \in Names(m) /\ n \in Name /\ n.finished
  BY <1>1, <1>3
<1>5. ASSUME ~IsDone(m, o, b), NEW n \in Names(m), n.finished PROVE n \in ns
  <2>1. PICK i \in 1 .. Len(o) : o[i] = n
    BY <1>1
  <2>2. ~(Uncleared(m, o, b, i) < 0)
    BY <1>1, <1>5 DEF IsDone
  <2>3. Uncleared(m, o, b, i) \in Int
    <3> HIDE DEF Q
    <3> QED BY <1>2
  <2> HIDE DEF ns
  <2> QED BY <1>3, <1>5, <2>1, <2>2, <2>3
<1>6. ASSUME IsDone(m, o, b) PROVE Part(m, P) > b
  <2> DEFINE T == {i \in 1 .. Len(o) : Uncleared(m, o, b, i) < 0}
  <2>1. T # {} /\ T \subseteq Nat
    BY <1>1, <1>6 DEF IsDone
  <2>2. PICK i \in T : \A j \in T : i <= j
    <3> HIDE DEF T
    <3> QED BY <2>1, Least
  <2>3. i \in 1 .. Len(o) /\ Uncleared(m, o, b, i) < 0
    BY <2>2
  <2>4. ASSUME NEW q \in Q(i) PROVE q \in DOMAIN m \cap P
    <3>1. PICK j \in 1 .. i - 1 : o[j] = q.name
      BY <2>4
    <3>2. j \in 1 .. Len(o) /\ j < i /\ j \notin T
      BY <1>1, <2>2, <2>3, <3>1
    <3>3. Uncleared(m, o, b, j) \in Int /\ ~(Uncleared(m, o, b, j) < 0)
      <4>1. Uncleared(m, o, b, j) \in Int
        <5> HIDE DEF Q
        <5> QED BY <1>2
      <4> QED BY <3>2, <4>1
    <3>4. q.name \in ns
      <4>1. Uncleared(m, o, b, j) >= 0
        BY <3>3
      <4> HIDE DEF ns
      <4> QED BY <1>3, <2>4, <3>1, <3>2, <4>1
    <3> QED BY <2>4, <3>4 DEF Metadatas
  <2>5. Q(i) \subseteq DOMAIN m \cap P
    BY <2>4
  <2> DEFINE A == DOMAIN m \cap P
             B == Q(i)
  <2>6. IsFiniteSet(A) /\ \A x \in A : m[x] \in Nat
    BY KnownFinite
  <2>7. IsFiniteSet(A \ B) /\ \A x \in A \ B : m[x] \in Nat
    BY <2>6, FS_Subset
  <2> HIDE DEF A, B
  <2>8. SumFunctionOnSet(m, A) = SumFunctionOnSet(m, B) + SumFunctionOnSet(m, A \ B)
    BY <2>5, <2>6, SumSplit DEF A, B
  <2>9. SumFunctionOnSet(m, A \ B) \in Nat
    BY <2>7, SumNat
  <2>10. b - SumFunctionOnSet(m, B) < 0 /\ SumFunctionOnSet(m, B) \in Nat
    BY <1>2, <2>3 DEF B
  <2>11. SumFunctionOnSet(m, A) > b
    BY <2>8, <2>9, <2>10
  <2> QED BY <2>11 DEF Part, A
<1> HIDE DEF ns, Q
<1> QED BY <1>4, <1>5, <1>6 DEF ns

-----------------------------------------------------------------------------
(* Storage: a task is followed through its events.                         *)

\* The size of a path, by the record of its task.
SizeOf(d, finished, part) ==
  IF d.place \in Running \cup {"finished"} /\ finished = (d.place = "finished")
  THEN IF part = "dir" THEN 1 ELSE d.size
  ELSE 0
\* A task that has no directory has no file.
GoodRecord(d) ==
  d.place \in Place /\ d.size \in Nat /\ (d.place \in {"none", "removed"} => d.size = 0)

\* The size of a path, and whether the directory is there, are in the record of the
\* task.
LEMMA SizeIs ==
  ASSUME NEW w \in Task, NEW f \in BOOLEAN, NEW a \in {"dir", "file"}
  PROVE  /\ Size(At(w, f, a)) = SizeOf(disk[w], f, a)
         /\ Exists([task |-> w, finished |-> f]) <=>
              disk[w].place \in Running \cup {"finished"} /\ f = (disk[w].place = "finished")
<1> DEFINE n == [task |-> w, finished |-> f]
<1>1. n.task = w /\ (n = NameOf(w) <=> f = (disk[w].place = "finished"))
  BY DEF NameOf
<1>2. Exists(n) <=> disk[w].place \in Running \cup {"finished"} /\ f = (disk[w].place = "finished")
  BY <1>1 DEF Exists, Present
<1>3. At(w, f, a).name = n /\ At(w, f, a).node = a
  BY DEF At
<1> HIDE DEF n
<1>4. Size(At(w, f, a)) = SizeOf(disk[w], f, a)
  BY <1>1, <1>2, <1>3 DEF Size, SizeOf
<1> QED BY <1>2, <1>4 DEF n

\* A size is a number.
LEMMA SizeNat ==
  ASSUME NEW d, GoodRecord(d), NEW f, NEW a PROVE SizeOf(d, f, a) \in Nat
BY DEF SizeOf, GoodRecord

\* What pushing and popping do to what is known.
LEMMA PushedKnows ==
  ASSUME NEW m, NEW w, NEW f, NEW a, NEW s, NEW v, NEW g, NEW b
  PROVE  /\ Knows(Pushed(m, At(w, f, a), s), v, g, b) <=>
              Knows(m, v, g, b) \/ (v = w /\ g = f /\ b = a)
         /\ v = w /\ g = f /\ b = a => Pushed(m, At(w, f, a), s)[At(v, g, b)] = s
         /\ Knows(m, v, g, b) /\ ~(v = w /\ g = f /\ b = a) =>
              Pushed(m, At(w, f, a), s)[At(v, g, b)] = m[At(v, g, b)]
<1> DEFINE p == At(w, f, a)
           q == At(v, g, b)
<1>1. p = q <=> v = w /\ g = f /\ b = a
  BY DEF At
<1> HIDE DEF p, q
<1>2. /\ q \in DOMAIN Pushed(m, p, s) <=> q \in DOMAIN m \/ q = p
      /\ q = p => Pushed(m, p, s)[q] = s
      /\ q \in DOMAIN m /\ q # p => Pushed(m, p, s)[q] = m[q]
  BY DEF Pushed
<1> QED BY <1>1, <1>2 DEF Knows, p, q

\* What is known when a path has been popped.
LEMMA PoppedKnows ==
  ASSUME NEW m, NEW w, NEW f, NEW a, NEW v, NEW g, NEW b
  PROVE  /\ Knows(Popped(m, At(w, f, a)), v, g, b) <=>
              Knows(m, v, g, b) /\ ~(v = w /\ g = f /\ b = a)
         /\ Knows(m, v, g, b) /\ ~(v = w /\ g = f /\ b = a) =>
              Popped(m, At(w, f, a))[At(v, g, b)] = m[At(v, g, b)]
<1> DEFINE p == At(w, f, a)
           q == At(v, g, b)
<1>1. p = q <=> v = w /\ g = f /\ b = a
  BY DEF At
<1> HIDE DEF p, q
<1>2. /\ q \in DOMAIN Popped(m, p) <=> q \in DOMAIN m /\ q # p
      /\ q \in DOMAIN m /\ q # p => Popped(m, p)[q] = m[q]
  BY DEF Popped, Restrict
<1> QED BY <1>1, <1>2 DEF Knows, p, q

\* The four paths of a task differ.
LEMMA FourPaths ==
  ASSUME NEW w
  PROVE  /\ At(w, FALSE, "dir") # At(w, FALSE, "file") /\ At(w, FALSE, "dir") # At(w, TRUE, "dir")
         /\ At(w, FALSE, "dir") # At(w, TRUE, "file") /\ At(w, FALSE, "file") # At(w, TRUE, "dir")
         /\ At(w, FALSE, "file") # At(w, TRUE, "file") /\ At(w, TRUE, "dir") # At(w, TRUE, "file")
BY DEF At

\* Popping a path changes nothing of the others.
LEMMA PoppedAt ==
  ASSUME NEW m, NEW p, NEW q
  PROVE  /\ q \in DOMAIN Popped(m, p) <=> q \in DOMAIN m /\ q # p
         /\ q \in DOMAIN m /\ q # p => Popped(m, p)[q] = m[q]
BY DEF Popped, Restrict

\* The same is known of a path.
Keeps(m, m2, q) ==
  (q \in DOMAIN m2 <=> q \in DOMAIN m) /\ (q \in DOMAIN m => m2[q] = m[q])

\* Nor does pushing one.
LEMMA PushedAway ==
  ASSUME NEW m, NEW p, NEW s, NEW q, q # p PROVE Keeps(m, Pushed(m, p, s), q)
BY DEF Pushed, Keeps

\* The same is known of a task.
SameKnown(m, m2, w) ==
  /\ Knows(m2, w, FALSE, "dir") <=> Knows(m, w, FALSE, "dir")
  /\ Knows(m2, w, FALSE, "file") <=> Knows(m, w, FALSE, "file")
  /\ Knows(m2, w, TRUE, "dir") <=> Knows(m, w, TRUE, "dir")
  /\ Knows(m2, w, TRUE, "file") <=> Knows(m, w, TRUE, "file")
  /\ Knows(m, w, FALSE, "dir") => m2[At(w, FALSE, "dir")] = m[At(w, FALSE, "dir")]
  /\ Knows(m, w, FALSE, "file") => m2[At(w, FALSE, "file")] = m[At(w, FALSE, "file")]
  /\ Knows(m, w, TRUE, "dir") => m2[At(w, TRUE, "dir")] = m[At(w, TRUE, "dir")]
  /\ Knows(m, w, TRUE, "file") => m2[At(w, TRUE, "file")] = m[At(w, TRUE, "file")]

\* Whether the monitor follows a task depends on what it knows of this task only.
LEMMA FollowsSame ==
  ASSUME NEW d, NEW ws, NEW m, NEW m2, NEW w, NEW r, NEW s, NEW r2, NEW s2,
         Follows(d, ws, m, w, r, s), SameKnown(m, m2, w), r => r2, s => s2
  PROVE  Follows(d, ws, m2, w, r2, s2)
<1>1. d.place = "none" => Unborn(ws, m2, w)
  BY DEF Follows, Unborn, SameKnown
<1>2. d.place \in Running => Grows(d, ws, m2, w, s2)
  BY DEF Follows, Grows, SameKnown
<1>3. d.place = "finished" => Moves(d, ws, m2, w)
  BY DEF Follows, Moves, SameKnown
<1>4. d.place = "removed" => Vanishes(ws, m2, w, r2)
  BY DEF Follows, Vanishes, SameKnown
<1> QED BY <1>1, <1>2, <1>3, <1>4 DEF Follows

\* A path of one task is pushed or popped, and nothing of the others changes.
LEMMA SameOthers ==
  ASSUME NEW m, NEW w, NEW v, v # w, NEW f, NEW a, NEW s
  PROVE  SameKnown(m, Pushed(m, At(w, f, a), s), v) /\ SameKnown(m, Popped(m, At(w, f, a)), v)
<1>1. \A g, b : /\ Knows(Pushed(m, At(w, f, a), s), v, g, b) <=> Knows(m, v, g, b)
                /\ Knows(m, v, g, b) => Pushed(m, At(w, f, a), s)[At(v, g, b)] = m[At(v, g, b)]
  BY PushedKnows
<1>2. \A g, b : /\ Knows(Popped(m, At(w, f, a)), v, g, b) <=> Knows(m, v, g, b)
                /\ Knows(m, v, g, b) => Popped(m, At(w, f, a))[At(v, g, b)] = m[At(v, g, b)]
  BY PoppedKnows
<1> QED BY <1>1, <1>2 DEF SameKnown

\* Two changes that leave a task alone.
LEMMA SameTwice ==
  ASSUME NEW a, NEW b, NEW c, NEW w, SameKnown(a, b, w), SameKnown(b, c, w)
  PROVE  SameKnown(a, c, w)
BY DEF SameKnown

\* No change leaves it alone.
LEMMA SameSelf == ASSUME NEW m, NEW w PROVE SameKnown(m, m, w)
BY DEF SameKnown

\* Where the directory is, by what is waiting.
LEMMA FollowsBounds ==
  ASSUME NEW d, NEW ws, NEW m, NEW w, NEW r, NEW s, Follows(d, ws, m, w, r, s), NEW k \in ws,
         GoodRecord(d), ws \subseteq Kind
  PROVE  /\ Rank[k] <= 3 => d.place \in Running \cup {"finished"}
         /\ Rank[k] = 4 => d.place = "finished"
         /\ Rank[k] = 5 => d.place \in {"finished", "removed"}
         /\ Rank[k] >= 6 => d.place = "removed"
<1>1. Rank[k] \in 1 .. 8
  BY RankNat
<1>2. d.place # "none"
  BY DEF Follows, Unborn
<1>3. d.place \in Running => Rank[k] <= 3
  BY DEF Follows, Grows
<1>4. d.place = "finished" => Rank[k] <= 5
  BY DEF Follows, Moves
<1>5. d.place = "removed" => Rank[k] >= 5
  BY DEF Follows, Vanishes
<1> QED BY <1>1, <1>2, <1>3, <1>4, <1>5 DEF GoodRecord, Place

\* The tiding k of a task is the first to be handled, and is taken from what is waiting.
Out(k, ws, ws2) ==
  /\ k \in ws /\ ws \subseteq Kind /\ ws2 \subseteq ws /\ ws \ {k} \subseteq ws2
  /\ k \in ws2 => Rank[k] = 3
  /\ \A x \in ws : x = k \/ InOrder(k, x)

\* News of the running task: its size of now is pushed, whatever has become of it since.
LEMMA RefreshedFollows ==
  ASSUME NEW d, GoodRecord(d), NEW m, NEW m2, NEW w, NEW r, NEW s, NEW ws, NEW ws2,
         Follows(d, ws, m, w, r, s),
         NEW k \in {"createdDir", "createdFile", "modifiedDir", "modifiedFile"}, Out(k, ws, ws2),
         m2 = Pushed(m, At(w, FALSE, KindNode[k]), SizeOf(d, FALSE, KindNode[k]))
  PROVE  Follows(d, ws2, m2, w, r, s)
<1> DEFINE a == KindNode[k]
           z == SizeOf(d, FALSE, a)
           b == IF a = "dir" THEN "file" ELSE "dir"
<1>1. /\ a = (IF k \in {"createdDir", "modifiedDir"} THEN "dir" ELSE "file") /\ a # b
      /\ {a, b} = {"dir", "file"}
  BY DEF KindNode, Kind
<1> HIDE DEF z
<1>2. /\ Knows(m2, w, FALSE, a) /\ m2[At(w, FALSE, a)] = z
      /\ Knows(m2, w, FALSE, b) <=> Knows(m, w, FALSE, b)
      /\ Knows(m, w, FALSE, b) => m2[At(w, FALSE, b)] = m[At(w, FALSE, b)]
      /\ Knows(m2, w, TRUE, "dir") <=> Knows(m, w, TRUE, "dir")
      /\ Knows(m2, w, TRUE, "file") <=> Knows(m, w, TRUE, "file")
      /\ Knows(m, w, TRUE, "dir") => m2[At(w, TRUE, "dir")] = m[At(w, TRUE, "dir")]
      /\ Knows(m, w, TRUE, "file") => m2[At(w, TRUE, "file")] = m[At(w, TRUE, "file")]
  <2> DEFINE p == At(w, FALSE, a)
  <2>2. p # At(w, FALSE, b) /\ p # At(w, TRUE, "dir") /\ p # At(w, TRUE, "file")
    BY <1>1, FourPaths
  <2>3. m2 = Pushed(m, p, z)
    BY DEF z
  <2> HIDE DEF p
  <2>1. p \in DOMAIN m2 /\ m2[p] = z
    BY <2>3 DEF Pushed
  <2>4. /\ Keeps(m, m2, At(w, FALSE, b)) /\ Keeps(m, m2, At(w, TRUE, "dir"))
        /\ Keeps(m, m2, At(w, TRUE, "file"))
    BY <2>2, <2>3, PushedAway
  <2> QED BY <2>1, <2>4 DEF p, Keeps, Knows
<1>3. /\ ws2 \subseteq ws /\ k \in ws /\ (k \in ws2 => Rank[k] = 3) /\ ws \subseteq Kind
      /\ \A x \in ws : x = k \/ x \in ws2
      /\ \A x \in ws : x = k \/ Rank[k] < Rank[x] \/ (Rank[k] = 3 /\ Rank[x] = 3)
  BY DEF Out, InOrder
<1>4. Rank[k] <= 3 /\ Rank[k] = (IF k = "createdDir" THEN 1 ELSE IF k = "createdFile" THEN 2 ELSE 3)
  BY RankIs
<1>5. d.place # "none" /\ d.place # "removed"
  BY <1>3, <1>4, FollowsBounds DEF Running
<1>6. /\ "createdDir" \in ws => k = "createdDir" /\ "createdDir" \notin ws2
      /\ "createdFile" \in ws => k \in {"createdDir", "createdFile"}
      /\ "createdFile" \in ws2 <=> "createdFile" \in ws /\ k # "createdFile"
      /\ "movedDir" \in ws2 <=> "movedDir" \in ws
      /\ FileMoves(ws2) <=> FileMoves(ws)
      /\ "movedFile" \in ws2 <=> "movedFile" \in ws
      /\ "modifiedFile" \in ws /\ "modifiedFile" \notin ws2 => k = "modifiedFile"
  BY <1>3, <1>4, RankIs DEF FileMoves
<1>7. CASE d.place \in Running
  <2>1. Grows(d, ws, m, w, s)
    BY <1>7 DEF Follows
  <2>2. z = IF a = "dir" THEN 1 ELSE d.size
    BY <1>7 DEF z, SizeOf, Running
  <2>3. a = "file" => d.size > 0
    BY <1>1, <1>3, <1>4, <2>1, RankIs DEF Grows
  <2> HIDE DEF a, b
  <2>4. Knows(m2, w, FALSE, "dir") <=> "createdDir" \notin ws2
    BY <1>1, <1>2, <1>3, <1>6, <2>1 DEF Grows
  <2>5. Knows(m2, w, FALSE, "dir") => m2[At(w, FALSE, "dir")] = 1
    BY <1>1, <1>2, <2>1, <2>2 DEF Grows
  <2>6. ASSUME d.place = "running" \/ ~s
        PROVE  /\ Knows(m2, w, FALSE, "file") <=> d.size > 0 /\ "createdFile" \notin ws2
               /\ Knows(m2, w, FALSE, "file")
                  /\ "modifiedFile" \notin ws2 => m2[At(w, FALSE, "file")] = d.size
    BY <1>1, <1>2, <1>3, <1>6, <2>1, <2>2, <2>3, <2>6 DEF Grows
  <2>7. Grows(d, ws2, m2, w, s)
    BY <1>2, <1>3, <2>1, <2>4, <2>5, <2>6 DEF Grows
  <2> QED BY <1>5, <1>7, <2>7 DEF Follows, Running
<1>8. CASE d.place = "finished"
  <2>1. Moves(d, ws, m, w)
    BY <1>8 DEF Follows
  <2>2. "movedDir" \in ws
    BY <1>3, <1>4, <2>1 DEF Moves
  <2>3. a = "file" => d.size > 0
    BY <1>1, <1>3, <1>4, <2>1, RankIs DEF Moves
  <2> HIDE DEF a, b
  <2>4. Knows(m2, w, FALSE, "dir") <=> "movedDir" \in ws2 /\ "createdDir" \notin ws2
    BY <1>1, <1>2, <1>3, <1>6, <2>1, <2>2 DEF Moves
  <2>5. Knows(m2, w, FALSE, "file") <=> d.size > 0 /\ FileMoves(ws2) /\ "createdFile" \notin ws2
    BY <1>1, <1>2, <1>3, <1>6, <2>1, <2>2, <2>3 DEF Moves
  <2>6. Moves(d, ws2, m2, w)
    BY <1>2, <1>3, <1>6, <2>1, <2>4, <2>5 DEF Moves
  <2> QED BY <1>8, <2>6 DEF Follows, Running
<1> QED BY <1>5, <1>7, <1>8 DEF GoodRecord, Place

\* Of a directory that is there, nothing is looked at.
LEMMA LookedAwayFollows ==
  ASSUME NEW d, GoodRecord(d), NEW m, NEW w, NEW r, NEW s, NEW ws, NEW ws2,
         Follows(d, ws, m, w, r, s), Out("modifiedDir", ws, ws2)
  PROVE  Follows(d, ws2, m, w, r, s)
<1>1. /\ ws2 \subseteq ws /\ "modifiedDir" \in ws
      /\ \A x \in ws : x = "modifiedDir" \/ x \in ws2
  BY DEF Out
<1>2. /\ "createdDir" \in ws2 <=> "createdDir" \in ws
      /\ "createdFile" \in ws2 <=> "createdFile" \in ws
      /\ "movedDir" \in ws2 <=> "movedDir" \in ws
      /\ FileMoves(ws2) <=> FileMoves(ws)
      /\ "movedFile" \in ws2 <=> "movedFile" \in ws
      /\ "modifiedFile" \in ws2 <=> "modifiedFile" \in ws
  BY <1>1 DEF FileMoves
<1>3. d.place # "none" /\ d.place # "removed"
  <2>1. ws \subseteq Kind
    BY DEF Out
  <2> QED BY <1>1, <2>1, RankIs, FollowsBounds DEF Running
<1>4. d.place \in Running => Grows(d, ws2, m, w, s)
  BY <1>1, <1>2 DEF Follows, Grows
<1>5. d.place = "finished" => Moves(d, ws2, m, w)
  BY <1>1, <1>2 DEF Follows, Moves
<1> QED BY <1>3, <1>4, <1>5 DEF Follows

\* News of the renaming of the directory: the old path is known, and the new one takes
\* its place.
LEMMA MovedDirFollows ==
  ASSUME NEW d, GoodRecord(d), NEW m, NEW m2, NEW w, NEW r, NEW s, NEW ws, NEW ws2,
         Follows(d, ws, m, w, r, s), Out("movedDir", ws, ws2),
         m2 = Pushed(Popped(m, At(w, FALSE, "dir")), At(w, TRUE, "dir"), SizeOf(d, TRUE, "dir"))
  PROVE  Knows(m, w, FALSE, "dir") /\ Follows(d, ws2, m2, w, r, s)
<1>1. /\ ws2 \subseteq ws /\ "movedDir" \in ws /\ "movedDir" \notin ws2 /\ ws \subseteq Kind
      /\ \A x \in ws : x = "movedDir" \/ x \in ws2
      /\ \A x \in ws : x = "movedDir" \/ 4 < Rank[x]
  BY RankIs DEF Out, InOrder
<1>2. /\ "createdDir" \notin ws /\ "createdFile" \notin ws
      /\ FileMoves(ws2) <=> FileMoves(ws)
      /\ "movedFile" \in ws2 <=> "movedFile" \in ws
      /\ \A x \in ws2 : Rank[x] > 4
  BY <1>1, RankIs DEF FileMoves
<1>3. d.place = "finished"
  BY <1>1, RankIs, FollowsBounds
<1>4. Moves(d, ws, m, w)
  BY <1>3 DEF Follows
<1> DEFINE z == SizeOf(d, TRUE, "dir")
<1>5. z = 1
  BY <1>3 DEF SizeOf
<1> HIDE DEF z
<1> DEFINE h == Popped(m, At(w, FALSE, "dir"))
<1>6. /\ ~Knows(h, w, FALSE, "dir")
      /\ Knows(h, w, FALSE, "file") <=> Knows(m, w, FALSE, "file")
      /\ Knows(h, w, TRUE, "file") <=> Knows(m, w, TRUE, "file")
      /\ Knows(m, w, TRUE, "file") => h[At(w, TRUE, "file")] = m[At(w, TRUE, "file")]
  BY FourPaths, PoppedAt DEF Knows
<1> HIDE DEF h
<1>7. m2 = Pushed(h, At(w, TRUE, "dir"), z)
  BY DEF h, z
<1>8. /\ ~Knows(m2, w, FALSE, "dir") /\ Knows(m2, w, TRUE, "dir") /\ m2[At(w, TRUE, "dir")] = 1
      /\ Knows(m2, w, FALSE, "file") <=> Knows(m, w, FALSE, "file")
      /\ Knows(m2, w, TRUE, "file") <=> Knows(m, w, TRUE, "file")
      /\ Knows(m, w, TRUE, "file") => m2[At(w, TRUE, "file")] = m[At(w, TRUE, "file")]
  <2>1. At(w, TRUE, "dir") \in DOMAIN m2 /\ m2[At(w, TRUE, "dir")] = 1
    BY <1>5, <1>7 DEF Pushed
  <2>2. /\ Keeps(h, m2, At(w, FALSE, "dir")) /\ Keeps(h, m2, At(w, FALSE, "file"))
        /\ Keeps(h, m2, At(w, TRUE, "file"))
    BY <1>7, FourPaths, PushedAway
  <2> QED BY <1>6, <2>1, <2>2 DEF Keeps, Knows
<1>9. Moves(d, ws2, m2, w)
  <2>1. \A x \in ws2 : Rank[x] <= 5 /\ Rank[x] > 4 /\ Rank[x] \in 1 .. 8
    BY <1>1, <1>2, <1>4, RankNat DEF Moves
  <2>2. "createdFile" \notin ws2 /\ "createdDir" \notin ws2
    BY <1>1, <1>2
  <2>3. FileMoves(ws) <=> FileMoves(ws2)
    BY <1>2
  <2>4. /\ "movedFile" \in ws2 => d.size > 0
        /\ d.size > 0 => FileMoves(ws2)
        /\ Knows(m, w, FALSE, "file") <=> d.size > 0 /\ FileMoves(ws)
        /\ Knows(m, w, TRUE, "file") <=> d.size > 0 /\ ~FileMoves(ws)
        /\ Knows(m, w, TRUE, "file") => m[At(w, TRUE, "file")] = d.size
    BY <1>1, <1>2, <1>4 DEF Moves
  <2>5. \A x \in ws2 : ~(Rank[x] <= 3) /\ ~(Rank[x] \in {2, 3})
    BY <2>1
  <2> QED BY <1>1, <1>8, <2>1, <2>2, <2>3, <2>4, <2>5 DEF Moves
<1>10. Knows(m, w, FALSE, "dir")
  BY <1>1, <1>2, <1>4 DEF Moves
<1> QED BY <1>3, <1>9, <1>10 DEF Follows, Running

\* The same of the file in it.
LEMMA MovedFileFollows ==
  ASSUME NEW d, GoodRecord(d), NEW m, NEW m2, NEW w, NEW r, NEW s, NEW ws, NEW ws2,
         Follows(d, ws, m, w, r, s), Out("movedFile", ws, ws2),
         m2 = Pushed(Popped(m, At(w, FALSE, "file")), At(w, TRUE, "file"), SizeOf(d, TRUE, "file"))
  PROVE  Knows(m, w, FALSE, "file") /\ Follows(d, ws2, m2, w, r, s)
<1>1. /\ ws2 \subseteq ws /\ "movedFile" \in ws /\ "movedFile" \notin ws2 /\ ws \subseteq Kind
      /\ \A x \in ws : x = "movedFile" \/ x \in ws2
      /\ \A x \in ws : x = "movedFile" \/ 5 < Rank[x]
  BY RankIs DEF Out, InOrder
<1>2. /\ "createdDir" \notin ws /\ "createdFile" \notin ws /\ "movedDir" \notin ws
      /\ FileMoves(ws) /\ ~FileMoves(ws2)
      /\ "deletedFile" \in ws2 <=> "deletedFile" \in ws
      /\ "deletedDir" \in ws2 <=> "deletedDir" \in ws
      /\ \A x \in ws2 : Rank[x] > 5
  BY <1>1, RankIs DEF FileMoves
<1>3. d.place \in {"finished", "removed"}
  BY <1>1, RankIs, FollowsBounds
<1> DEFINE z == SizeOf(d, TRUE, "file")
           h == Popped(m, At(w, FALSE, "file"))
<1>4. d.place = "finished" => z = d.size
  BY DEF SizeOf
<1> HIDE DEF z
<1>5. /\ ~Knows(h, w, FALSE, "file")
      /\ Knows(h, w, FALSE, "dir") <=> Knows(m, w, FALSE, "dir")
      /\ Knows(h, w, TRUE, "dir") <=> Knows(m, w, TRUE, "dir")
      /\ Knows(m, w, TRUE, "dir") => h[At(w, TRUE, "dir")] = m[At(w, TRUE, "dir")]
  BY FourPaths, PoppedAt DEF Knows
<1> HIDE DEF h
<1>6. m2 = Pushed(h, At(w, TRUE, "file"), z)
  BY DEF h, z
<1>7. /\ ~Knows(m2, w, FALSE, "file") /\ Knows(m2, w, TRUE, "file") /\ m2[At(w, TRUE, "file")] = z
      /\ Knows(m2, w, FALSE, "dir") <=> Knows(m, w, FALSE, "dir")
      /\ Knows(m2, w, TRUE, "dir") <=> Knows(m, w, TRUE, "dir")
      /\ Knows(m, w, TRUE, "dir") => m2[At(w, TRUE, "dir")] = m[At(w, TRUE, "dir")]
  <2>1. At(w, TRUE, "file") \in DOMAIN m2 /\ m2[At(w, TRUE, "file")] = z
    BY <1>6 DEF Pushed
  <2>2. /\ Keeps(h, m2, At(w, FALSE, "dir")) /\ Keeps(h, m2, At(w, FALSE, "file"))
        /\ Keeps(h, m2, At(w, TRUE, "dir"))
    BY <1>6, FourPaths, PushedAway
  <2> QED BY <1>5, <2>1, <2>2 DEF Keeps, Knows
<1>8. CASE d.place = "finished"
  <2>1. Moves(d, ws, m, w)
    BY <1>8 DEF Follows
  <2>2. Moves(d, ws2, m2, w)
    BY <1>1, <1>2, <1>4, <1>7, <1>8, <2>1 DEF Moves
  <2>3. Knows(m, w, FALSE, "file")
    BY <1>1, <1>2, <2>1 DEF Moves
  <2> QED BY <1>8, <2>2, <2>3 DEF Follows, Running
<1>9. CASE d.place = "removed"
  <2>1. Vanishes(ws, m, w, r)
    BY <1>9 DEF Follows
  <2>2. Vanishes(ws2, m2, w, r)
    BY <1>1, <1>2, <1>7, <2>1 DEF Vanishes
  <2>3. Knows(m, w, FALSE, "file")
    BY <1>1, <1>2, <2>1 DEF Vanishes
  <2> QED BY <1>9, <2>2, <2>3 DEF Follows, Running
<1> QED BY <1>3, <1>8, <1>9

\* The directory of the task was removed if one of these is the first.
LEMMA OutLate ==
  ASSUME NEW d, GoodRecord(d), NEW m, NEW w, NEW r, NEW s, NEW ws, NEW ws2,
         Follows(d, ws, m, w, r, s),
         NEW k \in {"deletedFile", "modifiedLater", "deletedDir"}, Out(k, ws, ws2)
  PROVE  /\ d.place = "removed" /\ Vanishes(ws, m, w, r)
         /\ ws2 \subseteq ws /\ k \in ws /\ k \notin ws2 /\ ~FileMoves(ws) /\ ~FileMoves(ws2)
         /\ \A x \in ws : x = k \/ x \in ws2
         /\ \A x \in ws : x = k \/ Rank[k] < Rank[x]
<1>1. /\ ws2 \subseteq ws /\ k \in ws /\ k \notin ws2 /\ \A x \in ws : x = k \/ x \in ws2
      /\ Rank[k] >= 6 /\ \A x \in ws : x = k \/ Rank[k] < Rank[x]
  BY RankIs DEF Out, InOrder
<1>2. ~FileMoves(ws) /\ ~FileMoves(ws2)
  BY <1>1, RankIs DEF FileMoves
<1>3. d.place = "removed"
  <2>1. ws \subseteq Kind
    BY DEF Out
  <2> QED BY <1>1, <2>1, FollowsBounds
<1> QED BY <1>1, <1>2, <1>3 DEF Follows

\* News of the removal of the file, when its path is known.
LEMMA DeletedFileFollows ==
  ASSUME NEW d, GoodRecord(d), NEW m, NEW m2, NEW w, NEW r, NEW s, NEW ws, NEW ws2,
         Follows(d, ws, m, w, r, s), Out("deletedFile", ws, ws2),
         m2 = Popped(m, At(w, TRUE, "file"))
  PROVE  Knows(m, w, TRUE, "file") => Follows(d, ws2, m2, w, r, s)
<1>1. /\ d.place = "removed" /\ Vanishes(ws, m, w, r)
      /\ ws2 \subseteq ws /\ "deletedFile" \in ws /\ "deletedFile" \notin ws2
      /\ ~FileMoves(ws) /\ ~FileMoves(ws2)
      /\ \A x \in ws : x = "deletedFile" \/ x \in ws2
  BY OutLate
<1>2. "deletedDir" \in ws2 <=> "deletedDir" \in ws
  BY <1>1
<1>3. CASE Knows(m, w, TRUE, "file")
  <2>1. /\ ~Knows(m2, w, TRUE, "file")
        /\ Knows(m2, w, FALSE, "dir") <=> Knows(m, w, FALSE, "dir")
        /\ Knows(m2, w, TRUE, "dir") <=> Knows(m, w, TRUE, "dir")
        /\ Knows(m2, w, FALSE, "file") <=> Knows(m, w, FALSE, "file")
    BY FourPaths, PoppedAt DEF Knows
  <2>3. Vanishes(ws2, m2, w, r)
    BY <1>1, <1>2, <1>3, <2>1 DEF Vanishes, FileMoves
  <2> QED BY <1>1, <1>3, <2>3 DEF Follows, Running
<1> QED BY <1>3

\* News of the directory that the file was removed from: it has gone as well, but its
\* own removal is still to be told.
LEMMA ModifiedLaterFollows ==
  ASSUME NEW d, GoodRecord(d), NEW m, NEW m2, NEW w, NEW r, NEW s, NEW ws, NEW ws2,
         Follows(d, ws, m, w, r, s), Out("modifiedLater", ws, ws2),
         NEW z, m2 = Pushed(m, At(w, TRUE, "dir"), z)
  PROVE  d.place = "removed" /\ Knows(m, w, TRUE, "dir") /\ Follows(d, ws2, m2, w, r, s)
<1>1. /\ d.place = "removed" /\ Vanishes(ws, m, w, r)
      /\ ws2 \subseteq ws /\ "modifiedLater" \in ws /\ "modifiedLater" \notin ws2
      /\ ~FileMoves(ws) /\ ~FileMoves(ws2)
      /\ \A x \in ws : x = "modifiedLater" \/ x \in ws2
  BY OutLate
<1>2. /\ "deletedDir" \in ws2 <=> "deletedDir" \in ws
      /\ "deletedFile" \in ws2 <=> "deletedFile" \in ws
  BY <1>1
<1>3. Knows(m, w, TRUE, "dir")
  BY <1>1 DEF Vanishes
<1>4. /\ Knows(m2, w, TRUE, "dir")
      /\ Knows(m2, w, FALSE, "dir") <=> Knows(m, w, FALSE, "dir")
      /\ Knows(m2, w, TRUE, "file") <=> Knows(m, w, TRUE, "file")
      /\ Knows(m2, w, FALSE, "file") <=> Knows(m, w, FALSE, "file")
  <2>1. /\ Keeps(m, m2, At(w, FALSE, "dir")) /\ Keeps(m, m2, At(w, FALSE, "file"))
        /\ Keeps(m, m2, At(w, TRUE, "file"))
    BY FourPaths, PushedAway
  <2> QED BY <2>1 DEF Keeps, Knows, Pushed
<1>5. Vanishes(ws2, m2, w, r)
  BY <1>1, <1>2, <1>3, <1>4 DEF Vanishes, FileMoves
<1> QED BY <1>1, <1>3, <1>5 DEF Follows, Running

\* News of the removal of the directory: its path is known.
LEMMA DeletedDirFollows ==
  ASSUME NEW d, GoodRecord(d), NEW m, NEW m2, NEW w, NEW r, NEW s, NEW ws, NEW ws2,
         Follows(d, ws, m, w, r, s), Out("deletedDir", ws, ws2),
         m2 = Popped(m, At(w, TRUE, "dir"))
  PROVE  Knows(m, w, TRUE, "dir") /\ Follows(d, ws2, m2, w, r, s)
<1>1. /\ d.place = "removed" /\ Vanishes(ws, m, w, r)
      /\ ws2 \subseteq ws /\ "deletedDir" \in ws /\ "deletedDir" \notin ws2
      /\ \A x \in ws : x = "deletedDir" \/ Rank["deletedDir"] < Rank[x]
      /\ \A x \in ws : x = "deletedDir" \/ x \in ws2
  BY OutLate
<1>2. ws \subseteq Kind
  BY DEF Out
<1>3. ws = {"deletedDir"} /\ ws2 = {}
  <2>1. ASSUME NEW x \in ws, x # "deletedDir" PROVE FALSE
    BY <1>1, <1>2, <2>1, RankIs, RankNat
  <2> QED BY <1>1, <2>1
<1>4. /\ ~Knows(m2, w, TRUE, "dir")
      /\ Knows(m2, w, FALSE, "dir") <=> Knows(m, w, FALSE, "dir")
      /\ Knows(m2, w, TRUE, "file") <=> Knows(m, w, TRUE, "file")
      /\ Knows(m2, w, FALSE, "file") <=> Knows(m, w, FALSE, "file")
  BY FourPaths, PoppedAt DEF Knows
<1>5. Knows(m, w, TRUE, "dir") /\ Vanishes(ws2, m2, w, r)
  BY <1>1, <1>3, <1>4 DEF Vanishes
<1> QED BY <1>1, <1>5 DEF Follows, Running

-----------------------------------------------------------------------------
(* Storage: clearing.                                                      *)

\* Nothing known adds up to nothing.
LEMMA PartPositive ==
  ASSUME NEW m, Metadatas(m), NEW X, Part(m, X) > 0
  PROVE  \E p \in DOMAIN m : p \in X
<1> SUFFICES ASSUME DOMAIN m \cap X = {} PROVE FALSE
  OBVIOUS
<1>1. IsFiniteSet({})
  BY FS_EmptySet
<1>2. SumFunctionOnSet(m, {}) = 0
  BY <1>1, SumZero
<1> QED BY <1>2 DEF Part

\* A part is not more than the total.
LEMMA PartWithin ==
  ASSUME NEW m, Metadatas(m), NEW X PROVE Part(m, X) <= TotalSize(m)
<1>1. Part(m, Path) = Part(m, Path \cap X) + Part(m, Path \ X)
  BY PartSplit
<1>2. Part(m, Path \cap X) = Part(m, X)
  <2>1. DOMAIN m \cap (Path \cap X) = DOMAIN m \cap X
    BY DEF Metadatas
  <2> QED BY <2>1 DEF Part
<1>3. Part(m, Path \ X) \in Nat /\ Part(m, X) \in Nat
  BY KnownFinite
<1> QED BY <1>1, <1>2, <1>3, PartTotal

\* Nor are two parts together that have nothing in common.
LEMMA PartApart ==
  ASSUME NEW m, Metadatas(m), NEW X, NEW Y, DOMAIN m \cap (X \cap Y) = {}
  PROVE  Part(m, X) + Part(m, Y) <= TotalSize(m)
<1> DEFINE Z == X \cup Y
<1>2. DOMAIN m \cap (Z \cap X) = DOMAIN m \cap X /\ DOMAIN m \cap (Z \ X) = DOMAIN m \cap Y
  OBVIOUS
<1> HIDE DEF Z
<1>1. Part(m, Z) = Part(m, Z \cap X) + Part(m, Z \ X)
  BY PartSplit
<1>3. Part(m, Z \cap X) = Part(m, X) /\ Part(m, Z \ X) = Part(m, Y)
  BY <1>2 DEF Part
<1>4. Part(m, Z) <= TotalSize(m)
  BY PartWithin
<1> QED BY <1>1, <1>3, <1>4

\* When what is to be cleared is removed, enough is; and when _clear_files says that it
\* is done, less than healthy_size is left.
LEMMA ClearingSuffices ==
  ASSUME NEW m, Metadatas(m), NEW o, IsOrder(o, Names(m)), NEW dk,
         \A p \in DOMAIN m : p.name \in Cleared(m, o, TotalSize(m) - healthy_size) =>
            dk[p.name.task].place = "removed"
  PROVE  /\ EnoughCleared(m, dk)
         /\ IsDone(m, o, TotalSize(m) - healthy_size) =>
              /\ Part(m, Standing(dk)) < healthy_size
              /\ TotalSize(m) > alarm_size =>
                   \E p \in DOMAIN m : p.name \in Cleared(m, o, TotalSize(m) - healthy_size)
<1> DEFINE b == TotalSize(m) - healthy_size
           D == Cleared(m, o, b)
           C == {p \in Path : p.name \in D}
           S == Standing(dk)
<1>1. TotalSize(m) \in Nat /\ healthy_size \in Nat /\ alarm_size \in Nat
      /\ healthy_size <= alarm_size
  <2>1. TotalSize(m) = Part(m, Path) /\ Part(m, Path) \in Nat
    BY PartTotal, KnownFinite
  <2>2. alarm_size \in Nat /\ healthy_size \in Nat /\ healthy_size <= alarm_size
    BY StorageAssumption
  <2> QED BY <2>1, <2>2
<1>2. b \in Int
  BY <1>1
<1>3. DOMAIN m \subseteq Path
  BY DEF Metadatas
<1> HIDE DEF b
<1>4. /\ \A n \in D : n \in Names(m) /\ n \in Name /\ n.finished
      /\ ~IsDone(m, o, b) => \A n \in Names(m) : n.finished => n \in D
      /\ IsDone(m, o, b) => Part(m, C) > b
  BY <1>2, ClearedAre
<1>5. \A p \in DOMAIN m : p.name \in D => dk[p.name.task].place = "removed"
  BY DEF b
<1> HIDE DEF D
<1>6. ASSUME ~IsDone(m, o, b) PROVE EnoughCleared(m, dk)
  <2>1. \A p \in DOMAIN m : p.name \in Names(m)
    BY DEF Names
  <2> QED BY <1>4, <1>5, <1>6, <2>1 DEF EnoughCleared
<1>7. ASSUME IsDone(m, o, b)
      PROVE  Part(m, S) < healthy_size
             /\ (TotalSize(m) > alarm_size => \E p \in DOMAIN m : p.name \in D)
  <2> HIDE DEF S, C
  <2>1. Part(m, C) > b
    BY <1>4, <1>7
  <2>2. DOMAIN m \cap (C \cap S) = {}
    BY <1>3, <1>5 DEF Standing, S, C
  <2>3. Part(m, C) + Part(m, S) <= TotalSize(m)
    BY <2>2, PartApart
  <2>7. Part(m, S) \in Nat /\ Part(m, C) \in Nat
    BY KnownFinite
  <2>9. Part(m, S) < healthy_size
    BY <1>1, <2>1, <2>3, <2>7 DEF b
  <2>10. ASSUME TotalSize(m) > alarm_size PROVE \E p \in DOMAIN m : p.name \in D
    <3>1. Part(m, C) > 0
      BY <1>1, <2>1, <2>7, <2>10 DEF b
    <3> QED BY <3>1, PartPositive DEF C
  <2> QED BY <2>9, <2>10
<1>8. IsDone(m, o, b) => EnoughCleared(m, dk)
  <2>1. Part(m, S) \in Nat
    BY KnownFinite
  <2> QED BY <1>1, <1>7, <2>1 DEF EnoughCleared
<1> QED BY <1>6, <1>7, <1>8 DEF b, D

-----------------------------------------------------------------------------

\* A known path of a finished directory: it is there, or it was removed.
LEMMA FinishedKnown ==
  ASSUME NEW d, GoodRecord(d), NEW ws, NEW m, NEW w, NEW r, NEW s, Follows(d, ws, m, w, r, s),
         NEW a \in {"dir", "file"}, Knows(m, w, TRUE, a)
  PROVE  /\ d.place \in {"finished", "removed"}
         /\ d.place = "removed" => "deletedDir" \in ws \/ "deletedFile" \in ws
<1>1. d.place # "none"
  BY DEF Follows, Unborn
<1>2. d.place \notin Running
  BY DEF Follows, Grows
<1>3. d.place = "removed" => "deletedDir" \in ws \/ "deletedFile" \in ws
  BY DEF Follows, Vanishes
<1> QED BY <1>1, <1>2, <1>3 DEF GoodRecord, Place

\* The directory of a finished task is there and is known by its new name: what may be
\* waiting is of the file in it.
LEMMA FinishedMoves ==
  ASSUME NEW d, GoodRecord(d), d.place = "finished", NEW ws, ws \subseteq Kind, NEW m, NEW w, NEW r,
         NEW s,
         Follows(d, ws, m, w, r, s), NEW a \in {"dir", "file"}, Knows(m, w, TRUE, a)
  PROVE  /\ \A x \in ws : Rank[x] = 5
         /\ "movedFile" \in ws => d.size > 0
         /\ ~Knows(m, w, FALSE, "dir") /\ Knows(m, w, TRUE, "dir")
         /\ Knows(m, w, FALSE, "file") <=> d.size > 0 /\ FileMoves(ws)
         /\ Knows(m, w, TRUE, "file") <=> d.size > 0 /\ ~FileMoves(ws)
<1>1. Moves(d, ws, m, w)
  BY DEF Follows
<1>2. d.size \in Nat
  BY DEF GoodRecord
<1>3. "movedDir" \notin ws
  BY <1>1, <1>2 DEF Moves
<1>4. \A x \in ws : Rank[x] = 5
  <2>1. \A x \in ws :
          x \in Kind /\ Rank[x] \in 1 .. 8 /\ Rank[x] <= 5 /\ ~(Rank[x] <= 3) /\ x # "movedDir"
    BY <1>1, <1>3, RankNat DEF Moves
  <2>2. \A x \in Kind : Rank[x] = 4 => x = "movedDir"
    BY RankIs, Kinds
  <2> QED BY <2>1, <2>2
<1>5. "createdFile" \notin ws
  BY <1>4, RankIs
<1>6. /\ "movedFile" \in ws => d.size > 0
      /\ ~Knows(m, w, FALSE, "dir") /\ Knows(m, w, TRUE, "dir")
      /\ Knows(m, w, FALSE, "file") <=> d.size > 0 /\ FileMoves(ws)
      /\ Knows(m, w, TRUE, "file") <=> d.size > 0 /\ ~FileMoves(ws)
  BY <1>1, <1>3, <1>5 DEF Moves
<1> QED BY <1>4, <1>6

\* Then the removal is told after all of that, and the monitor follows it.
LEMMA RemovedVanishes ==
  ASSUME NEW m, NEW w, NEW ws, NEW ks, NEW r, NEW size,
         ks = {"deletedDir"} \cup (IF size > 0 THEN {"deletedFile", "modifiedLater"} ELSE {}),
         \A x \in ws : Rank[x] = 5, "movedFile" \in ws => size > 0, "walk" \in ws => r,
         ~Knows(m, w, FALSE, "dir"), Knows(m, w, TRUE, "dir"),
         Knows(m, w, FALSE, "file") <=> size > 0 /\ FileMoves(ws),
         Knows(m, w, TRUE, "file") <=> size > 0 /\ ~FileMoves(ws)
  PROVE  (\A x \in ws, y \in ks : InOrder(x, y)) /\ Vanishes(ws \cup ks, m, w, r)
<1>1. \A y \in ks : Rank[y] >= 6 /\ Rank[y] \in 1 .. 8
  BY RankIs
<1>2. \A x \in ws, y \in ks : InOrder(x, y)
  BY <1>1 DEF InOrder
<1>3. /\ \A x \in ws \cup ks : Rank[x] >= 5
      /\ "deletedDir" \in ws \cup ks
      /\ "deletedFile" \in ws \cup ks <=> size > 0
      /\ FileMoves(ws \cup ks) <=> FileMoves(ws)
      /\ "walk" \in ws \cup ks => r
      /\ "movedFile" \in ws \cup ks <=> "movedFile" \in ws
  BY <1>1, RankIs DEF FileMoves
<1>4. Vanishes(ws \cup ks, m, w, r)
  BY <1>3 DEF Vanishes
<1> QED BY <1>2, <1>4

\* Every task has a record with a place and a size that fit.
LEMMA DiskRecord ==
  ASSUME SMTypes, NEW w \in Task PROVE GoodRecord(disk[w]) /\ disk[w].size \in 0 .. MaxSize
BY StorageAssumption DEF SMTypes, GoodRecord

\* What holds when the metadata have been brought up to the event, and before the monitor judges.
Midway(m, o, rest, moved, delta) ==
  /\ rest \in Seq(Tidings) /\ Sorted(rest) /\ Metadatas(m) /\ IsOrder(o, Names(m)) /\ delta \in Int
  /\ TotalSize(m) = occupied_size + delta
  /\ EnoughCleared(m, disk) \/ delta > 0 \/ moved
  /\ \A w \in Task : Follows(disk[w], Waiting(rest, w), m, w, raced, missed)

\* A directory of a finished task that is known is there, or its removal is still to be
\* told.
LEMMA KnownDirectory ==
  ASSUME SMTypes, NEW m, NEW o, NEW rest, NEW moved, NEW delta, Midway(m, o, rest, moved, delta),
         NEW n \in Names(m), n.finished
  PROVE  /\ n \in Name /\ n.task \in Task /\ \E a \in {"dir", "file"} : Knows(m, n.task, TRUE, a)
         /\ Exists(n) <=> disk[n.task].place = "finished"
         /\ disk[n.task].place \in {"finished", "removed"}
         /\ disk[n.task].place = "removed" =>
              "deletedDir" \in Waiting(rest, n.task) \/ "deletedFile" \in Waiting(rest, n.task)
<1>1. PICK p \in DOMAIN m : n = p.name
  BY DEF Names
<1>2. p \in Path
  BY DEF Midway, Metadatas
<1>3. p = At(n.task, TRUE, p.node) /\ n.task \in Task /\ n \in Name /\ p.node \in {"dir", "file"}
  BY <1>1, <1>2, PathAt DEF Name
<1>4. Knows(m, n.task, TRUE, p.node)
  BY <1>3 DEF Knows
<1>5. Follows(disk[n.task], Waiting(rest, n.task), m, n.task, raced, missed)
      /\ GoodRecord(disk[n.task])
  BY <1>3, DiskRecord DEF Midway
<1>6. /\ disk[n.task].place \in {"finished", "removed"}
      /\ disk[n.task].place = "removed" =>
           "deletedDir" \in Waiting(rest, n.task) \/ "deletedFile" \in Waiting(rest, n.task)
  BY <1>3, <1>4, <1>5, FinishedKnown
<1>7. Exists(n) <=> disk[n.task].place = "finished"
  <2>1. n = [task |-> n.task, finished |-> n.finished]
    BY <1>3 DEF Name
  <2> QED BY <1>6, <2>1 DEF Exists, Present, NameOf, Running
<1> QED BY <1>3, <1>4, <1>6, <1>7

\* Nothing is cleared: the invariant holds after the event.
LEMMA NotTriggered ==
  ASSUME SMTypes, phase = "on", NEW m, NEW o, NEW moved \in BOOLEAN, NEW delta,
         Midway(m, o, Tail(pending), moved, delta), Handled(m, o, moved, delta),
         ~Triggered(moved, occupied_size + delta, delta)
  PROVE  StorageInv'
<1> DEFINE rest == Tail(pending)
<1>1. /\ phase' = "on" /\ metadatas' = m /\ order' = o /\ occupied_size' = TotalSize(m)
      /\ quiet' = FALSE /\ missed' = missed /\ disk' = disk /\ raced' = raced /\ pending' = rest
      /\ is_storage_sufficient' = (TotalSize(m) <= quota)
  BY DEF Handled, JudgeAndClear, Midway
<1> HIDE DEF rest
<1>2. /\ rest \in Seq(Tidings) /\ Sorted(rest) /\ Metadatas(m) /\ IsOrder(o, Names(m))
      /\ \A w \in Task : Follows(disk[w], Waiting(rest, w), m, w, raced, missed)
  BY DEF Midway, rest
<1>3. TotalSize(m) \in Nat
  BY <1>2, PartTotal, KnownFinite
<1>4. EnoughCleared(m, disk)
  <2>1. CASE TotalSize(m) <= alarm_size
    <3>1. Part(m, Standing(disk)) <= TotalSize(m) /\ Part(m, Standing(disk)) \in Nat
      BY <1>2, PartWithin, KnownFinite
    <3> QED BY <1>3, <2>1, <3>1, StorageAssumption DEF EnoughCleared
  <2>2. CASE TotalSize(m) > alarm_size
    BY <2>2 DEF Midway, Triggered
  <2> QED BY <1>3, <2>1, <2>2, StorageAssumption
<1>5. FlagFits(TotalSize(m) <= quota, TotalSize(m), FALSE)
  BY <1>3, StorageAssumption DEF FlagFits
<1>6. SMTypes'
  <2>1. (TotalSize(m) <= quota) \in BOOLEAN
    BY <1>3, StorageAssumption
  <2> QED BY <1>1, <1>2, <2>1 DEF SMTypes
<1>7. PhaseInv'
  BY <1>1 DEF PhaseInv
<1>8. KnowsInv'
  BY <1>1, <1>2, <1>4, <1>5 DEF KnowsInv
<1> QED BY <1>1, <1>2, <1>6, <1>7, <1>8 DEF StorageInv

\* What is left on the disk by shutil.rmtree.
LEMMA RmtreeTypes ==
  ASSUME SMTypes, NEW ws
  PROVE  /\ Rmtree(ws) \in [Task -> [place : Place, size : 0 .. MaxSize]]
         /\ \A w \in Task : Rmtree(ws)[w].place \in {"none", "removed"} => Rmtree(ws)[w].size = 0
         /\ \A w \in Task : Rmtree(ws)[w] = IF w \in ws
              THEN [place |-> "removed", size |-> 0] ELSE disk[w]
<1>1. 0 \in 0 .. MaxSize /\ "removed" \in Place
  BY StorageAssumption DEF Place
<1> QED BY <1>1 DEF SMTypes, Rmtree

\* The directories of finished tasks D are removed, and the monitor still follows every
\* task.
LEMMA ClearedFollow ==
  ASSUME SMTypes, NEW m, NEW o, NEW rest, NEW moved, NEW delta, Midway(m, o, rest, moved, delta),
         NEW D, \A n \in D : n \in Names(m) /\ n.finished,
         NEW r, r = (raced \/ Walks(rest, Removed(D)))
  PROVE  /\ rest \o DeletionsInOrder(o, D) \in Seq(Tidings)
         /\ Sorted(rest \o DeletionsInOrder(o, D))
         /\ Range(rest \o DeletionsInOrder(o, D)) = Range(rest) \cup Range(DeletionsInOrder(o, D))
         /\ \A w \in Task :
              Follows(Rmtree(Removed(D))[w], Waiting(rest \o DeletionsInOrder(o, D), w), m, w, r, missed)
         /\ \A w \in Removed(D) : "deletedDir" \in Waiting(rest \o DeletionsInOrder(o, D), w)
         /\ \A w \in Removed(D) : w \in Task
<1> DEFINE t == DeletionsInOrder(o, D)
           R == Removed(D)
<1>1. /\ rest \in Seq(Tidings) /\ Sorted(rest) /\ IsOrder(o, Names(m))
      /\ \A w \in Task : Follows(disk[w], Waiting(rest, w), m, w, raced, missed)
  BY DEF Midway
<1>2. o \in Seq(Name) /\ Range(o) = Names(m) /\ \A i, j \in DOMAIN o : o[i] = o[j] => i = j
  BY <1>1 DEF IsOrder
<1>3. \A w : w \in R <=> w \in Task /\ \E n \in D : Exists(n) /\ w = n.task
  BY DEF Removed
<1>4. /\ t \in Seq(Tidings) /\ Sorted(t)
      /\ \A v : Waiting(t, v) = IF \E n \in D \cap Range(o) : Exists(n) /\ v = n.task
           THEN DeletedKinds(v) ELSE {}
  <2>1. \A n \in D : n.finished
    OBVIOUS
  <2> QED BY <1>2, <2>1, DeletionsInOrderTold
<1> HIDE DEF t, R
<1>5. D \cap Range(o) = D
  BY <1>2
<1>6. \A v \in Task : Waiting(t, v) = IF v \in R THEN DeletedKinds(v) ELSE {}
  BY <1>3, <1>4, <1>5
<1>7. ASSUME NEW w \in R
      PROVE  /\ w \in Task /\ disk[w].place = "finished"
             /\ \E a \in {"dir", "file"} : Knows(m, w, TRUE, a)
  <2>1. PICK n \in D : Exists(n) /\ w = n.task
    BY <1>3
  <2>2. n \in Names(m) /\ n.finished
    OBVIOUS
  <2> QED BY <2>1, <2>2, KnownDirectory
<1>8. ASSUME NEW w \in R, "walk" \in Waiting(rest, w) PROVE Walks(rest, R)
  <2>1. Of("walk", w) \in Range(rest)
    BY <1>8 DEF Waiting
  <2>2. PICK i \in DOMAIN rest : rest[i] = Of("walk", w)
    BY <1>1, <2>1, RangeIs
  <2>3. rest[i].type = "walk" /\ rest[i].path.name.task = w
    BY <2>2 DEF Of, At
  <2> QED BY <2>3 DEF Walks
<1>9. ASSUME NEW w \in R
      PROVE  /\ \A x \in Waiting(rest, w), y \in DeletedKinds(w) : InOrder(x, y)
             /\ Vanishes(Waiting(rest, w) \cup DeletedKinds(w), m, w, r)
  <2>1. GoodRecord(disk[w]) /\ disk[w].place = "finished" /\ w \in Task
    BY <1>7, DiskRecord
  <2>2. PICK a \in {"dir", "file"} : Knows(m, w, TRUE, a)
    BY <1>7
  <2>3. Follows(disk[w], Waiting(rest, w), m, w, raced, missed)
    BY <1>1, <2>1
  <2>4. raced => r
    OBVIOUS
  <2>5. "walk" \in Waiting(rest, w) => r
    BY <1>8 DEF R
  <2>6. DeletedKinds(w) = {"deletedDir"}
          \cup (IF disk[w].size > 0 THEN {"deletedFile", "modifiedLater"} ELSE {})
    BY DEF DeletedKinds, HasFile
  <2>7. Waiting(rest, w) \subseteq Kind
    BY DEF Waiting
  <2> DEFINE d == disk[w]
             ws == Waiting(rest, w)
             ks == DeletedKinds(w)
  <2>8. /\ GoodRecord(d) /\ d.place = "finished" /\ ws \subseteq Kind
        /\ Follows(d, ws, m, w, raced, missed) /\ ("walk" \in ws => r)
        /\ ks = {"deletedDir"} \cup (IF d.size > 0 THEN {"deletedFile", "modifiedLater"} ELSE {})
    BY <2>1, <2>3, <2>5, <2>6, <2>7
  <2> HIDE DEF d, ws, ks
  <2>9. /\ \A x \in ws : Rank[x] = 5
        /\ "movedFile" \in ws => d.size > 0
        /\ ~Knows(m, w, FALSE, "dir") /\ Knows(m, w, TRUE, "dir")
        /\ Knows(m, w, FALSE, "file") <=> d.size > 0 /\ FileMoves(ws)
        /\ Knows(m, w, TRUE, "file") <=> d.size > 0 /\ ~FileMoves(ws)
    BY <2>2, <2>8, FinishedMoves
  <2>10. (\A x \in ws, y \in ks : InOrder(x, y)) /\ Vanishes(ws \cup ks, m, w, r)
    BY <2>8, <2>9, RemovedVanishes
  <2> QED BY <2>10 DEF ws, ks
<1>10. \A w \in Task : \A k1 \in Waiting(rest, w), k2 \in Waiting(t, w) : InOrder(k1, k2)
  BY <1>6, <1>9
<1>11. /\ rest \o t \in Seq(Tidings) /\ Sorted(rest \o t)
       /\ Range(rest \o t) = Range(rest) \cup Range(t)
       /\ \A w : Waiting(rest \o t, w) = Waiting(rest, w) \cup Waiting(t, w)
  BY <1>1, <1>4, <1>10, MoreTold
<1>12. ASSUME NEW w \in Task
       PROVE  Follows(Rmtree(R)[w], Waiting(rest \o t, w), m, w, r, missed)
  <2>1. CASE w \in R
    <3>1. Waiting(rest \o t, w) = Waiting(rest, w) \cup DeletedKinds(w)
      BY <1>6, <1>11, <2>1
    <3>2. Rmtree(R)[w].place = "removed"
      BY <2>1, RmtreeTypes
    <3> QED BY <1>9, <2>1, <3>1, <3>2 DEF Follows, Running
  <2>2. CASE w \notin R
    <3>1. Waiting(rest \o t, w) = Waiting(rest, w)
      BY <1>6, <1>11, <2>2
    <3>2. Rmtree(R)[w] = disk[w]
      BY <2>2, RmtreeTypes
    <3>3. Follows(disk[w], Waiting(rest, w), m, w, raced, missed)
      BY <1>1
    <3>4. raced => r
      OBVIOUS
    <3> QED BY <3>1, <3>2, <3>3, <3>4, SameSelf, FollowsSame
  <2> QED BY <2>1, <2>2
<1>13. \A w \in R : "deletedDir" \in Waiting(rest \o t, w) /\ w \in Task
  BY <1>6, <1>7, <1>11 DEF DeletedKinds
<1> QED BY <1>11, <1>12, <1>13 DEF t, R

\* When only looks of watchdog are left, nothing else is waiting of a task.
LEMMA WalksOnly ==
  ASSUME NEW es, OnlyWalks(es), NEW w, NEW k \in Waiting(es, w) PROVE k = "walk"
<1>1. k \in Kind /\ Of(k, w).type = "walk"
  BY DEF OnlyWalks, Waiting
<1>2. KindType[k] = "walk"
  BY <1>1, OfParts
<1> QED BY <1>1, <1>2, Kinds DEF KindType

\* Something is cleared: the invariant holds after the event.
LEMMA WhenTriggered ==
  ASSUME SMTypes, phase = "on", NEW m, NEW o, NEW moved \in BOOLEAN, NEW delta,
         Midway(m, o, Tail(pending), moved, delta), Handled(m, o, moved, delta),
         Triggered(moved, occupied_size + delta, delta)
  PROVE  StorageInv'
<1> DEFINE rest == Tail(pending)
           b == TotalSize(m) - healthy_size
           D == Cleared(m, o, b)
           t == DeletionsInOrder(o, D)
<1>1. /\ phase' = "on" /\ metadatas' = m /\ order' = o /\ occupied_size' = TotalSize(m)
      /\ quiet' = FALSE /\ missed' = missed /\ disk' = Rmtree(Removed(D))
      /\ raced' = (raced \/ Walks(rest, Removed(D)))
      /\ pending' = rest \o t
      /\ is_storage_sufficient' = IsDone(m, o, b)
  BY DEF Handled, JudgeAndClear, Midway
<1>2. /\ rest \in Seq(Tidings) /\ Sorted(rest) /\ Metadatas(m) /\ IsOrder(o, Names(m))
      /\ \A w \in Task : Follows(disk[w], Waiting(rest, w), m, w, raced, missed)
      /\ TotalSize(m) > alarm_size
  BY DEF Midway, Triggered
<1>3. TotalSize(m) \in Nat /\ b \in Int
  <2>1. TotalSize(m) \in Nat
    BY <1>2, PartTotal, KnownFinite
  <2> QED BY <2>1, StorageAssumption
<1>4. \A n \in D : n \in Names(m) /\ n.finished
  <2> HIDE DEF b
  <2> QED BY <1>2, <1>3, ClearedAre
<1> HIDE DEF D
<1>5. Midway(m, o, rest, moved, delta)
  OBVIOUS
<1> HIDE DEF rest, b
<1> DEFINE r == raced \/ Walks(rest, Removed(D))
<1>6. /\ rest \o t \in Seq(Tidings) /\ Sorted(rest \o t)
      /\ Range(rest \o t) = Range(rest) \cup Range(t)
      /\ \A w \in Task : Follows(Rmtree(Removed(D))[w], Waiting(rest \o t, w), m, w, r, missed)
      /\ \A w \in Removed(D) : "deletedDir" \in Waiting(rest \o t, w)
      /\ \A w \in Removed(D) : w \in Task
  <2> HIDE DEF r
  <2>1. r = (raced \/ Walks(rest, Removed(D)))
    BY DEF r
  <2> QED BY <1>4, <1>5, <2>1, ClearedFollow
<1> HIDE DEF t
<1>7. ASSUME NEW p \in DOMAIN m, p.name \in D
      PROVE  /\ p.name.task \in Task /\ Rmtree(Removed(D))[p.name.task].place = "removed"
             /\ \/ p.name.task \in Removed(D)
                \/ "deletedDir" \in Waiting(rest, p.name.task)
                \/ "deletedFile" \in Waiting(rest, p.name.task)
  <2> DEFINE n == p.name
  <2>1. n \in Names(m) /\ n.finished
    BY <1>4, <1>7
  <2>2. /\ n \in Name /\ n.task \in Task
        /\ Exists(n) <=> disk[n.task].place = "finished"
        /\ disk[n.task].place \in {"finished", "removed"}
        /\ disk[n.task].place = "removed" =>
             "deletedDir" \in Waiting(rest, n.task) \/ "deletedFile" \in Waiting(rest, n.task)
    <3> HIDE DEF n
    <3> QED BY <1>5, <2>1, KnownDirectory
  <2>3. Exists(n) => n.task \in Removed(D)
    BY <1>7, <2>2 DEF Removed
  <2>4. Rmtree(Removed(D))[n.task] = IF n.task \in Removed(D)
          THEN [place |-> "removed", size |-> 0] ELSE disk[n.task]
    BY <2>2, RmtreeTypes
  <2> QED BY <2>2, <2>3, <2>4
<1>8. /\ EnoughCleared(m, Rmtree(Removed(D)))
      /\ IsDone(m, o, b) => \E p \in DOMAIN m : p.name \in D
  <2>1. \A p \in DOMAIN m : p.name \in D => Rmtree(Removed(D))[p.name.task].place = "removed"
    BY <1>7
  <2> QED BY <1>2, <2>1, ClearingSuffices DEF b, D
<1>9. ASSUME OnlyWalks(rest \o t) PROVE FlagFits(IsDone(m, o, b), TotalSize(m), FALSE)
  <2>1. ~IsDone(m, o, b)
    <3> SUFFICES ASSUME IsDone(m, o, b) PROVE FALSE
      OBVIOUS
    <3>1. PICK p \in DOMAIN m : p.name \in D
      BY <1>8
    <3>2. Waiting(rest, p.name.task) \subseteq Waiting(rest \o t, p.name.task)
      BY <1>6 DEF Waiting
    <3>3. "deletedDir" \in Waiting(rest \o t, p.name.task)
             \/ "deletedFile" \in Waiting(rest \o t, p.name.task)
      BY <1>6, <1>7, <3>1, <3>2
    <3> QED BY <1>9, <3>3, WalksOnly
  <2> QED BY <1>2, <2>1 DEF FlagFits
<1>10. SMTypes'
  <2>1. IsDone(m, o, b) \in BOOLEAN /\ r \in BOOLEAN
    BY DEF IsDone, SMTypes, Walks
  <2>2. disk' \in [Task -> [place : Place, size : 0 .. MaxSize]]
    BY <1>1, RmtreeTypes
  <2>3. \A w \in Task : disk'[w].place \in {"none", "removed"} => disk'[w].size = 0
    BY <1>1, RmtreeTypes
  <2>4. pending' \in Seq(Tidings) /\ is_storage_sufficient' \in BOOLEAN /\ raced' \in BOOLEAN
    BY <1>1, <1>6, <2>1
  <2>5. phase' \in {"initial", "started", "on", "dead"} /\ missed' \in BOOLEAN /\ quiet' \in BOOLEAN
    BY <1>1 DEF SMTypes
  <2> QED BY <2>2, <2>3, <2>4, <2>5 DEF SMTypes
<1>11. PhaseInv'
  BY <1>1 DEF PhaseInv
<1>12. KnowsInv'
  BY <1>1, <1>2, <1>6, <1>8, <1>9 DEF KnowsInv
<1> QED BY <1>1, <1>6, <1>10, <1>11, <1>12 DEF StorageInv

\* So it holds after every event that has brought the metadata up to date.
LEMMA HandledKeeps ==
  ASSUME SMTypes, phase = "on", NEW m, NEW o, NEW moved \in BOOLEAN, NEW delta,
         Midway(m, o, Tail(pending), moved, delta), Handled(m, o, moved, delta)
  PROVE  StorageInv'
BY NotTriggered, WhenTriggered

-----------------------------------------------------------------------------
(* Storage: the events of the monitor.                                     *)

\* The event that is handled next.
LEMMA FrontIs ==
  ASSUME StorageInv, NEW type, IsNext(type)
  PROVE  /\ phase = "on" /\ pending # <<>> /\ SMTypes /\ pending \in Seq(Tidings) /\ Sorted(pending)
         /\ Tail(pending) \in Seq(Tidings) /\ Sorted(Tail(pending))
         /\ type # "root" => \E k \in Kind, w \in Task :
              /\ Head(pending) = Of(k, w) /\ KindType[k] = type
              /\ Next = At(w, KindFinished[k], KindNode[k])
<1>1. phase = "on" /\ pending # <<>> /\ SMTypes /\ pending \in Seq(Tidings) /\ Sorted(pending)
  BY DEF IsNext, StorageInv, SMTypes
<1>2. /\ Tail(pending) \in Seq(Tidings) /\ Head(pending) \in Tidings
      /\ TakenOut(pending, 1, Tail(pending)) /\ 1 \in 1 .. Len(pending)
  BY <1>1, HeadOut
<1>3. Sorted(Tail(pending))
  BY <1>1, <1>2, TakenOutSorted
<1>4. Head(pending).type = type
  BY DEF IsNext
<1>5. ASSUME type # "root"
      PROVE  \E k \in Kind, w \in Task :
              /\ Head(pending) = Of(k, w) /\ KindType[k] = type
              /\ Next = At(w, KindFinished[k], KindNode[k])
  <2>1. Head(pending) # RootModified
    BY <1>4, <1>5 DEF RootModified
  <2>2. PICK k \in Kind, w \in Task : Head(pending) = Of(k, w)
    BY <1>2, <2>1, TidingIs
  <2>3. KindType[k] = type /\ Next = At(w, KindFinished[k], KindNode[k])
    BY <1>4, <2>2, OfParts DEF Next
  <2> QED BY <2>2, <2>3
<1> QED BY <1>1, <1>2, <1>3, <1>5

\* An event of a task is taken off: it is no longer waiting, and nothing else of any
\* task has changed.
LEMMA FrontOut ==
  ASSUME StorageInv, phase = "on", pending # <<>>, NEW k \in Kind, NEW w \in Task,
         Head(pending) = Of(k, w)
  PROVE  /\ Out(k, Waiting(pending, w), Waiting(Tail(pending), w))
         /\ \A v \in Task : v # w => Waiting(Tail(pending), v) = Waiting(pending, v)
<1>1. pending \in Seq(Tidings) /\ Sorted(pending)
  BY DEF StorageInv, SMTypes
<1>2. /\ Tail(pending) \in Seq(Tidings) /\ pending[1] = Of(k, w)
      /\ TakenOut(pending, 1, Tail(pending)) /\ 1 \in 1 .. Len(pending)
  BY <1>1, HeadOut
<1>3. /\ k \in Waiting(pending, w)
      /\ Waiting(Tail(pending), w) \subseteq Waiting(pending, w)
      /\ Waiting(pending, w) \ {k} \subseteq Waiting(Tail(pending), w)
      /\ k \in Waiting(Tail(pending), w) => Rank[k] = 3
      /\ \A v \in Task : v # w => Waiting(Tail(pending), v) = Waiting(pending, v)
  <2> DEFINE s == pending
             t == Tail(pending)
             i == 1
  <2>1. /\ s \in Seq(Tidings) /\ t \in Seq(Tidings) /\ i \in 1 .. Len(s) /\ TakenOut(s, i, t)
        /\ Sorted(s)
        /\ s[i] = Of(k, w)
    BY <1>1, <1>2
  <2> HIDE DEF s, t, i
  <2>2. /\ k \in Waiting(s, w)
        /\ Waiting(t, w) \subseteq Waiting(s, w)
        /\ Waiting(s, w) \ {k} \subseteq Waiting(t, w)
        /\ k \in Waiting(t, w) => Rank[k] = 3
        /\ \A v \in Task : v # w => Waiting(t, v) = Waiting(s, v)
    BY <2>1, OneOut
  <2> QED BY <2>2 DEF s, t
<1>4. \A x \in Waiting(pending, w) : x = k \/ InOrder(k, x)
  BY <1>1, FrontFirst
<1>5. Waiting(pending, w) \subseteq Kind
  BY DEF Waiting
<1> QED BY <1>3, <1>4, <1>5 DEF Out

\* An event of the root changes nothing that is waiting.
LEMMA FrontRoot ==
  ASSUME StorageInv, IsNext("root")
  PROVE  \A v \in Task : Waiting(Tail(pending), v) = Waiting(pending, v)
<1>1. /\ phase = "on" /\ pending # <<>> /\ pending \in Seq(Tidings)
      /\ Tail(pending) \in Seq(Tidings)
      /\ Head(pending).type = "root"
  BY FrontIs DEF IsNext
<1>2. /\ Head(pending) \in Tidings /\ Head(pending) = pending[1]
      /\ TakenOut(pending, 1, Tail(pending)) /\ 1 \in 1 .. Len(pending)
  BY <1>1, HeadOut
<1>3. Head(pending) = RootModified
  <2>1. \A k \in Kind : KindType[k] # "root"
    BY Kinds DEF KindType
  <2> QED BY <1>1, <1>2, <2>1, TidingIs, OfParts
<1>4. Range(pending) = Range(Tail(pending)) \cup {RootModified}
  <2> DEFINE s == pending
             t == Tail(pending)
             i == 1
  <2>1. /\ s \in Seq(Tidings) /\ t \in Seq(Tidings) /\ i \in 1 .. Len(s) /\ TakenOut(s, i, t)
        /\ s[i] = RootModified
    BY <1>1, <1>2, <1>3
  <2> HIDE DEF s, t, i
  <2>2. Range(s) = Range(t) \cup {RootModified}
    BY <2>1, TakenOutRange
  <2> QED BY <2>2 DEF s, t
<1>5. \A v \in Task, k \in Kind : Of(k, v) # RootModified
  BY OfParts
<1> QED BY <1>4, <1>5 DEF Waiting

\* What does not grow leaves enough cleared.
LEMMA PushedEnough ==
  ASSUME NEW m, Metadatas(m), EnoughCleared(m, disk), NEW p \in Path, NEW s \in Nat,
         s - Cached(m, p) <= 0, p.name.finished => disk[p.name.task].place = "removed"
  PROVE  EnoughCleared(Pushed(m, p, s), disk)
<1>1. CASE \A q \in DOMAIN m : q.name.finished => disk[q.name.task].place = "removed"
  <2>1. DOMAIN Pushed(m, p, s) = DOMAIN m \cup {p}
    BY DEF Pushed
  <2> QED BY <1>1, <2>1 DEF EnoughCleared
<1>2. CASE Part(m, Standing(disk)) <= alarm_size
  <2> DEFINE S == Standing(disk)
  <2> HIDE DEF S
  <2>1. Part(Pushed(m, p, s), S) = IF p \in S THEN Part(m, S) + s - Cached(m, p) ELSE Part(m, S)
    BY PushedPart
  <2>2. Part(m, S) \in Nat /\ Cached(m, p) \in Nat
    <3>1. Cached(m, p) \in Nat
      BY DEF Cached, Metadatas
    <3> QED BY <3>1, KnownFinite
  <2>3. Part(m, S) <= alarm_size /\ alarm_size \in Nat
    BY <1>2, StorageAssumption DEF S
  <2>4. Part(Pushed(m, p, s), S) <= alarm_size
    BY <2>1, <2>2, <2>3
  <2> QED BY <2>4 DEF EnoughCleared, S
<1> QED BY <1>1, <1>2 DEF EnoughCleared

\* Nor does what is popped.
LEMMA PoppedEnough ==
  ASSUME NEW m, Metadatas(m), EnoughCleared(m, disk), NEW p \in DOMAIN m
  PROVE  EnoughCleared(Popped(m, p), disk)
<1>1. CASE \A q \in DOMAIN m : q.name.finished => disk[q.name.task].place = "removed"
  <2>1. DOMAIN Popped(m, p) = DOMAIN m \ {p}
    BY DEF Popped, Restrict
  <2> QED BY <1>1, <2>1 DEF EnoughCleared
<1>2. CASE Part(m, Standing(disk)) <= alarm_size
  <2> DEFINE S == Standing(disk)
  <2> HIDE DEF S
  <2>1. Part(Popped(m, p), S) = IF p \in S THEN Part(m, S) - m[p] ELSE Part(m, S)
    BY PoppedPart
  <2>2. Part(m, S) \in Nat /\ m[p] \in Nat
    <3>1. m[p] \in Nat
      BY DEF Metadatas
    <3> QED BY <3>1, KnownFinite
  <2>3. Part(m, S) <= alarm_size /\ alarm_size \in Nat
    BY <1>2, StorageAssumption DEF S
  <2>4. Part(Popped(m, p), S) <= alarm_size
    BY <2>1, <2>2, <2>3
  <2> QED BY <2>4 DEF EnoughCleared, S
<1> QED BY <1>1, <1>2 DEF EnoughCleared

\* What the invariant says while the monitor watches.
LEMMA Watching ==
  ASSUME StorageInv, phase = "on"
  PROVE  /\ Metadatas(metadatas) /\ IsOrder(order, Names(metadatas))
         /\ occupied_size = TotalSize(metadatas) /\ occupied_size \in Nat
         /\ EnoughCleared(metadatas, disk)
         /\ \A w \in Task : Follows(disk[w], Waiting(pending, w), metadatas, w, raced, missed)
<1>1. /\ Metadatas(metadatas) /\ IsOrder(order, Names(metadatas))
      /\ occupied_size = TotalSize(metadatas)
      /\ EnoughCleared(metadatas, disk)
      /\ \A w \in Task : Follows(disk[w], Waiting(pending, w), metadatas, w, raced, missed)
  BY DEF StorageInv, KnowsInv
<1>2. TotalSize(metadatas) \in Nat
  BY <1>1, PartTotal, KnownFinite
<1> QED BY <1>1, <1>2

\* A path of a running task, or of one that was removed, is brought up to date.
LEMMA RefreshedMidway ==
  ASSUME StorageInv, phase = "on", NEW rest \in Seq(Tidings), Sorted(rest), NEW p \in Path,
         NEW s \in Nat,
         p.name.finished => disk[p.name.task].place = "removed",
         \A w \in Task :
           Follows(disk[w], Waiting(rest, w), Pushed(metadatas, p, s), w, raced, missed)
  PROVE  Midway(Pushed(metadatas, p, s), Placed(order, p.name), rest, FALSE, s - Cached(metadatas, p))
<1> DEFINE m == metadatas
           m2 == Pushed(m, p, s)
           c == Cached(m, p)
<1>1. Metadatas(m) /\ IsOrder(order, Names(m)) /\ occupied_size = TotalSize(m)
      /\ occupied_size \in Nat
      /\ EnoughCleared(m, disk)
  BY Watching
<1>2. p.name \in Name
  BY PathAt
<1> HIDE DEF m
<1>3. Metadatas(m2) /\ c \in Nat /\ Names(m2) = Names(m) \cup {p.name}
  <2>1. Metadatas(m2)
    BY <1>1 DEF Metadatas, Pushed
  <2>2. c \in Nat
    BY <1>1 DEF Metadatas, Cached
  <2>3. Names(m2) = Names(m) \cup {p.name}
    BY DEF Names, Pushed
  <2> QED BY <2>1, <2>2, <2>3
<1>4. IsOrder(Placed(order, p.name), Names(m2))
  BY <1>1, <1>2, <1>3, PlacedOrder
<1>5. TotalSize(m2) = occupied_size + (s - c)
  <2>1. Part(m2, Path) = Part(m, Path) + s - Cached(m, p)
    BY <1>1, PushedPart
  <2>2. TotalSize(m2) = Part(m2, Path) /\ TotalSize(m) = Part(m, Path)
    BY <1>1, <1>3, PartTotal
  <2> HIDE DEF m2
  <2> QED BY <1>1, <1>3, <2>1, <2>2
<1>6. EnoughCleared(m2, disk) \/ s - c > 0
  <2>1. CASE s - c <= 0
    BY <1>1, <2>1, PushedEnough
  <2> QED BY <1>3, <2>1
<1> HIDE DEF m2, c
<1>7. s - c \in Int
  BY <1>3
<1>8. \A w \in Task : Follows(disk[w], Waiting(rest, w), m2, w, raced, missed)
  BY DEF m, m2
<1>9. Midway(m2, Placed(order, p.name), rest, FALSE, s - c)
  BY <1>3, <1>4, <1>5, <1>6, <1>7, <1>8 DEF Midway
<1> QED BY <1>9 DEF m, m2, c

\* An event that changes nothing of the metadata keeps the invariant.
LEMMA UnchangedKeeps ==
  ASSUME StorageInv, phase = "on", Tail(pending) \in Seq(Tidings), Sorted(Tail(pending)),
         Handled(metadatas, order, FALSE, 0),
         \A w \in Task : Follows(disk[w], Waiting(Tail(pending), w), metadatas, w, raced, missed)
  PROVE  StorageInv'
<1>1. Midway(metadatas, order, Tail(pending), FALSE, 0)
  BY Watching DEF Midway
<1>2. SMTypes
  BY DEF StorageInv
<1> QED BY <1>1, <1>2, HandledKeeps

\* So does one that brings a path up to date, when each task is followed then.
LEMMA RefreshedKeeps ==
  ASSUME StorageInv, phase = "on", Tail(pending) \in Seq(Tidings), Sorted(Tail(pending)),
         NEW p \in Path, Refreshed(p),
         p.name.finished => disk[p.name.task].place = "removed", Size(p) \in Nat,
         \A w \in Task :
           Follows(disk[w], Waiting(Tail(pending), w), Pushed(metadatas, p, Size(p)), w, raced, missed)
  PROVE  StorageInv'
<1> DEFINE s == Size(p)
           rest == Tail(pending)
           m2 == Pushed(metadatas, p, s)
<1>1. Handled(m2, Placed(order, p.name), FALSE, s - Cached(metadatas, p))
  BY DEF Refreshed
<1>2. \A w \in Task : Follows(disk[w], Waiting(rest, w), Pushed(metadatas, p, s), w, raced, missed)
  OBVIOUS
<1>3. s \in Nat /\ rest \in Seq(Tidings) /\ Sorted(rest)
  OBVIOUS
<1> HIDE DEF s, rest
<1>4. Midway(m2, Placed(order, p.name), rest, FALSE, s - Cached(metadatas, p))
  BY <1>2, <1>3, RefreshedMidway
<1>5. SMTypes
  BY DEF StorageInv
<1> HIDE DEF m2
<1> QED BY <1>1, <1>4, <1>5, HandledKeeps DEF rest

\* The size of a path of the directory of a task.
LEMMA SizeAt ==
  ASSUME SMTypes, NEW w \in Task, NEW f \in BOOLEAN, NEW a \in {"dir", "file"}
  PROVE  Size(At(w, f, a)) = SizeOf(disk[w], f, a) /\ Size(At(w, f, a)) \in Nat
<1>1. Size(At(w, f, a)) = SizeOf(disk[w], f, a)
  BY SizeIs
<1>2. SizeOf(disk[w], f, a) \in Nat
  BY DiskRecord, SizeNat
<1> QED BY <1>1, <1>2

\* An event of one task leaves the others followed.
LEMMA OthersFollow ==
  ASSUME StorageInv, phase = "on", pending # <<>>, NEW k \in Kind, NEW w \in Task,
         Head(pending) = Of(k, w),
         NEW m2, \A v \in Task : v # w => SameKnown(metadatas, m2, v),
         Follows(disk[w], Waiting(Tail(pending), w), m2, w, raced, missed)
  PROVE  \A v \in Task : Follows(disk[v], Waiting(Tail(pending), v), m2, v, raced, missed)
<1>1. SUFFICES ASSUME NEW v \in Task, v # w
               PROVE  Follows(disk[v], Waiting(Tail(pending), v), m2, v, raced, missed)
  OBVIOUS
<1>2. Waiting(Tail(pending), v) = Waiting(pending, v)
  BY <1>1, FrontOut
<1>3. Follows(disk[v], Waiting(pending, v), metadatas, v, raced, missed)
  BY Watching
<1>4. SameKnown(metadatas, m2, v)
  BY <1>1
<1> QED BY <1>2, <1>3, <1>4, FollowsSame

\* The kinds by their types, and the paths they are of.
LEMMA KindIs ==
  ASSUME NEW k \in Kind
  PROVE  /\ KindType[k] = "created" => k \in {"createdDir", "createdFile"}
         /\ KindType[k] = "modified" => k \in {"modifiedDir", "modifiedFile", "modifiedLater"}
         /\ KindType[k] = "deleted" => k \in {"deletedFile", "deletedDir"}
         /\ KindType[k] = "moved" => k \in {"movedFile", "movedDir"}
         /\ KindFinished[k] =
              (k \notin {"createdDir", "createdFile", "modifiedDir", "modifiedFile"})
         /\ KindNode[k] =
              (IF k \in {"createdFile", "modifiedFile", "walk", "movedFile", "deletedFile"}
                           THEN "file" ELSE "dir")
         /\ KindNode[k] \in {"dir", "file"} /\ KindFinished[k] \in BOOLEAN
BY Kinds DEF KindType, KindFinished, KindNode

\* The monitor looks at what a task that is not done has.
LEMMA EarlyKeeps ==
  ASSUME StorageInv, phase = "on", pending # <<>>, Tail(pending) \in Seq(Tidings),
         Sorted(Tail(pending)),
         NEW k \in {"createdDir", "createdFile", "modifiedDir", "modifiedFile"}, NEW w \in Task,
         Head(pending) = Of(k, w), Refreshed(At(w, FALSE, KindNode[k]))
  PROVE  StorageInv'
<1> DEFINE a == KindNode[k]
           p == At(w, FALSE, a)
           m2 == Pushed(metadatas, p, Size(p))
<1>1. k \in Kind /\ a \in {"dir", "file"} /\ SMTypes
  BY KindIs DEF Kind, StorageInv
<1>2. p \in Path /\ ~p.name.finished /\ p.name.task = w
  BY <1>1 DEF At, Path, Name
<1>3. Size(p) = SizeOf(disk[w], FALSE, a) /\ Size(p) \in Nat
  BY <1>1, SizeAt
<1>4. Out(k, Waiting(pending, w), Waiting(Tail(pending), w))
  BY <1>1, FrontOut
<1>5. Follows(disk[w], Waiting(pending, w), metadatas, w, raced, missed) /\ GoodRecord(disk[w])
  BY <1>1, Watching, DiskRecord
<1>6. Follows(disk[w], Waiting(Tail(pending), w), m2, w, raced, missed)
  <2>1. m2 = Pushed(metadatas, At(w, FALSE, KindNode[k]), SizeOf(disk[w], FALSE, KindNode[k]))
    BY <1>3
  <2> HIDE DEF m2
  <2> QED BY <1>4, <1>5, <2>1, RefreshedFollows
<1>7. \A v \in Task : v # w => SameKnown(metadatas, m2, v)
  BY SameOthers
<1>8. \A v \in Task : Follows(disk[v], Waiting(Tail(pending), v), m2, v, raced, missed)
  <2> HIDE DEF m2
  <2> QED BY <1>1, <1>6, <1>7, OthersFollow
<1> HIDE DEF p
<1> QED BY <1>2, <1>3, <1>8, RefreshedKeeps DEF p

\* When a task is created, or makes its file.
LEMMA OnCreatedKeeps == ASSUME StorageInv, OnCreated PROVE StorageInv'
<1>1. IsNext("created") /\ Refreshed(Next)
  BY DEF OnCreated
<1>2. phase = "on" /\ pending # <<>> /\ Tail(pending) \in Seq(Tidings) /\ Sorted(Tail(pending))
  BY <1>1, FrontIs
<1>3. PICK k \in Kind, w \in Task :
         /\ Head(pending) = Of(k, w) /\ KindType[k] = "created"
         /\ Next = At(w, KindFinished[k], KindNode[k])
  BY <1>1, FrontIs
<1>4. k \in {"createdDir", "createdFile"} /\ KindFinished[k] = FALSE
  BY <1>3, KindIs
<1> QED BY <1>1, <1>2, <1>3, <1>4, EarlyKeeps

\* What the monitor hears of a directory after the removal of what is in it.
LEMMA LaterKeeps ==
  ASSUME StorageInv, phase = "on", pending # <<>>, Tail(pending) \in Seq(Tidings),
         Sorted(Tail(pending)),
         NEW w \in Task, Head(pending) = Of("modifiedLater", w),
         IF Exists([task |-> w, finished |-> TRUE]) THEN Handled(metadatas, order, FALSE, 0)
         ELSE Refreshed(At(w, TRUE, "dir"))
  PROVE  StorageInv'
<1> DEFINE p == At(w, TRUE, "dir")
           m2 == Pushed(metadatas, p, Size(p))
<1>1. "modifiedLater" \in Kind /\ SMTypes
  BY DEF Kind, StorageInv
<1>2. p \in Path /\ p.name.finished /\ p.name.task = w
  BY DEF At, Path, Name
<1>3. Size(p) \in Nat
  BY <1>1, SizeAt
<1>4. Out("modifiedLater", Waiting(pending, w), Waiting(Tail(pending), w))
  BY <1>1, FrontOut
<1>5. Follows(disk[w], Waiting(pending, w), metadatas, w, raced, missed) /\ GoodRecord(disk[w])
  BY <1>1, Watching, DiskRecord
<1>6. disk[w].place = "removed" /\ Follows(disk[w], Waiting(Tail(pending), w), m2, w, raced, missed)
  BY <1>4, <1>5, ModifiedLaterFollows
<1>7. \A v \in Task : v # w => SameKnown(metadatas, m2, v)
  BY SameOthers
<1>8. \A v \in Task : Follows(disk[v], Waiting(Tail(pending), v), m2, v, raced, missed)
  <2> HIDE DEF m2
  <2> QED BY <1>1, <1>6, <1>7, OthersFollow
<1>9. ~Exists([task |-> w, finished |-> TRUE])
  BY <1>6 DEF Exists, Present, Running
<1> HIDE DEF p
<1>10. Refreshed(p)
  BY <1>9 DEF p
<1> QED BY <1>2, <1>3, <1>6, <1>8, <1>10, RefreshedKeeps

\* When the monitor hears that a path was modified.
LEMMA OnModifiedKeeps == ASSUME StorageInv, OnModified PROVE StorageInv'
<1>1. CASE IsNext("root") /\ Handled(metadatas, order, FALSE, 0)
  <2>1. phase = "on" /\ pending # <<>> /\ Tail(pending) \in Seq(Tidings) /\ Sorted(Tail(pending))
    BY <1>1, FrontIs
  <2>2. \A w \in Task : Follows(disk[w], Waiting(Tail(pending), w), metadatas, w, raced, missed)
    BY <1>1, <2>1, FrontRoot, Watching
  <2> QED BY <1>1, <2>1, <2>2, UnchangedKeeps
<1>2. CASE /\ IsNext("modified")
           /\ IF Next.node = "dir" /\ Exists(Next.name) THEN Handled(metadatas, order, FALSE, 0)
              ELSE Refreshed(Next)
  <2>1. phase = "on" /\ pending # <<>> /\ Tail(pending) \in Seq(Tidings) /\ Sorted(Tail(pending))
        /\ SMTypes
    BY <1>2, FrontIs
  <2>2. PICK k \in Kind, w \in Task :
           /\ Head(pending) = Of(k, w) /\ KindType[k] = "modified"
           /\ Next = At(w, KindFinished[k], KindNode[k])
    BY <1>2, FrontIs
  <2>3. k \in {"modifiedDir", "modifiedFile", "modifiedLater"}
    BY <2>2, KindIs
  <2>4. Next.node = KindNode[k] /\ Next.name = [task |-> w, finished |-> KindFinished[k]]
    BY <2>2, AtParts
  <2>5. CASE k = "modifiedLater"
    <3>1. KindFinished[k] = TRUE /\ KindNode[k] = "dir"
      BY <2>2, <2>5, KindIs
    <3>2. IF Exists([task |-> w, finished |-> TRUE]) THEN Handled(metadatas, order, FALSE, 0)
          ELSE Refreshed(At(w, TRUE, "dir"))
      BY <1>2, <2>2, <2>4, <3>1
    <3> QED BY <2>1, <2>2, <2>5, <3>2, LaterKeeps
  <2>6. CASE k # "modifiedLater" /\ Refreshed(Next)
    <3>1. k \in {"createdDir", "createdFile", "modifiedDir", "modifiedFile"}
          /\ KindFinished[k] = FALSE
      BY <2>2, <2>3, <2>6, KindIs
    <3> QED BY <2>1, <2>2, <2>6, <3>1, EarlyKeeps
  <2>7. CASE k # "modifiedLater" /\ ~Refreshed(Next)
    <3>1. KindNode[k] = "dir" /\ Handled(metadatas, order, FALSE, 0)
      BY <1>2, <2>4, <2>7
    <3>2. k = "modifiedDir"
      BY <2>2, <2>3, <2>7, <3>1, KindIs
    <3>3. Out("modifiedDir", Waiting(pending, w), Waiting(Tail(pending), w))
      BY <2>1, <2>2, <3>2, FrontOut
    <3>4. Follows(disk[w], Waiting(pending, w), metadatas, w, raced, missed) /\ GoodRecord(disk[w])
      BY <2>1, Watching, DiskRecord
    <3>5. Follows(disk[w], Waiting(Tail(pending), w), metadatas, w, raced, missed)
      BY <3>3, <3>4, LookedAwayFollows
    <3>6. \A v \in Task : v # w => SameKnown(metadatas, metadatas, v)
      BY SameSelf
    <3>7. \A v \in Task : Follows(disk[v], Waiting(Tail(pending), v), metadatas, v, raced, missed)
      BY <2>1, <2>2, <3>5, <3>6, OthersFollow
    <3> QED BY <2>1, <3>1, <3>7, UnchangedKeeps
  <2> QED BY <2>5, <2>6, <2>7
<1> QED BY <1>1, <1>2 DEF OnModified

\* The thread of the monitor ends.
LEMMA DiesKeeps ==
  ASSUME StorageInv, phase = "on", raced, NEW n, Dies(n) PROVE StorageInv'
<1>1. /\ phase' = "dead" /\ pending' = <<>> /\ quiet' = FALSE /\ disk' = disk
      /\ is_storage_sufficient' = is_storage_sufficient /\ missed' = missed /\ raced' = raced
  BY DEF Dies
<1>2. SMTypes
  BY DEF StorageInv
<1>3. SMTypes'
  <2>1. <<>> \in Seq(Tidings)
    BY NothingTold
  <2> QED BY <1>1, <1>2, <2>1 DEF SMTypes
<1>4. Sorted(pending')
  BY <1>1, NothingTold
<1>5. PhaseInv'
  BY <1>1 DEF PhaseInv
<1>6. KnowsInv'
  BY <1>1 DEF KnowsInv
<1> QED BY <1>3, <1>4, <1>5, <1>6 DEF StorageInv

\* A path goes from what is known.
LEMMA PoppedKeeps ==
  ASSUME StorageInv, phase = "on", Tail(pending) \in Seq(Tidings), Sorted(Tail(pending)),
         NEW p \in DOMAIN metadatas,
         Handled(Popped(metadatas, p), Renewed(order, Popped(metadatas, p), p.name), FALSE, -Cached(metadatas, p)),
         \A w \in Task :
           Follows(disk[w], Waiting(Tail(pending), w), Popped(metadatas, p), w, raced, missed)
  PROVE  StorageInv'
<1> DEFINE m == metadatas
           m2 == Popped(m, p)
           o2 == Renewed(order, m2, p.name)
           c == Cached(m, p)
           rest == Tail(pending)
<1>1. /\ Metadatas(m) /\ IsOrder(order, Names(m)) /\ occupied_size = TotalSize(m)
      /\ occupied_size \in Nat
      /\ EnoughCleared(m, disk) /\ p \in DOMAIN m /\ SMTypes
  BY Watching DEF StorageInv
<1>2. /\ rest \in Seq(Tidings) /\ Sorted(rest) /\ Handled(m2, o2, FALSE, -c)
      /\ \A w \in Task : Follows(disk[w], Waiting(rest, w), m2, w, raced, missed)
  OBVIOUS
<1> HIDE DEF m, rest
<1>3. EnoughCleared(m2, disk)
  BY <1>1, PoppedEnough
<1>4. Metadatas(m2) /\ c \in Nat /\ c = m[p] /\ DOMAIN m2 = DOMAIN m \ {p}
  <2>1. Metadatas(m2)
    BY <1>1, PoppedIs
  <2>2. c \in Nat /\ c = m[p]
    BY <1>1 DEF Metadatas, Cached
  <2>3. DOMAIN m2 = DOMAIN m \ {p}
    BY DEF Popped, Restrict
  <2> QED BY <2>1, <2>2, <2>3
<1>5. TotalSize(m2) = occupied_size + (-c)
  <2>1. p \in Path
    BY <1>1 DEF Metadatas
  <2>2. Part(m2, Path) = Part(m, Path) - m[p]
    BY <1>1, <2>1, PoppedPart
  <2>3. TotalSize(m2) = Part(m2, Path) /\ TotalSize(m) = Part(m, Path)
    BY <1>1, <1>4, PartTotal
  <2> HIDE DEF m2
  <2> QED BY <1>1, <1>4, <2>2, <2>3
<1> HIDE DEF m2, c
<1>6. IsOrder(o2, Names(m2))
  <2>1. DOMAIN m \subseteq Path
    BY <1>1 DEF Metadatas
  <2> QED BY <1>1, <1>4, <2>1, RenewedOrder
<1> HIDE DEF o2
<1>7. Midway(m2, o2, rest, FALSE, -c)
  BY <1>2, <1>3, <1>4, <1>5, <1>6 DEF Midway
<1> QED BY <1>1, <1>2, <1>7, HandledKeeps DEF rest

\* When the monitor hears of a removal.
LEMMA OnDeletedKeeps == ASSUME StorageInv, OnDeleted PROVE StorageInv'
<1>1. IsNext("deleted")
  BY DEF OnDeleted
<1>2. phase = "on" /\ pending # <<>> /\ Tail(pending) \in Seq(Tidings) /\ Sorted(Tail(pending))
      /\ SMTypes
  BY <1>1, FrontIs
<1>3. PICK k \in Kind, w \in Task :
         /\ Head(pending) = Of(k, w) /\ KindType[k] = "deleted"
         /\ Next = At(w, KindFinished[k], KindNode[k])
  BY <1>1, FrontIs
<1>4. /\ k \in {"deletedFile", "deletedDir"} /\ KindFinished[k] = TRUE
      /\ KindNode[k] = (IF k = "deletedFile" THEN "file" ELSE "dir")
  BY <1>3, KindIs
<1> DEFINE p == At(w, TRUE, KindNode[k])
           m2 == Popped(metadatas, p)
<1>5. Next = p
  BY <1>3, <1>4
<1>6. Out(k, Waiting(pending, w), Waiting(Tail(pending), w))
  BY <1>2, <1>3, FrontOut
<1>7. Follows(disk[w], Waiting(pending, w), metadatas, w, raced, missed) /\ GoodRecord(disk[w])
  BY <1>2, Watching, DiskRecord
<1>8. IF p \in DOMAIN metadatas
      THEN Follows(disk[w], Waiting(Tail(pending), w), m2, w, raced, missed)
      ELSE raced
  <2>1. CASE k = "deletedFile"
    <3>1. p = At(w, TRUE, "file")
      BY <1>4, <2>1
    <3>2. m2 = Popped(metadatas, At(w, TRUE, "file"))
      BY <3>1
    <3> HIDE DEF p, m2
    <3> DEFINE d == disk[w]
               ws == Waiting(pending, w)
               ws2 == Waiting(Tail(pending), w)
    <3>4. Follows(d, ws, metadatas, w, raced, missed) /\ GoodRecord(d)
          /\ Out("deletedFile", ws, ws2)
      BY <1>6, <1>7, <2>1
    <3> HIDE DEF d, ws, ws2
    <3>5. Knows(metadatas, w, TRUE, "file") => Follows(d, ws2, m2, w, raced, missed)
      BY <3>2, <3>4, DeletedFileFollows
    <3>6. ~Knows(metadatas, w, TRUE, "file") => raced
      <4>1. Vanishes(ws, metadatas, w, raced) /\ "deletedFile" \in ws /\ ~FileMoves(ws)
        BY <3>4, OutLate
      <4> QED BY <4>1 DEF Vanishes
    <3>3. /\ Knows(metadatas, w, TRUE, "file") =>
               Follows(disk[w], Waiting(Tail(pending), w), m2, w, raced, missed)
          /\ ~Knows(metadatas, w, TRUE, "file") => raced
      BY <3>5, <3>6 DEF d, ws2
    <3> QED BY <3>1, <3>3 DEF Knows
  <2>2. CASE k = "deletedDir"
    <3>1. p = At(w, TRUE, "dir")
      BY <1>4, <2>2
    <3>2. m2 = Popped(metadatas, At(w, TRUE, "dir"))
      BY <3>1
    <3> HIDE DEF p, m2
    <3> QED BY <1>6, <1>7, <2>2, <3>1, <3>2, DeletedDirFollows DEF Knows
  <2> QED BY <1>4, <2>1, <2>2
<1>9. \A v \in Task : v # w => SameKnown(metadatas, m2, v)
  BY SameOthers
<1>10. CASE p \in DOMAIN metadatas
  <2>1. Handled(m2, Renewed(order, m2, p.name), FALSE, -Cached(metadatas, p))
    BY <1>5, <1>10 DEF OnDeleted
  <2>2. \A v \in Task : Follows(disk[v], Waiting(Tail(pending), v), m2, v, raced, missed)
    <3> HIDE DEF m2
    <3> QED BY <1>2, <1>3, <1>8, <1>9, <1>10, OthersFollow
  <2> HIDE DEF p
  <2> QED BY <1>2, <1>10, <2>1, <2>2, PoppedKeeps
<1>11. CASE p \notin DOMAIN metadatas
  <2>1. Dies(Next.name)
    BY <1>5, <1>11 DEF OnDeleted
  <2> QED BY <1>2, <1>8, <1>11, <2>1, DiesKeeps
<1> QED BY <1>10, <1>11

\* The path that a path had while the task was running.
LEMMA RenamedPath ==
  ASSUME NEW w \in Task, NEW a \in {"dir", "file"}
  PROVE  [At(w, TRUE, a) EXCEPT !.name.finished = FALSE] = At(w, FALSE, a)
<1>1. ASSUME NEW p \in Path
      PROVE  [p EXCEPT !.name.finished = FALSE] =
               [name |-> [task |-> p.name.task, finished |-> FALSE], node |-> p.node]
  <2>1. p.name \in Name
    BY DEF Path
  <2>2. [p.name EXCEPT !.finished = FALSE] = [task |-> p.name.task, finished |-> FALSE]
    <3>1. \A n \in Name, b \in BOOLEAN :
            [n EXCEPT !.finished = b] = [task |-> n.task, finished |-> b]
      BY DEF Name
    <3> DEFINE f == FALSE
    <3>2. f \in BOOLEAN
      OBVIOUS
    <3> HIDE DEF f
    <3>3. [p.name EXCEPT !.finished = f] = [task |-> p.name.task, finished |-> f]
      BY <2>1, <3>1, <3>2
    <3> QED BY <3>3 DEF f
  <2> DEFINE n == [task |-> p.name.task, finished |-> FALSE]
  <2>3. [p EXCEPT !.name = n] = [name |-> n, node |-> p.node]
    <3>1. n \in Name
      BY <2>1 DEF Name
    <3> HIDE DEF n
    <3> QED BY <3>1 DEF Path
  <2> QED BY <2>2, <2>3
<1>2. At(w, TRUE, a) \in Path
  BY DEF At, Path, Name
<1>3. At(w, TRUE, a).name.task = w /\ At(w, TRUE, a).node = a
  BY DEF At
<1> DEFINE p == At(w, TRUE, a)
<1> HIDE DEF p
<1>4. [p EXCEPT !.name.finished = FALSE] = [name |-> [task |-> w, finished |-> FALSE], node |-> a]
  BY <1>1, <1>2, <1>3 DEF p
<1> QED BY <1>4 DEF p, At

\* When the monitor hears of the renaming of a directory, or of the file in it.
LEMMA OnMovedKeeps == ASSUME StorageInv, OnMoved PROVE StorageInv'
<1>1. IsNext("moved")
  BY DEF OnMoved
<1>2. phase = "on" /\ pending # <<>> /\ Tail(pending) \in Seq(Tidings) /\ Sorted(Tail(pending))
      /\ SMTypes
  BY <1>1, FrontIs
<1>3. PICK k \in Kind, w \in Task :
         /\ Head(pending) = Of(k, w) /\ KindType[k] = "moved"
         /\ Next = At(w, KindFinished[k], KindNode[k])
  BY <1>1, FrontIs
<1>4. /\ k \in {"movedFile", "movedDir"} /\ KindFinished[k] = TRUE
      /\ KindNode[k] = (IF k = "movedFile" THEN "file" ELSE "dir")
  BY <1>3, KindIs
<1> DEFINE a == KindNode[k]
           p == At(w, TRUE, a)
           q == At(w, FALSE, a)
           m == metadatas
           left == Popped(m, q)
           m2 == Pushed(left, p, Size(p))
           o2 == Renewed(order, left, q.name)
           o3 == Placed(o2, p.name)
           delta == Size(p) - Cached(left, p) - Cached(m, q)
           rest == Tail(pending)
<1>5. Next = p /\ [Next EXCEPT !.name.finished = FALSE] = q
  <2>1. Next = p /\ a \in {"dir", "file"}
    BY <1>3, <1>4
  <2> QED BY <2>1, RenamedPath
<1>6. Out(k, Waiting(pending, w), Waiting(rest, w))
  BY <1>2, <1>3, FrontOut
<1>7. Follows(disk[w], Waiting(pending, w), m, w, raced, missed) /\ GoodRecord(disk[w])
  BY <1>2, Watching, DiskRecord
<1>8. Size(p) = SizeOf(disk[w], TRUE, a) /\ Size(p) \in Nat
  BY <1>2, <1>4, SizeAt
<1>9. q \in DOMAIN m /\ Follows(disk[w], Waiting(rest, w), m2, w, raced, missed)
  <2>1. CASE k = "movedFile"
    <3>1. m2 = Pushed(Popped(m, At(w, FALSE, "file")), At(w, TRUE, "file"), SizeOf(disk[w], TRUE, "file"))
      BY <1>4, <1>8, <2>1
    <3>2. q = At(w, FALSE, "file")
      BY <1>4, <2>1
    <3> HIDE DEF m2, q, m, rest
    <3>3. Knows(m, w, FALSE, "file") /\ Follows(disk[w], Waiting(rest, w), m2, w, raced, missed)
      BY <1>6, <1>7, <2>1, <3>1, MovedFileFollows
    <3> QED BY <3>2, <3>3 DEF Knows
  <2>2. CASE k = "movedDir"
    <3>1. m2 = Pushed(Popped(m, At(w, FALSE, "dir")), At(w, TRUE, "dir"), SizeOf(disk[w], TRUE, "dir"))
      BY <1>4, <1>8, <2>2
    <3>2. q = At(w, FALSE, "dir")
      BY <1>4, <2>2
    <3> HIDE DEF m2, q, m, rest
    <3>3. Knows(m, w, FALSE, "dir") /\ Follows(disk[w], Waiting(rest, w), m2, w, raced, missed)
      BY <1>6, <1>7, <2>2, <3>1, MovedDirFollows
    <3> QED BY <3>2, <3>3 DEF Knows
  <2> QED BY <1>4, <2>1, <2>2
<1>10. Handled(m2, o3, TRUE, delta)
  BY <1>5, <1>9 DEF OnMoved
<1>11. \A v \in Task : Follows(disk[v], Waiting(rest, v), m2, v, raced, missed)
  <2>1. ASSUME NEW v \in Task, v # w PROVE SameKnown(m, m2, v)
    <3>1. SameKnown(m, left, v)
      BY <2>1, SameOthers
    <3> HIDE DEF left
    <3>2. SameKnown(left, m2, v)
      BY <2>1, SameOthers
    <3> HIDE DEF m2
    <3> QED BY <3>1, <3>2, SameTwice
  <2> HIDE DEF m2
  <2> QED BY <1>2, <1>3, <1>9, <2>1, OthersFollow
<1>12. /\ Metadatas(m) /\ IsOrder(order, Names(m)) /\ occupied_size = TotalSize(m)
       /\ occupied_size \in Nat
       /\ DOMAIN m \subseteq Path /\ p \in Path /\ q \in Path /\ p.name \in Name
  <2>1. p \in Path /\ q \in Path /\ p.name \in Name
    BY <1>4 DEF At, Path, Name
  <2> QED BY <1>2, <2>1, Watching DEF Metadatas
<1>13. rest \in Seq(Tidings) /\ Sorted(rest)
  BY <1>2
<1> HIDE DEF m, rest, p, q
<1>14. Metadatas(left) /\ DOMAIN left = DOMAIN m \ {q} /\ m[q] \in Nat /\ Cached(m, q) = m[q]
  <2>1. Metadatas(left)
    BY <1>9, <1>12, PoppedIs
  <2>2. DOMAIN left = DOMAIN m \ {q}
    BY DEF Popped, Restrict
  <2>3. m[q] \in Nat /\ Cached(m, q) = m[q]
    BY <1>9, <1>12 DEF Metadatas, Cached
  <2> QED BY <2>1, <2>2, <2>3
<1>15. TotalSize(left) = TotalSize(m) - m[q]
  <2>1. Part(left, Path) = Part(m, Path) - m[q]
    BY <1>9, <1>12, PoppedPart
  <2>2. TotalSize(left) = Part(left, Path) /\ TotalSize(m) = Part(m, Path)
    BY <1>12, <1>14, PartTotal
  <2> QED BY <2>1, <2>2
<1> HIDE DEF left
<1>16. IsOrder(o2, Names(left))
  BY <1>9, <1>12, <1>14, RenewedOrder
<1> HIDE DEF o2
<1>17. /\ Metadatas(m2) /\ Cached(left, p) \in Nat /\ Names(m2) = Names(left) \cup {p.name}
  <2>1. Metadatas(m2)
    BY <1>8, <1>12, <1>14 DEF Metadatas, Pushed
  <2>2. Cached(left, p) \in Nat
    BY <1>14 DEF Metadatas, Cached
  <2>3. Names(m2) = Names(left) \cup {p.name}
    BY DEF Names, Pushed
  <2> QED BY <2>1, <2>2, <2>3
<1>18. IsOrder(o3, Names(m2))
  BY <1>12, <1>16, <1>17, PlacedOrder
<1>19. TotalSize(m2) = TotalSize(left) + Size(p) - Cached(left, p)
  <2>1. Part(m2, Path) = Part(left, Path) + Size(p) - Cached(left, p)
    <3> DEFINE z == Size(p)
    <3>1. z \in Nat /\ Metadatas(left) /\ p \in Path
      BY <1>8, <1>12, <1>14
    <3> HIDE DEF z
    <3>2. Part(Pushed(left, p, z), Path) = Part(left, Path) + z - Cached(left, p)
      BY <3>1, PushedPart
    <3> QED BY <3>2 DEF z
  <2>2. TotalSize(m2) = Part(m2, Path) /\ TotalSize(left) = Part(left, Path)
    BY <1>14, <1>17, PartTotal
  <2> QED BY <2>1, <2>2
<1> HIDE DEF m2, o3
<1>20. delta \in Int /\ TotalSize(m2) = occupied_size + delta
  <2>1. TotalSize(left) \in Nat
    BY <1>14, PartTotal, KnownFinite
  <2> DEFINE z == Size(p)
             c == Cached(left, p)
             e == Cached(m, q)
             x == TotalSize(left)
             y == TotalSize(m2)
  <2>2. /\ z \in Nat /\ c \in Nat /\ e \in Nat /\ occupied_size \in Nat /\ x \in Nat
        /\ x = occupied_size - e /\ y = x + z - c
    BY <1>8, <1>12, <1>14, <1>15, <1>17, <1>19, <2>1
  <2>3. delta = z - c - e
    OBVIOUS
  <2> HIDE DEF z, c, e, x, y, delta
  <2>4. delta \in Int /\ y = occupied_size + delta
    BY <2>2, <2>3
  <2> QED BY <2>4 DEF y
<1> HIDE DEF delta
<1>21. Midway(m2, o3, rest, TRUE, delta)
  BY <1>11, <1>13, <1>17, <1>18, <1>20 DEF Midway
<1> QED BY <1>2, <1>10, <1>21, HandledKeeps DEF rest

-----------------------------------------------------------------------------
(* Storage: the tasks and watchdog.                                        *)

\* What may be removed depends on what was removed only.
LEMMA SameEnough ==
  ASSUME NEW m, Metadatas(m), NEW dk, NEW dk2, EnoughCleared(m, dk),
         \A v \in Task : dk2[v].place = "removed" <=> dk[v].place = "removed"
  PROVE  EnoughCleared(m, dk2)
<1>1. \A p \in Path : p.name.task \in Task
  BY PathAt
<1>2. Standing(dk) = Standing(dk2)
  BY <1>1 DEF Standing
<1>3. \A p \in DOMAIN m : p \in Path
  BY DEF Metadatas
<1> QED BY <1>1, <1>2, <1>3 DEF EnoughCleared

\* A task does something, and the monitor watches.
LEMMA ToldKeeps ==
  ASSUME StorageInv, phase = "on", NEW w \in Task, NEW t \in Seq(Tidings), Sorted(t), ~OnlyWalks(t),
         NEW ks \in SUBSET Kind, Range(t) \ {RootModified} = {Of(k, w) : k \in ks},
         \A k1 \in Waiting(pending, w), k2 \in ks : InOrder(k1, k2),
         disk' \in [Task -> [place : Place, size : 0 .. MaxSize]],
         \A v \in Task : v # w => disk'[v] = disk[v],
         disk[w].place # "removed", disk'[w].place # "removed",
         disk'[w].place = "none" => disk'[w].size = 0,
         Follows(disk'[w], Waiting(pending, w) \cup ks, metadatas, w, raced, missed),
         pending' = pending \o t, UNCHANGED monitorVars, missed' = missed, raced' = raced
  PROVE  StorageInv'
<1>1. /\ SMTypes /\ pending \in Seq(Tidings) /\ Sorted(pending) /\ Metadatas(metadatas)
      /\ EnoughCleared(metadatas, disk) /\ IsOrder(order, Names(metadatas))
      /\ occupied_size = TotalSize(metadatas)
  BY Watching DEF StorageInv, SMTypes
<1>2. \A v : Waiting(t, v) = IF v = w THEN ks ELSE {}
  BY WaitingOf
<1>3. \A v \in Task : \A k1 \in Waiting(pending, v), k2 \in Waiting(t, v) : InOrder(k1, k2)
  BY <1>2
<1>4. /\ pending' \in Seq(Tidings) /\ Sorted(pending')
      /\ Range(pending') = Range(pending) \cup Range(t)
      /\ \A v : Waiting(pending', v) = Waiting(pending, v) \cup Waiting(t, v)
  BY <1>1, <1>3, MoreTold
<1>5. ~OnlyWalks(pending')
  BY <1>4 DEF OnlyWalks
<1>6. /\ metadatas' = metadatas /\ order' = order /\ occupied_size' = occupied_size
      /\ is_storage_sufficient' = is_storage_sufficient /\ phase' = "on" /\ quiet' = quiet
  BY DEF monitorVars
<1>7. SMTypes'
  <2>1. \A v \in Task : disk'[v].place \in {"none", "removed"} => disk'[v].size = 0
    BY <1>1 DEF SMTypes
  <2> QED BY <1>1, <1>4, <1>6, <2>1 DEF SMTypes
<1>8. EnoughCleared(metadatas, disk')
  <2>1. \A v \in Task : disk'[v].place = "removed" <=> disk[v].place = "removed"
    OBVIOUS
  <2> DEFINE m == metadatas
             dk == disk
             dk2 == disk'
  <2>2. Metadatas(m) /\ EnoughCleared(m, dk)
        /\ \A v \in Task : dk2[v].place = "removed" <=> dk[v].place = "removed"
    BY <1>1, <2>1
  <2> HIDE DEF m, dk, dk2
  <2>3. EnoughCleared(m, dk2)
    BY <2>2, SameEnough
  <2> QED BY <2>3 DEF m, dk2
<1>9. ASSUME NEW v \in Task
      PROVE  Follows(disk'[v], Waiting(pending', v), metadatas, v, raced, missed)
  <2>1. CASE v = w
    <3>1. Waiting(pending', v) = Waiting(pending, w) \cup ks
      BY <1>2, <1>4, <2>1
    <3> QED BY <2>1, <3>1
  <2>2. CASE v # w
    <3>1. Waiting(pending', v) = Waiting(pending, v)
      BY <1>2, <1>4, <2>2
    <3>2. Follows(disk[v], Waiting(pending, v), metadatas, v, raced, missed)
      BY Watching
    <3> QED BY <2>2, <3>1, <3>2
  <2> QED BY <2>1, <2>2
<1>10. PhaseInv'
  BY <1>6 DEF PhaseInv
<1>11. KnowsInv'
  BY <1>1, <1>5, <1>6, <1>8, <1>9 DEF KnowsInv
<1> QED BY <1>4, <1>7, <1>10, <1>11 DEF StorageInv

\* A task does something, and nobody hears of it.
LEMMA UnheardKeeps ==
  ASSUME StorageInv, phase # "on",
         disk' \in [Task -> [place : Place, size : 0 .. MaxSize]],
         \A v \in Task : disk'[v].place \in {"none", "removed"} => disk'[v].size = 0,
         phase # "dead" => \A v \in Task : disk'[v].place = disk[v].place,
         phase = "started" =>
           missed' /\ \A v \in Task : disk'[v] = disk[v] \/ disk[v].place \in Running,
         missed' \in BOOLEAN, pending' = pending, UNCHANGED monitorVars, raced' = raced
  PROVE  StorageInv'
<1>1. /\ metadatas' = metadatas /\ order' = order /\ occupied_size' = occupied_size
      /\ is_storage_sufficient' = is_storage_sufficient /\ phase' = phase /\ quiet' = quiet
  BY DEF monitorVars
<1>2. SMTypes /\ Sorted(pending) /\ PhaseInv /\ pending = <<>>
  BY DEF StorageInv, PhaseInv
<1>3. SMTypes'
  BY <1>1, <1>2 DEF SMTypes
<1>4. PhaseInv'
  BY <1>1, <1>2 DEF PhaseInv
<1>5. CASE phase # "started"
  <2>1. KnowsInv'
    BY <1>1, <1>5 DEF KnowsInv
  <2> QED BY <1>2, <1>3, <1>4, <2>1 DEF StorageInv
<1>6. CASE phase = "started"
  <2>1. /\ Metadatas(metadatas) /\ IsOrder(order, Names(metadatas))
        /\ occupied_size = TotalSize(metadatas)
        /\ EnoughCleared(metadatas, disk)
        /\ \A w \in Task : Follows(disk[w], Waiting(pending, w), metadatas, w, raced, missed)
    BY <1>6 DEF StorageInv, KnowsInv
  <2>2. EnoughCleared(metadatas, disk')
    <3>1. \A v \in Task : disk'[v].place = "removed" <=> disk[v].place = "removed"
      BY <1>6
    <3> QED BY <2>1, <3>1, SameEnough
  <2>3. ASSUME NEW v \in Task
        PROVE  Follows(disk'[v], Waiting(pending, v), metadatas, v, raced, TRUE)
    <3>1. Waiting(pending, v) = {}
      BY <1>2, NothingTold
    <3>2. Follows(disk[v], {}, metadatas, v, raced, missed)
      BY <2>1, <3>1
    <3>3. CASE disk'[v] = disk[v]
      <4> DEFINE d == disk[v]
                 T == TRUE
      <4>1. Follows(d, {}, metadatas, v, raced, missed) /\ (missed => T)
        BY <3>2
      <4> HIDE DEF d, T
      <4>2. Follows(d, {}, metadatas, v, raced, T)
        BY <4>1, SameSelf, FollowsSame
      <4> QED BY <3>1, <3>3, <4>2 DEF d, T
    <3>4. CASE disk[v].place \in Running
      <4>1. disk[v].place = "left" /\ disk'[v].place = "left"
        BY <1>2, <1>6, <3>4 DEF Running, PhaseInv
      <4>2. Grows(disk[v], {}, metadatas, v, missed)
        BY <3>2, <3>4 DEF Follows
      <4>3. Grows(disk'[v], {}, metadatas, v, TRUE)
        BY <4>1, <4>2 DEF Grows
      <4> QED BY <3>1, <4>1, <4>3 DEF Follows, Running
    <3> QED BY <1>6, <3>3, <3>4
  <2>4. \A v \in Task : Follows(disk'[v], Waiting(pending', v), metadatas', v, raced', missed')
    <3>1. missed' = TRUE
      BY <1>6
    <3> QED BY <1>1, <2>3, <3>1
  <2>5. KnowsInv'
    BY <1>1, <1>6, <2>1, <2>2, <2>4 DEF KnowsInv
  <2> QED BY <1>2, <1>3, <1>4, <2>5 DEF StorageInv
<1> QED BY <1>5, <1>6

\* The threads of the observer begin to run.
LEMMA ObserveKeeps == ASSUME StorageInv, Observe PROVE StorageInv'
<1>1. /\ phase = "started" /\ phase' = "on" /\ disk' = disk /\ pending' = pending
      /\ metadatas' = metadatas
      /\ order' = order /\ occupied_size' = occupied_size /\ missed' = missed /\ raced' = raced
      /\ is_storage_sufficient' = is_storage_sufficient /\ quiet' = quiet
  BY DEF Observe
<1>2. SMTypes'
  BY <1>1 DEF StorageInv, SMTypes
<1>3. PhaseInv'
  BY <1>1 DEF PhaseInv
<1>4. KnowsInv'
  BY <1>1 DEF StorageInv, KnowsInv
<1> QED BY <1>1, <1>2, <1>3, <1>4 DEF StorageInv

\* A task is created.
LEMMA CreateTaskKeeps == ASSUME StorageInv, NEW w \in Task, CreateTask(w) PROVE StorageInv'
<1> DEFINE d2 == [disk[w] EXCEPT !.place = "running"]
           t == <<Of("createdDir", w), RootModified>>
<1>1. /\ SMTypes /\ phase \in {"on", "dead"} /\ disk[w].place = "none" /\ missed' = missed
      /\ raced' = raced
      /\ UNCHANGED monitorVars /\ disk' = [disk EXCEPT ![w].place = "running"]
  BY DEF StorageInv, CreateTask
<1>2. /\ disk' \in [Task -> [place : Place, size : 0 .. MaxSize]]
      /\ \A v \in Task : v # w => disk'[v] = disk[v]
      /\ disk'[w].place = "running" /\ disk'[w].size = 0
  BY <1>1 DEF SMTypes, Place, Running
<1>3. CASE phase = "dead"
  <2>1. pending' = pending
    BY <1>3 DEF CreateTask, Tells
  <2>2. \A v \in Task : disk'[v].place \in {"none", "removed"} => disk'[v].size = 0
    BY <1>1, <1>2 DEF SMTypes
  <2>3. missed' \in BOOLEAN
    BY <1>1 DEF SMTypes
  <2> QED BY <1>1, <1>2, <1>3, <2>1, <2>2, <2>3, UnheardKeeps
<1>4. CASE phase = "on"
  <2>1. pending' = pending \o t
    BY <1>4 DEF CreateTask, Tells, Event, Of, At
  <2>2. Of("createdDir", w) \in Tidings /\ RootModified \in Tidings
    BY DEF Tidings, Kind
  <2>3. "createdDir" \in Kind
    BY DEF Kind
  <2>4. Ordered(Of("createdDir", w), RootModified)
    BY <2>3, OfParts DEF Ordered
  <2>5. t \in Seq(Tidings) /\ Sorted(t) /\ Range(t) = {Of("createdDir", w), RootModified}
    BY <2>2, <2>4, TwoTold
  <2> HIDE DEF t
  <2>6. ~OnlyWalks(t)
    BY <2>5 DEF OnlyWalks, RootModified
  <2> DEFINE ks == {"createdDir"}
  <2>7. ks \in SUBSET Kind /\ Range(t) \ {RootModified} = {Of(k, w) : k \in ks}
    <3>1. Of("createdDir", w) # RootModified
      BY <2>3, OfParts
    <3> QED BY <2>3, <2>5, <3>1
  <2>8. Unborn(Waiting(pending, w), metadatas, w)
    BY <1>1, <1>4, Watching DEF Follows
  <2>9. Grows(disk'[w], {"createdDir"}, metadatas, w, missed)
    <3>1. /\ ~Knows(metadatas, w, FALSE, "dir") /\ ~Knows(metadatas, w, FALSE, "file")
          /\ ~Knows(metadatas, w, TRUE, "dir") /\ ~Knows(metadatas, w, TRUE, "file")
      BY <2>8 DEF Unborn
    <3>2. \A x \in {"createdDir"} : Rank[x] = 1
      BY RankIs
    <3> DEFINE d == disk'[w]
               k == {"createdDir"}
    <3>3. /\ d.size = 0 /\ "createdDir" \in k /\ "createdFile" \notin k
          /\ \A x \in k : Rank[x] <= 3 /\ ~(Rank[x] \in {2, 3})
      BY <1>2, <3>2
    <3>4. ~(d.size > 0)
      BY <3>3
    <3> HIDE DEF d, k
    <3>5. Grows(d, k, metadatas, w, missed)
      BY <3>1, <3>3, <3>4 DEF Grows
    <3> QED BY <3>5 DEF d, k
  <2>10. Follows(disk'[w], Waiting(pending, w) \cup ks, metadatas, w, raced, missed)
    <3>1. Waiting(pending, w) \cup ks = {"createdDir"}
      BY <2>8 DEF Unborn
    <3> QED BY <1>2, <2>9, <3>1 DEF Follows, Running
  <2>11. \A k1 \in Waiting(pending, w), k2 \in ks : InOrder(k1, k2)
    BY <2>8 DEF Unborn
  <2> HIDE DEF ks
  <2> QED BY <1>1, <1>2, <1>4, <2>1, <2>5, <2>6, <2>7, <2>10, <2>11, ToldKeeps
<1> QED BY <1>1, <1>3, <1>4

\* A file that is there grows, or the first one is made.
LEMMA WrittenGrows ==
  ASSUME NEW d, GoodRecord(d), d.place \in Running, NEW ws, ws \subseteq Kind, NEW m, NEW w, NEW r,
         NEW s,
         Follows(d, ws, m, w, r, s), NEW e, e.place = d.place, e.size = d.size + 1,
         NEW ks, ks = IF d.size > 0 THEN {"modifiedFile"} ELSE {"createdFile", "modifiedDir"}
  PROVE  /\ \A x \in ws, y \in ks : InOrder(x, y)
         /\ Follows(e, ws \cup ks, m, w, r, s)
<1>1. Grows(d, ws, m, w, s)
  BY DEF Follows
<1>2. d.size \in Nat /\ e.size > 0
  BY DEF GoodRecord
<1>3. \A x \in ws : Rank[x] \in 1 .. 8 /\ Rank[x] <= 3
  BY <1>1, RankNat DEF Grows
<1> DEFINE k == ws \cup ks
<1>4. CASE d.size > 0
  <2>1. ks = {"modifiedFile"}
    BY <1>4
  <2>2. \A x \in ws, y \in ks : InOrder(x, y)
    BY <1>3, <2>1, RankIs DEF InOrder
  <2>3. /\ \A x \in k : Rank[x] <= 3
        /\ "createdDir" \in k <=> "createdDir" \in ws
        /\ "createdFile" \in k <=> "createdFile" \in ws
        /\ "modifiedFile" \in k
    BY <1>3, <2>1, RankIs
  <2> HIDE DEF k
  <2>4. Grows(e, k, m, w, s)
    BY <1>1, <1>2, <1>4, <2>3 DEF Grows
  <2> QED BY <2>2, <2>4 DEF Follows, Running, k
<1>5. CASE ~(d.size > 0)
  <2>1. ks = {"createdFile", "modifiedDir"}
    BY <1>5
  <2>2. \A x \in ws : Rank[x] < 2
    <3>1. \A x \in ws : ~(Rank[x] \in {2, 3})
      BY <1>1, <1>5 DEF Grows
    <3> QED BY <1>3, <3>1
  <2>3. \A x \in ws, y \in ks : InOrder(x, y)
    BY <1>3, <2>1, <2>2, RankIs DEF InOrder
  <2>4. /\ \A x \in k : Rank[x] <= 3
        /\ "createdDir" \in k <=> "createdDir" \in ws
        /\ "createdFile" \in k
    BY <1>3, <2>1, RankIs
  <2>5. d.place = "running" \/ ~s => ~Knows(m, w, FALSE, "file")
    BY <1>1, <1>5 DEF Grows
  <2> HIDE DEF k
  <2>6. Grows(e, k, m, w, s)
    BY <1>1, <1>2, <2>4, <2>5 DEF Grows
  <2> QED BY <2>3, <2>6 DEF Follows, Running, k
<1> QED BY <1>4, <1>5

\* A task writes.
LEMMA WriteKeeps == ASSUME StorageInv, NEW w \in Task, Write(w) PROVE StorageInv'
<1> DEFINE t == IF HasFile(w) THEN <<Of("modifiedFile", w)>>
                ELSE <<Of("createdFile", w), Of("modifiedDir", w)>>
           ks == IF HasFile(w) THEN {"modifiedFile"} ELSE {"createdFile", "modifiedDir"}
<1>1. /\ SMTypes /\ disk[w].place \in Running /\ disk[w].size < MaxSize /\ raced' = raced
      /\ UNCHANGED monitorVars /\ disk' = [disk EXCEPT ![w].size = @ + 1]
      /\ missed' = (missed \/ phase = "started")
  BY DEF StorageInv, Write
<1>2. /\ disk' \in [Task -> [place : Place, size : 0 .. MaxSize]]
      /\ \A v \in Task : v # w => disk'[v] = disk[v]
      /\ disk'[w].place = disk[w].place /\ disk'[w].size = disk[w].size + 1
  <2>1. disk[w].size + 1 \in 0 .. MaxSize
    BY <1>1, StorageAssumption DEF SMTypes
  <2> QED BY <1>1, <2>1 DEF SMTypes
<1>3. CASE phase # "on"
  <2>1. pending' = pending
    BY <1>3 DEF Write, Tells
  <2>2. \A v \in Task : disk'[v].place \in {"none", "removed"} => disk'[v].size = 0
    BY <1>1, <1>2 DEF SMTypes, Running
  <2>3. missed' \in BOOLEAN
    BY <1>1 DEF SMTypes
  <2>4. \A v \in Task :
          disk'[v].place = disk[v].place /\ (disk'[v] = disk[v] \/ disk[v].place \in Running)
    BY <1>1, <1>2
  <2>5. phase = "started" => missed'
    BY <1>1
  <2> QED BY <1>1, <1>2, <1>3, <2>1, <2>2, <2>3, <2>4, <2>5, UnheardKeeps
<1>4. CASE phase = "on"
  <2>1. pending' = pending \o t
    <3>1. NameOf(w) = [task |-> w, finished |-> FALSE]
      BY <1>1 DEF NameOf, Running
    <3> QED BY <1>4, <3>1 DEF Write, Tells, Event, Of, At
  <2>2. /\ Of("createdFile", w) \in Tidings /\ Of("modifiedDir", w) \in Tidings
        /\ Of("modifiedFile", w) \in Tidings
        /\ "createdFile" \in Kind /\ "modifiedDir" \in Kind /\ "modifiedFile" \in Kind
    BY DEF Tidings, Kind
  <2>3. Ordered(Of("createdFile", w), Of("modifiedDir", w))
    <3>1. InOrder("createdFile", "modifiedDir")
      BY RankIs DEF InOrder
    <3> QED BY <2>2, <3>1, OrderedKinds
  <2>4. /\ t \in Seq(Tidings) /\ Sorted(t)
        /\ Range(t) = IF HasFile(w)
             THEN {Of("modifiedFile", w)} ELSE {Of("createdFile", w), Of("modifiedDir", w)}
    BY <2>2, <2>3, OneTold, TwoTold
  <2> HIDE DEF t
  <2>5. ~OnlyWalks(t)
    <3>1. Of("modifiedFile", w).type # "walk" /\ Of("createdFile", w).type # "walk"
      BY DEF Of
    <3> QED BY <2>4, <3>1 DEF OnlyWalks
  <2>6. ks \in SUBSET Kind /\ Range(t) \ {RootModified} = {Of(k, w) : k \in ks}
    <3>1. Of("createdFile", w) # RootModified /\ Of("modifiedDir", w) # RootModified
          /\ Of("modifiedFile", w) # RootModified
      BY <2>2, OfParts
    <3> QED BY <2>2, <2>4, <3>1
  <2>7. Follows(disk[w], Waiting(pending, w), metadatas, w, raced, missed) /\ GoodRecord(disk[w])
    BY <1>1, <1>4, Watching, DiskRecord
  <2>8. ks = IF disk[w].size > 0 THEN {"modifiedFile"} ELSE {"createdFile", "modifiedDir"}
    BY DEF HasFile
  <2> HIDE DEF ks
  <2>9. /\ \A k1 \in Waiting(pending, w), k2 \in ks : InOrder(k1, k2)
        /\ Follows(disk'[w], Waiting(pending, w) \cup ks, metadatas, w, raced, missed)
    <3>1. Waiting(pending, w) \subseteq Kind
      BY DEF Waiting
    <3> DEFINE d == disk[w]
               e == disk'[w]
               ws == Waiting(pending, w)
    <3>2. /\ GoodRecord(d) /\ d.place \in Running /\ ws \subseteq Kind /\ e.place = d.place
          /\ e.size = d.size + 1
          /\ Follows(d, ws, metadatas, w, raced, missed)
          /\ ks = IF d.size > 0 THEN {"modifiedFile"} ELSE {"createdFile", "modifiedDir"}
      BY <1>1, <1>2, <2>7, <2>8, <3>1
    <3> HIDE DEF d, e, ws
    <3>3. /\ \A x \in ws, y \in ks : InOrder(x, y)
          /\ Follows(e, ws \cup ks, metadatas, w, raced, missed)
      BY <3>2, WrittenGrows
    <3> QED BY <3>3 DEF e, ws
  <2>10. missed' = missed
    BY <1>1, <1>4 DEF SMTypes
  <2>11. disk[w].place # "removed" /\ disk'[w].place # "removed" /\ disk'[w].place # "none"
    BY <1>1, <1>2 DEF Running
  <2> QED BY <1>1, <1>2, <1>4, <2>1, <2>4, <2>5, <2>6, <2>9, <2>10, <2>11, ToldKeeps
<1> QED BY <1>3, <1>4

\* The directory is renamed.
LEMMA RenamedMoves ==
  ASSUME NEW d, GoodRecord(d), d.place = "running", NEW ws, ws \subseteq Kind, NEW m, NEW w, NEW r,
         NEW s,
         Follows(d, ws, m, w, r, s), NEW e, e.place = "finished", e.size = d.size
  PROVE  /\ \A x \in ws, y \in {"movedDir", "walk"} : InOrder(x, y)
         /\ Follows(e, ws \cup {"movedDir", "walk"}, m, w, r, s)
<1>1. Grows(d, ws, m, w, s)
  BY DEF Follows, Running
<1>2. d.size \in Nat
  BY DEF GoodRecord
<1>3. \A x \in ws : Rank[x] \in 1 .. 8 /\ Rank[x] <= 3
  BY <1>1, RankNat DEF Grows
<1> DEFINE k == ws \cup {"movedDir", "walk"}
<1>4. \A x \in ws, y \in {"movedDir", "walk"} : InOrder(x, y)
  BY <1>3, RankIs DEF InOrder
<1>5. /\ \A x \in k : Rank[x] <= 5
      /\ \A x \in k : Rank[x] \in {2, 3} => x \in ws
      /\ "createdDir" \in k <=> "createdDir" \in ws
      /\ "createdFile" \in k <=> "createdFile" \in ws
      /\ "movedDir" \in k /\ "movedFile" \notin k /\ FileMoves(k)
  BY <1>3, RankIs DEF FileMoves
<1> HIDE DEF k
<1>6. /\ \A x \in k : Rank[x] \in {2, 3} => d.size > 0
      /\ Knows(m, w, FALSE, "dir") <=> "createdDir" \notin k
      /\ Knows(m, w, FALSE, "file") <=> d.size > 0 /\ "createdFile" \notin k
      /\ ~Knows(m, w, TRUE, "dir") /\ ~Knows(m, w, TRUE, "file")
  BY <1>1, <1>5 DEF Grows
<1>7. Moves(e, k, m, w)
  BY <1>5, <1>6 DEF Moves
<1> QED BY <1>4, <1>7 DEF Follows, Running, k

\* A task is done, and its directory is renamed.
LEMMA FinishTaskKeeps == ASSUME StorageInv, NEW w \in Task, FinishTask(w) PROVE StorageInv'
<1> DEFINE t == <<Of("movedDir", w), RootModified, Of("walk", w)>>
           ks == {"movedDir", "walk"}
<1>1. /\ SMTypes /\ disk[w].place = "running" /\ missed' = missed /\ raced' = raced
      /\ UNCHANGED monitorVars /\ disk' = [disk EXCEPT ![w].place = "finished"]
      /\ phase \in {"on", "dead"}
  <2>1. SMTypes /\ PhaseInv /\ disk[w].place = "running"
    BY DEF StorageInv, FinishTask
  <2>2. phase \in {"on", "dead"}
    BY <2>1 DEF SMTypes, PhaseInv
  <2> QED BY <2>1, <2>2 DEF FinishTask
<1>2. /\ disk' \in [Task -> [place : Place, size : 0 .. MaxSize]]
      /\ \A v \in Task : v # w => disk'[v] = disk[v]
      /\ disk'[w].place = "finished" /\ disk'[w].size = disk[w].size
  BY <1>1 DEF SMTypes, Place
<1>3. CASE phase = "dead"
  <2>1. pending' = pending
    BY <1>3 DEF FinishTask, Tells
  <2>2. \A v \in Task : disk'[v].place \in {"none", "removed"} => disk'[v].size = 0
    BY <1>1, <1>2 DEF SMTypes
  <2>3. missed' \in BOOLEAN
    BY <1>1 DEF SMTypes
  <2> QED BY <1>1, <1>2, <1>3, <2>1, <2>2, <2>3, UnheardKeeps
<1>4. CASE phase = "on"
  <2>1. pending' = pending \o t
    BY <1>4 DEF FinishTask, Tells, Event, Of, At
  <2>2. /\ Of("movedDir", w) \in Tidings /\ Of("walk", w) \in Tidings /\ RootModified \in Tidings
        /\ "movedDir" \in Kind /\ "walk" \in Kind
    BY DEF Tidings, Kind
  <2>3. /\ Ordered(Of("movedDir", w), RootModified) /\ Ordered(RootModified, Of("walk", w))
        /\ Ordered(Of("movedDir", w), Of("walk", w))
    <3>1. InOrder("movedDir", "walk")
      BY RankIs DEF InOrder
    <3> QED BY <2>2, <3>1, OrderedKinds
  <2>4. t \in Seq(Tidings) /\ Sorted(t)
        /\ Range(t) = {Of("movedDir", w), RootModified, Of("walk", w)}
    BY <2>2, <2>3, ThreeTold
  <2> HIDE DEF t
  <2>5. ~OnlyWalks(t)
    BY <2>4 DEF OnlyWalks, RootModified
  <2>6. ks \in SUBSET Kind /\ Range(t) \ {RootModified} = {Of(k, w) : k \in ks}
    <3>1. Of("movedDir", w) # RootModified /\ Of("walk", w) # RootModified
      BY <2>2, OfParts
    <3> QED BY <2>2, <2>4, <3>1
  <2>7. Follows(disk[w], Waiting(pending, w), metadatas, w, raced, missed) /\ GoodRecord(disk[w])
    BY <1>1, <1>4, Watching, DiskRecord
  <2>9. /\ \A k1 \in Waiting(pending, w), k2 \in ks : InOrder(k1, k2)
        /\ Follows(disk'[w], Waiting(pending, w) \cup ks, metadatas, w, raced, missed)
    <3>1. Waiting(pending, w) \subseteq Kind
      BY DEF Waiting
    <3> DEFINE d == disk[w]
               e == disk'[w]
               ws == Waiting(pending, w)
    <3>2. /\ GoodRecord(d) /\ d.place = "running" /\ ws \subseteq Kind /\ e.place = "finished"
          /\ e.size = d.size
          /\ Follows(d, ws, metadatas, w, raced, missed)
      BY <1>1, <1>2, <2>7, <3>1
    <3> HIDE DEF d, e, ws
    <3>3. /\ \A x \in ws, y \in {"movedDir", "walk"} : InOrder(x, y)
          /\ Follows(e, ws \cup {"movedDir", "walk"}, metadatas, w, raced, missed)
      BY <3>2, RenamedMoves
    <3> QED BY <3>3 DEF e, ws
  <2> HIDE DEF ks
  <2> QED BY <1>1, <1>2, <1>4, <2>1, <2>4, <2>5, <2>6, <2>9, ToldKeeps
<1> QED BY <1>1, <1>3, <1>4

\* There is a file in the directory, and watchdog tells that it was renamed.
LEMMA FoundFollows ==
  ASSUME NEW d, GoodRecord(d), NEW ws, ws \subseteq Kind, NEW m, NEW w, NEW r, NEW s,
         Follows(d, ws, m, w, r, s), "walk" \in ws, SizeOf(d, TRUE, "file") > 0
  PROVE  Follows(d, (ws \ {"walk"}) \cup {"movedFile"}, m, w, r, s)
<1> DEFINE k == (ws \ {"walk"}) \cup {"movedFile"}
<1>1. d.place = "finished" /\ d.size > 0
  <2>1. d.place \in {"finished", "removed"}
    BY RankIs, FollowsBounds
  <2>2. d.place # "removed"
    BY DEF SizeOf, Running
  <2> QED BY <2>1, <2>2 DEF SizeOf
<1>2. Moves(d, ws, m, w)
  BY <1>1 DEF Follows
<1>3. /\ \A x \in k : x \in ws \/ Rank[x] = 5
      /\ "movedDir" \in k <=> "movedDir" \in ws
      /\ "createdDir" \in k <=> "createdDir" \in ws
      /\ "createdFile" \in k <=> "createdFile" \in ws
      /\ FileMoves(k) /\ FileMoves(ws)
  BY RankIs DEF FileMoves
<1> HIDE DEF k
<1>4. Moves(d, k, m, w)
  <2>1. /\ \A x \in k : Rank[x] <= 5
        /\ \A x \in k : Rank[x] <= 3 => "movedDir" \in k
        /\ "movedDir" \in k /\ d.size > 0 => FileMoves(k)
        /\ "movedFile" \in k => d.size > 0
        /\ \A x \in k : Rank[x] \in {2, 3} => d.size > 0
    BY <1>1, <1>2, <1>3 DEF Moves
  <2>2. /\ Knows(m, w, FALSE, "dir") <=> "movedDir" \in k /\ "createdDir" \notin k
        /\ Knows(m, w, FALSE, "file") <=> d.size > 0 /\ FileMoves(k) /\ "createdFile" \notin k
        /\ Knows(m, w, TRUE, "dir") <=> "movedDir" \notin k
        /\ Knows(m, w, TRUE, "dir") => m[At(w, TRUE, "dir")] = 1
        /\ Knows(m, w, TRUE, "file") <=> d.size > 0 /\ ~FileMoves(k)
        /\ Knows(m, w, TRUE, "file") => m[At(w, TRUE, "file")] = d.size
    BY <1>1, <1>2, <1>3 DEF Moves
  <2> QED BY <2>1, <2>2 DEF Moves
<1> QED BY <1>1, <1>4 DEF Follows, Running, k

\* There is nothing to be told of.
LEMMA NotFoundFollows ==
  ASSUME NEW d, GoodRecord(d), NEW ws, ws \subseteq Kind, NEW m, NEW w, NEW r, NEW s,
         Follows(d, ws, m, w, r, s), "walk" \in ws, ~(SizeOf(d, TRUE, "file") > 0),
         NEW ws2, ws2 = ws \ {"walk"}
  PROVE  Follows(d, ws2, m, w, r, s)
<1>1. d.place \in {"finished", "removed"}
  BY RankIs, FollowsBounds
<1>2. /\ \A x \in ws2 : x \in ws
      /\ "movedDir" \in ws2 <=> "movedDir" \in ws
      /\ "createdDir" \in ws2 <=> "createdDir" \in ws
      /\ "createdFile" \in ws2 <=> "createdFile" \in ws
      /\ "movedFile" \in ws2 <=> "movedFile" \in ws
      /\ "deletedFile" \in ws2 <=> "deletedFile" \in ws
      /\ "deletedDir" \in ws2 <=> "deletedDir" \in ws
      /\ FileMoves(ws) /\ "walk" \notin ws2
  BY DEF FileMoves
<1>3. CASE d.place = "finished"
  <2>1. Moves(d, ws, m, w) /\ ~(d.size > 0)
    BY <1>3 DEF Follows, SizeOf
  <2>2. Moves(d, ws2, m, w)
    BY <1>2, <2>1 DEF Moves
  <2> QED BY <1>3, <2>2 DEF Follows, Running
<1>4. CASE d.place = "removed"
  <2>1. Vanishes(ws, m, w, r)
    BY <1>4 DEF Follows
  <2>2. r
    BY <2>1 DEF Vanishes
  <2>3. Vanishes(ws2, m, w, r)
    BY <1>2, <2>1, <2>2 DEF Vanishes
  <2> QED BY <1>4, <2>3 DEF Follows, Running
<1> QED BY <1>1, <1>3, <1>4

\* Watchdog looks into a directory that was renamed.
LEMMA WalkKeeps == ASSUME StorageInv, Walk PROVE StorageInv'
<1> DEFINE walks == {i \in DOMAIN pending : pending[i].type = "walk"}
<1>1. PICK i \in walks :
        /\ pending' = IF Size(pending[i].path) > 0
                      THEN [pending EXCEPT ![i].type = "moved"] ELSE RemoveAt(pending, i)
        /\ UNCHANGED <<disk, missed, raced>> /\ UNCHANGED monitorVars
  BY DEF Walk
<1>2. /\ SMTypes /\ pending \in Seq(Tidings) /\ Sorted(pending) /\ PhaseInv
  BY DEF StorageInv, SMTypes
<1>3. i \in 1 .. Len(pending) /\ pending[i] \in Tidings /\ pending[i].type = "walk"
  BY <1>1, <1>2, RangeIs
<1>4. phase = "on"
  BY <1>2, <1>3 DEF PhaseInv
<1>5. PICK w \in Task : pending[i] = Of("walk", w)
  <2>1. pending[i] # RootModified
    BY <1>3 DEF RootModified
  <2>2. PICK k \in Kind, w \in Task : pending[i] = Of(k, w)
    BY <1>3, <2>1, TidingIs
  <2>3. KindType[k] = "walk"
    BY <1>3, <2>2, OfParts
  <2>4. k = "walk"
    BY <2>3, Kinds DEF KindType
  <2> QED BY <2>2, <2>4
<1>6. /\ Metadatas(metadatas) /\ IsOrder(order, Names(metadatas))
      /\ occupied_size = TotalSize(metadatas)
      /\ EnoughCleared(metadatas, disk) /\ GoodRecord(disk[w])
      /\ \A v \in Task : Follows(disk[v], Waiting(pending, v), metadatas, v, raced, missed)
  BY <1>2, <1>4, Watching, DiskRecord
<1>7. /\ metadatas' = metadatas /\ order' = order /\ occupied_size' = occupied_size /\ disk' = disk
      /\ is_storage_sufficient' = is_storage_sufficient /\ phase' = "on" /\ quiet' = quiet
      /\ missed' = missed /\ raced' = raced
  BY <1>1, <1>4 DEF monitorVars
<1>8. Size(pending[i].path) = SizeOf(disk[w], TRUE, "file")
  <2>1. pending[i].path = At(w, TRUE, "file")
    <3>1. "walk" \in Kind
      BY DEF Kind
    <3>2. KindFinished["walk"] = TRUE /\ KindNode["walk"] = "file"
      BY <3>1, KindIs
    <3>3. Of("walk", w).path = At(w, KindFinished["walk"], KindNode["walk"])
      BY <3>1, OfParts
    <3> QED BY <1>5, <3>2, <3>3
  <2> DEFINE f == TRUE
             a == "file"
  <2>2. f \in BOOLEAN /\ a \in {"dir", "file"}
    OBVIOUS
  <2> HIDE DEF f, a
  <2>3. Size(At(w, f, a)) = SizeOf(disk[w], f, a)
    BY <1>2, <2>2, SizeAt
  <2> QED BY <2>1, <2>3 DEF f, a
<1>9. "walk" \in Waiting(pending, w) /\ Waiting(pending, w) \subseteq Kind
  <2>1. Of("walk", w) \in Range(pending)
    BY <1>2, <1>3, <1>5, RangeIs
  <2> QED BY <2>1 DEF Waiting, Kind
<1>10. ASSUME pending' \in Seq(Tidings), Sorted(pending'),
              OnlyWalks(pending') => OnlyWalks(pending),
              \A v \in Task : Follows(disk[v], Waiting(pending', v), metadatas, v, raced, missed)
       PROVE  StorageInv'
  <2>1. SMTypes'
    BY <1>2, <1>7, <1>10 DEF SMTypes
  <2>2. PhaseInv'
    BY <1>7 DEF PhaseInv
  <2>3. OnlyWalks(pending') /\ ~missed => FlagFits(is_storage_sufficient, occupied_size, quiet)
    BY <1>4, <1>10 DEF StorageInv, KnowsInv
  <2>4. KnowsInv'
    BY <1>6, <1>7, <1>10, <2>3 DEF KnowsInv
  <2> QED BY <1>10, <2>1, <2>2, <2>4 DEF StorageInv
<1>11. CASE Size(pending[i].path) > 0
  <2> DEFINE t == [pending EXCEPT ![i].type = "moved"]
  <2>1. pending' = t
    BY <1>1, <1>11
  <2>2. /\ t \in Seq(Tidings) /\ Sorted(t)
        /\ Waiting(t, w) = (Waiting(pending, w) \ {"walk"}) \cup {"movedFile"}
        /\ \A v \in Task : v # w => Waiting(t, v) = Waiting(pending, v)
        /\ ~OnlyWalks(t)
    <3> DEFINE s == pending
               e == Of("movedFile", w)
    <3>1. s \in Seq(Tidings) /\ Sorted(s) /\ i \in 1 .. Len(s) /\ s[i] = Of("walk", w)
      BY <1>2, <1>3, <1>5
    <3>2. [s[i] EXCEPT !.type = "moved"] = e
      <4>1. s[i] = [type |-> "walk", path |-> At(w, TRUE, "file")]
        BY <3>1 DEF Of
      <4>2. e = [type |-> "moved", path |-> At(w, TRUE, "file")]
        BY DEF Of
      <4> HIDE DEF e, s
      <4> QED BY <4>1, <4>2, MovedRecord
    <3>4. e \in Tidings
      BY DEF Tidings, Kind
    <3>5. t = [s EXCEPT ![i].type = "moved"]
      OBVIOUS
    <3> HIDE DEF t, s, e
    <3>6. t = [s EXCEPT ![i] = e]
      BY <3>1, <3>2, <3>5
    <3>7. t \in Seq(Tidings) /\ Len(t) = Len(s)
          /\ \A j \in 1 .. Len(s) : t[j] = IF j = i THEN e ELSE s[j]
      BY <3>1, <3>4, <3>6, ExceptSeq
    <3>8. \A j \in 1 .. Len(s) : t[j] = IF j = i THEN Of("movedFile", w) ELSE s[j]
      BY <3>7 DEF e
    <3>3. /\ t \in Seq(Tidings) /\ Sorted(t)
          /\ Waiting(t, w) = (Waiting(s, w) \ {"walk"}) \cup {"movedFile"}
          /\ \A v \in Task : v # w => Waiting(t, v) = Waiting(s, v)
          /\ ~OnlyWalks(t)
      BY <3>1, <3>7, <3>8, WalkFinds
    <3> QED BY <3>3 DEF s
  <2> HIDE DEF t
  <2>3. Follows(disk[w], Waiting(t, w), metadatas, w, raced, missed)
    <3>1. Follows(disk[w], Waiting(pending, w), metadatas, w, raced, missed)
          /\ SizeOf(disk[w], TRUE, "file") > 0
      BY <1>6, <1>8, <1>11
    <3>2. Follows(disk[w], (Waiting(pending, w) \ {"walk"}) \cup {"movedFile"}, metadatas, w, raced, missed)
      BY <1>6, <1>9, <3>1, FoundFollows
    <3> QED BY <2>2, <3>2
  <2>4. \A v \in Task : Follows(disk[v], Waiting(t, v), metadatas, v, raced, missed)
    BY <1>6, <2>2, <2>3
  <2> QED BY <1>10, <2>1, <2>2, <2>4
<1>12. CASE ~(Size(pending[i].path) > 0)
  <2> DEFINE t == RemoveAt(pending, i)
  <2>1. pending' = t
    BY <1>1, <1>12
  <2>2. t \in Seq(Tidings) /\ TakenOut(pending, i, t)
    BY <1>2, <1>3, RemoveAtIs DEF TakenOut
  <2> HIDE DEF t
  <2>3. Sorted(t) /\ Range(pending) = Range(t) \cup {pending[i]}
    BY <1>2, <1>3, <2>2, TakenOutSorted, TakenOutRange
  <2>4. /\ Waiting(t, w) = Waiting(pending, w) \ {"walk"}
        /\ \A v \in Task : v # w => Waiting(t, v) = Waiting(pending, v)
    <3>1. "walk" \in Kind /\ Rank["walk"] # 3
      BY RankIs DEF Kind
    <3>2. /\ Waiting(t, w) \subseteq Waiting(pending, w)
          /\ Waiting(pending, w) \ {"walk"} \subseteq Waiting(t, w)
          /\ "walk" \in Waiting(t, w) => Rank["walk"] = 3
          /\ \A v \in Task : v # w => Waiting(t, v) = Waiting(pending, v)
      BY <1>2, <1>3, <1>5, <2>2, <3>1, OneOut
    <3> QED BY <3>1, <3>2
  <2>5. OnlyWalks(t) => OnlyWalks(pending)
    BY <1>3, <2>3 DEF OnlyWalks
  <2>6. Follows(disk[w], Waiting(t, w), metadatas, w, raced, missed)
    <3>1. Follows(disk[w], Waiting(pending, w), metadatas, w, raced, missed)
          /\ ~(SizeOf(disk[w], TRUE, "file") > 0)
      BY <1>6, <1>8, <1>12
    <3> QED BY <1>6, <1>9, <2>4, <3>1, NotFoundFollows
  <2>7. \A v \in Task : Follows(disk[v], Waiting(t, v), metadatas, v, raced, missed)
    BY <1>6, <2>4, <2>6
  <2> QED BY <1>10, <2>1, <2>2, <2>3, <2>5, <2>7
<1> QED BY <1>11, <1>12

-----------------------------------------------------------------------------
\* What the monitor makes out of the directories.
LEMMA InspectedIs ==
  SMTypes =>
    /\ Metadatas(Inspected)
    /\ \A w \in Task, f \in BOOLEAN, a \in {"dir", "file"} :
         /\ Knows(Inspected, w, f, a) <=> SizeOf(disk[w], f, a) > 0
         /\ Knows(Inspected, w, f, a) => Inspected[At(w, f, a)] = SizeOf(disk[w], f, a)
    /\ \A n \in Name : n \in Names(Inspected) <=> Exists(n)
<1> SUFFICES ASSUME SMTypes
             PROVE  /\ Metadatas(Inspected)
                    /\ \A w \in Task, f \in BOOLEAN, a \in {"dir", "file"} :
                         /\ Knows(Inspected, w, f, a) <=> SizeOf(disk[w], f, a) > 0
                         /\ Knows(Inspected, w, f, a) =>
                              Inspected[At(w, f, a)] = SizeOf(disk[w], f, a)
                    /\ \A n \in Name : n \in Names(Inspected) <=> Exists(n)
  OBVIOUS
<1> DEFINE m == Inspected
<1>1. DOMAIN m = {q \in Path : Size(q) > 0} /\ \A p \in DOMAIN m : m[p] = Size(p)
  BY DEF Inspected
<1>2. \A w \in Task, f \in BOOLEAN, a \in {"dir", "file"} :
         At(w, f, a) \in Path /\ Size(At(w, f, a)) = SizeOf(disk[w], f, a)
         /\ Size(At(w, f, a)) \in Nat
  BY AtPath, SizeAt
<1>3. m = [p \in DOMAIN m |-> m[p]]
  BY <1>1 DEF Inspected
<1> HIDE DEF m
<1>4. \A p \in Path : Size(p) \in Nat
  <2> SUFFICES ASSUME NEW p \in Path PROVE Size(p) \in Nat
    OBVIOUS
  <2>1. p = At(p.name.task, p.name.finished, p.node) /\ p.name.task \in Task
        /\ p.name.finished \in BOOLEAN /\ p.node \in {"dir", "file"}
    BY PathAt
  <2> QED BY <1>2, <2>1
<1>5. Metadatas(m)
  BY <1>1, <1>3, <1>4 DEF Metadatas
<1>6. \A w \in Task, f \in BOOLEAN, a \in {"dir", "file"} :
         /\ Knows(m, w, f, a) <=> SizeOf(disk[w], f, a) > 0
         /\ Knows(m, w, f, a) => m[At(w, f, a)] = SizeOf(disk[w], f, a)
  BY <1>1, <1>2 DEF Knows
<1>7. ASSUME NEW n \in Name PROVE n \in Names(m) <=> Exists(n)
  <2> DEFINE p == [name |-> n, node |-> "dir"]
  <2>1. p \in Path /\ p.name = n /\ Size(p) = IF Exists(n) THEN 1 ELSE 0
    BY DEF Path, Size
  <2>2. \A q \in Path : Size(q) > 0 => Exists(q.name)
    BY DEF Size
  <2> HIDE DEF p
  <2> QED BY <1>1, <2>1, <2>2 DEF Names
<1> QED BY <1>5, <1>6, <1>7 DEF m

\* The same in the next state: the metadata are made once more after the clearing.
LEMMA InspectedIsLater ==
  (SMTypes =>
    /\ Metadatas(Inspected)
    /\ \A w \in Task, f \in BOOLEAN, a \in {"dir", "file"} :
         /\ Knows(Inspected, w, f, a) <=> SizeOf(disk[w], f, a) > 0
         /\ Knows(Inspected, w, f, a) => Inspected[At(w, f, a)] = SizeOf(disk[w], f, a)
    /\ \A n \in Name : n \in Names(Inspected) <=> Exists(n))'
BY InspectedIs, PTL

\* The monitor knows of a task what there is.
SizesAre(m, d, w) ==
  \A f \in BOOLEAN, a \in {"dir", "file"} :
    /\ Knows(m, w, f, a) <=> SizeOf(d, f, a) > 0
    /\ Knows(m, w, f, a) => m[At(w, f, a)] = SizeOf(d, f, a)

\* Who knows of a task what there is follows it.
LEMMA InspectedFollows ==
  ASSUME NEW d, GoodRecord(d), NEW m, NEW w, NEW r, NEW s, SizesAre(m, d, w)
  PROVE  Follows(d, {}, m, w, r, s)
<1> DEFINE x1 == SizeOf(d, FALSE, "dir")
           x2 == SizeOf(d, FALSE, "file")
           y1 == SizeOf(d, TRUE, "dir")
           y2 == SizeOf(d, TRUE, "file")
<1>1. /\ Knows(m, w, FALSE, "dir") <=> x1 > 0
      /\ Knows(m, w, FALSE, "file") <=> x2 > 0
      /\ Knows(m, w, TRUE, "dir") <=> y1 > 0
      /\ Knows(m, w, TRUE, "file") <=> y2 > 0
      /\ Knows(m, w, FALSE, "dir") => m[At(w, FALSE, "dir")] = x1
      /\ Knows(m, w, FALSE, "file") => m[At(w, FALSE, "file")] = x2
      /\ Knows(m, w, TRUE, "dir") => m[At(w, TRUE, "dir")] = y1
      /\ Knows(m, w, TRUE, "file") => m[At(w, TRUE, "file")] = y2
  BY DEF SizesAre
<1> HIDE DEF x1, x2, y1, y2
<1>2. CASE d.place \in {"none", "removed"}
  <2>1. \A f \in BOOLEAN, a \in {"dir", "file"} : ~Knows(m, w, f, a)
    BY <1>2 DEF SizesAre, SizeOf, Running
  <2>2. Unborn({}, m, w) /\ Vanishes({}, m, w, r)
    BY <2>1 DEF Unborn, Vanishes
  <2> QED BY <1>2, <2>2 DEF Follows, Running
<1>3. CASE d.place \in Running
  <2>1. x1 = 1 /\ x2 = d.size /\ y1 = 0 /\ y2 = 0
    BY <1>3 DEF SizeOf, Running, x1, x2, y1, y2
  <2>2. /\ Knows(m, w, FALSE, "dir") /\ m[At(w, FALSE, "dir")] = 1
        /\ Knows(m, w, FALSE, "file") <=> d.size > 0
        /\ Knows(m, w, FALSE, "file") => m[At(w, FALSE, "file")] = d.size
        /\ ~Knows(m, w, TRUE, "dir") /\ ~Knows(m, w, TRUE, "file")
    BY <1>1, <2>1, 1 > 0, ~(0 > 0)
  <2>3. Grows(d, {}, m, w, s)
    BY <2>2 DEF Grows
  <2> QED BY <1>3, <2>3 DEF Follows, Running
<1>4. CASE d.place = "finished"
  <2>1. y1 = 1 /\ y2 = d.size /\ x1 = 0 /\ x2 = 0
    BY <1>4 DEF SizeOf, Running, x1, x2, y1, y2
  <2>2. /\ Knows(m, w, TRUE, "dir") /\ m[At(w, TRUE, "dir")] = 1
        /\ Knows(m, w, TRUE, "file") <=> d.size > 0
        /\ Knows(m, w, TRUE, "file") => m[At(w, TRUE, "file")] = d.size
        /\ ~Knows(m, w, FALSE, "dir") /\ ~Knows(m, w, FALSE, "file")
    BY <1>1, <2>1, 1 > 0, ~(0 > 0)
  <2>3. Moves(d, {}, m, w)
    BY <2>2 DEF Moves, FileMoves
  <2> QED BY <1>4, <2>3 DEF Follows, Running
<1> QED BY <1>2, <1>3, <1>4 DEF GoodRecord, Place

\* What clearing does before the monitor watches.
LEMMA StartClears ==
  ASSUME StorageInv, phase = "initial", NEW o \in Orders,
         JudgeAndClear(Inspected, o, <<>>, FALSE, TotalSize(Inspected), TotalSize(Inspected))
  PROVE  /\ pending' = <<>> /\ is_storage_sufficient' \in BOOLEAN /\ raced' \in BOOLEAN
         /\ disk' \in [Task -> [place : Place, size : 0 .. MaxSize]]
         /\ \A w \in Task : disk'[w].place \in {"none", "removed"} => disk'[w].size = 0
         /\ \A w \in Task : disk'[w] = disk[w] \/ disk'[w].place = "removed"
         /\ EnoughCleared(Inspected, disk')
         /\ is_storage_sufficient' => Part(Inspected, Standing(disk')) <= quota
<1> DEFINE m == Inspected
           b == TotalSize(m) - healthy_size
           D == Cleared(m, o, b)
<1>1. SMTypes
  BY DEF StorageInv
<1>2. Metadatas(m) /\ \A n \in Name : n \in Names(m) <=> Exists(n)
  BY <1>1, InspectedIs
<1>3. Names(m) = {n \in Name : Exists(n)}
  <2>1. Names(m) \subseteq Name
    BY <1>2, PathAt DEF Metadatas, Names
  <2> QED BY <1>2, <2>1
<1>4. IsOrder(o, Names(m))
  <2>1. {n \in Name : Exists(n)} \subseteq Name /\ o \in SetToSeqs({n \in Name : Exists(n)})
    BY DEF Orders
  <2> QED BY <1>3, <2>1, SequencesOrder
<1> HIDE DEF m
<1>5. TotalSize(m) \in Nat /\ b \in Int
  <2>1. TotalSize(m) \in Nat
    BY <1>2, PartTotal, KnownFinite
  <2> QED BY <2>1, StorageAssumption
<1>6. CASE ~Triggered(FALSE, TotalSize(m), TotalSize(m))
  <2>1. disk' = disk /\ pending' = <<>> /\ raced' = raced
        /\ is_storage_sufficient' = (TotalSize(m) <= quota)
    BY <1>6 DEF JudgeAndClear, m
  <2>2. TotalSize(m) <= alarm_size
    BY <1>5, <1>6, StorageAssumption DEF Triggered
  <2>3. Part(m, Standing(disk)) <= TotalSize(m) /\ Part(m, Standing(disk)) \in Nat
    BY <1>2, PartWithin, KnownFinite
  <2>4. Part(m, Standing(disk)) <= alarm_size /\ Part(m, Standing(disk)) <= quota
    BY <1>5, <2>2, <2>3, StorageAssumption
  <2>5. (TotalSize(m) <= quota) \in BOOLEAN
    BY <1>5, StorageAssumption
  <2> QED BY <1>1, <2>1, <2>4, <2>5 DEF SMTypes, EnoughCleared, m
<1>7. CASE Triggered(FALSE, TotalSize(m), TotalSize(m))
  <2>1. /\ disk' = Rmtree(Removed(D)) /\ pending' = <<>>
           /\ raced' = (raced \/ Walks(<<>>, Removed(D)))
        /\ is_storage_sufficient' = IsDone(m, o, b)
    BY <1>7 DEF JudgeAndClear, m
  <2>2. \A n \in D : n \in Names(m) /\ n.finished
    <3> HIDE DEF b
    <3> QED BY <1>2, <1>4, <1>5, ClearedAre
  <2> HIDE DEF D, b
  <2>3. ASSUME NEW p \in DOMAIN m, p.name \in D PROVE disk'[p.name.task].place = "removed"
    <3>1. p.name \in Name /\ Exists(p.name)
      BY <1>3, <2>2, <2>3
    <3>2. p.name.task \in Task
      BY <3>1 DEF Name
    <3>3. p.name.task \in Removed(D)
      BY <2>3, <3>1, <3>2 DEF Removed
    <3> QED BY <1>1, <2>1, <3>2, <3>3, RmtreeTypes
  <2>4. /\ EnoughCleared(m, disk')
        /\ IsDone(m, o, b) => Part(m, Standing(disk')) < healthy_size
    <3> DEFINE dk == disk'
    <3>1. \A p \in DOMAIN m : p.name \in Cleared(m, o, TotalSize(m) - healthy_size) =>
            dk[p.name.task].place = "removed"
      BY <2>3 DEF D, b
    <3> HIDE DEF dk
    <3>2. /\ EnoughCleared(m, dk)
          /\ IsDone(m, o, b) => Part(m, Standing(dk)) < healthy_size
      BY <1>2, <1>4, <3>1, ClearingSuffices DEF b
    <3> QED BY <3>2 DEF dk
  <2>5. IsDone(m, o, b) => Part(m, Standing(disk')) <= quota
    <3>1. Part(m, Standing(disk')) \in Nat
      BY <1>2, KnownFinite
    <3> QED BY <2>4, <3>1, StorageAssumption
  <2>6. /\ disk' \in [Task -> [place : Place, size : 0 .. MaxSize]]
        /\ \A w \in Task : disk'[w].place \in {"none", "removed"} => disk'[w].size = 0
        /\ \A w \in Task : disk'[w] = disk[w] \/ disk'[w].place = "removed"
    BY <1>1, <2>1, RmtreeTypes
  <2>7. IsDone(m, o, b) \in BOOLEAN /\ (raced \/ Walks(<<>>, Removed(D))) \in BOOLEAN
    BY DEF IsDone
  <2> QED BY <2>1, <2>4, <2>5, <2>6, <2>7 DEF m
<1> QED BY <1>6, <1>7

\* The monitor starts.
LEMMA StartKeeps == ASSUME StorageInv, Start PROVE StorageInv'
<1> DEFINE m0 == Inspected
           m1 == Inspected'
           S == Standing(disk')
<1>1. PICK o \in Orders :
        /\ JudgeAndClear(m0, o, <<>>, FALSE, TotalSize(m0), TotalSize(m0))
        /\ metadatas' = m1 /\ order' \in Orders' /\ occupied_size' = TotalSize(metadatas')
  BY DEF Start
<1>2. phase = "initial" /\ phase' = "started" /\ missed' = missed /\ quiet' = quiet
  BY DEF Start
<1>3. SMTypes /\ PhaseInv
  BY DEF StorageInv
<1>4. /\ pending' = <<>> /\ is_storage_sufficient' \in BOOLEAN /\ raced' \in BOOLEAN
      /\ disk' \in [Task -> [place : Place, size : 0 .. MaxSize]]
      /\ \A w \in Task : disk'[w].place \in {"none", "removed"} => disk'[w].size = 0
      /\ \A w \in Task : disk'[w] = disk[w] \/ disk'[w].place = "removed"
      /\ EnoughCleared(m0, disk')
      /\ is_storage_sufficient' => Part(m0, S) <= quota
  BY <1>1, <1>2, StartClears
<1>5. SMTypes'
  <2>1. <<>> \in Seq(Tidings)
    BY NothingTold
  <2> QED BY <1>2, <1>3, <1>4, <2>1 DEF SMTypes
<1>6. Sorted(pending')
  BY <1>4, NothingTold
<1>7. \A w \in Task : disk[w].place \notin {"running", "removed"} /\ quiet
  BY <1>2, <1>3 DEF PhaseInv
<1>8. PhaseInv'
  <2>1. \A w \in Task : disk'[w].place # "running"
    BY <1>4, <1>7
  <2>2. quiet' = quiet /\ quiet
    BY <1>2, <1>3 DEF PhaseInv
  <2> QED BY <1>2, <1>4, <2>1, <2>2 DEF PhaseInv
<1>9. /\ Metadatas(m0)
      /\ \A w \in Task, f \in BOOLEAN, a \in {"dir", "file"} :
           /\ Knows(m0, w, f, a) <=> SizeOf(disk[w], f, a) > 0
           /\ Knows(m0, w, f, a) => m0[At(w, f, a)] = SizeOf(disk[w], f, a)
  BY <1>3, InspectedIs
<1>10. /\ Metadatas(m1)
       /\ \A w \in Task, f \in BOOLEAN, a \in {"dir", "file"} :
            /\ Knows(m1, w, f, a) <=> SizeOf(disk'[w], f, a) > 0
            /\ Knows(m1, w, f, a) => m1[At(w, f, a)] = SizeOf(disk'[w], f, a)
       /\ \A n \in Name : n \in Names(m1) <=> Exists(n)'
  BY <1>5, InspectedIsLater
<1> HIDE DEF m0, m1
<1>11. ASSUME NEW p \in Path
       PROVE  /\ p \in DOMAIN m1 <=> p \in DOMAIN m0 /\ p \in S
              /\ p \in DOMAIN m1 => m1[p] = m0[p]
  <2> DEFINE w == p.name.task
             f == p.name.finished
             a == p.node
  <2>1. p = At(w, f, a) /\ w \in Task /\ f \in BOOLEAN /\ a \in {"dir", "file"}
    BY PathAt
  <2>2. p \in S <=> disk'[w].place # "removed"
    BY DEF Standing
  <2> HIDE DEF w, f, a
  <2>3. /\ p \in DOMAIN m0 <=> SizeOf(disk[w], f, a) > 0
        /\ p \in DOMAIN m0 => m0[p] = SizeOf(disk[w], f, a)
        /\ p \in DOMAIN m1 <=> SizeOf(disk'[w], f, a) > 0
        /\ p \in DOMAIN m1 => m1[p] = SizeOf(disk'[w], f, a)
    BY <1>9, <1>10, <2>1 DEF Knows
  <2>4. disk'[w].place = "removed" => SizeOf(disk'[w], f, a) = 0
    BY DEF SizeOf, Running
  <2>5. disk'[w] = disk[w] \/ disk'[w].place = "removed"
    BY <1>4, <2>1
  <2>6. disk[w].place # "removed"
    BY <1>7, <2>1
  <2> QED BY <2>2, <2>3, <2>4, <2>5, <2>6
<1>12. DOMAIN m1 \subseteq Path /\ DOMAIN m0 \subseteq Path
  BY <1>9, <1>10 DEF Metadatas
<1>13. TotalSize(m1) = Part(m0, S) /\ Part(m1, S) = Part(m0, S)
  <2> HIDE DEF S
  <2>1. DOMAIN m1 \cap Path = DOMAIN m0 \cap S /\ DOMAIN m1 \cap S = DOMAIN m0 \cap S
    BY <1>11, <1>12
  <2>2. \A p \in DOMAIN m1 : m1[p] = m0[p]
    BY <1>11, <1>12
  <2>3. Part(m1, Path) = Part(m0, S) /\ Part(m1, S) = Part(m0, S)
    BY <1>10, <2>1, <2>2, PartSame
  <2> QED BY <1>10, <2>3, PartTotal
<1>14. EnoughCleared(m1, disk')
  <2>1. DOMAIN m1 \subseteq DOMAIN m0
    BY <1>11, <1>12
  <2> QED BY <1>4, <1>13, <2>1 DEF EnoughCleared
<1>15. \A w \in Task : Follows(disk'[w], Waiting(pending', w), m1, w, raced', missed')
  <2> SUFFICES ASSUME NEW w \in Task
               PROVE  Follows(disk'[w], Waiting(pending', w), m1, w, raced', missed')
    OBVIOUS
  <2>1. Waiting(pending', w) = {}
    BY <1>4, NothingTold
  <2> DEFINE d == disk'[w]
             r == raced'
             s == missed'
  <2>2. GoodRecord(d)
    BY <1>4, StorageAssumption DEF GoodRecord
  <2>3. SizesAre(m1, d, w)
    BY <1>10 DEF SizesAre
  <2> HIDE DEF d, r, s
  <2>4. Follows(d, {}, m1, w, r, s)
    BY <2>2, <2>3, InspectedFollows
  <2> QED BY <2>1, <2>4 DEF d, r, s
<1>16. IsOrder(order', Names(m1))
  <2> DEFINE ns == {n \in Name : Exists(n)'}
  <2>1. order' \in SetToSeqs(ns)
    BY <1>1 DEF Orders
  <2>2. Names(m1) \subseteq Name
    BY <1>12, PathAt DEF Names
  <2>3. Names(m1) = ns
    BY <1>10, <2>2
  <2>4. ns \subseteq Name
    OBVIOUS
  <2> HIDE DEF ns
  <2> QED BY <2>1, <2>3, <2>4, SequencesOrder
<1>17. FlagFits(is_storage_sufficient', TotalSize(m1), quiet')
  <2>1. quiet'
    BY <1>2, <1>3 DEF PhaseInv
  <2> QED BY <1>4, <1>13, <2>1 DEF FlagFits
<1>18. KnowsInv'
  BY <1>1, <1>10, <1>14, <1>15, <1>16, <1>17 DEF KnowsInv
<1> QED BY <1>5, <1>6, <1>8, <1>18 DEF StorageInv

-----------------------------------------------------------------------------
(* Storage: the theorems.                                                  *)

\* The invariant holds at the start of the agent.
LEMMA StorageInit == SMInit => StorageInv
<1> SUFFICES ASSUME SMInit PROVE StorageInv
  OBVIOUS
<1>1. /\ phase = "initial" /\ pending = <<>> /\ quiet = TRUE /\ missed = FALSE /\ raced = FALSE
      /\ is_storage_sufficient = TRUE
      /\ disk \in [Task -> [place : {"none", "left", "finished"}, size : 0 .. MaxSize]]
      /\ \A w \in Task : disk[w].place = "none" => disk[w].size = 0
  BY DEF SMInit
<1>2. disk \in [Task -> [place : Place, size : 0 .. MaxSize]]
  <2>1. {"none", "left", "finished"} \subseteq Place
    BY DEF Place, Running
  <2> QED BY <1>1, <2>1
<1>3. \A w \in Task : disk[w].place \in {"none", "left", "finished"}
  BY <1>1
<1>4. SMTypes
  BY <1>1, <1>2, <1>3, NothingTold DEF SMTypes
<1>5. PhaseInv
  BY <1>1, <1>3 DEF PhaseInv
<1>6. KnowsInv /\ Sorted(pending)
  BY <1>1, NothingTold DEF KnowsInv
<1> QED BY <1>4, <1>5, <1>6 DEF StorageInv

\* Every step keeps it.
LEMMA StorageNext == StorageInv /\ [SMNext]_smVars => StorageInv'
<1> SUFFICES ASSUME StorageInv, [SMNext]_smVars PROVE StorageInv'
  OBVIOUS
<1>1. CASE Start
  BY <1>1, StartKeeps
<1>2. CASE Observe
  BY <1>2, ObserveKeeps
<1>3. CASE OnCreated
  BY <1>3, OnCreatedKeeps
<1>4. CASE OnModified
  BY <1>4, OnModifiedKeeps
<1>5. CASE OnDeleted
  BY <1>5, OnDeletedKeeps
<1>6. CASE OnMoved
  BY <1>6, OnMovedKeeps
<1>7. CASE Walk
  BY <1>7, WalkKeeps
<1>8. ASSUME NEW w \in Task, CreateTask(w) PROVE StorageInv'
  BY <1>8, CreateTaskKeeps
<1>9. ASSUME NEW w \in Task, Write(w) PROVE StorageInv'
  BY <1>9, WriteKeeps
<1>10. ASSUME NEW w \in Task, FinishTask(w) PROVE StorageInv'
  BY <1>10, FinishTaskKeeps
<1>11. CASE UNCHANGED smVars
  <2>1. /\ disk' = disk /\ pending' = pending /\ metadatas' = metadatas /\ order' = order
        /\ occupied_size' = occupied_size /\ is_storage_sufficient' = is_storage_sufficient
        /\ phase' = phase /\ missed' = missed /\ raced' = raced /\ quiet' = quiet
    BY <1>11 DEF smVars
  <2>2. SMTypes' /\ Sorted(pending') /\ PhaseInv'
    BY <2>1 DEF StorageInv, SMTypes, PhaseInv
  <2>3. KnowsInv'
    BY <2>1 DEF StorageInv, KnowsInv
  <2> QED BY <2>2, <2>3 DEF StorageInv
<1> QED BY <1>1, <1>2, <1>3, <1>4, <1>5, <1>6, <1>7, <1>8, <1>9, <1>10, <1>11 DEF SMNext

\* What the monitor knows follows the disk: all that it does not know yet is still to be
\* told, in the order in which it happened, through every write, renaming and removal,
\* for any finite set of tasks, any sizes and any backlog.
THEOREM StorageStays == SMSpec => []StorageInv
<1> QED BY StorageInit, StorageNext, PTL DEF SMSpec

\* When all has been handled, nothing is waiting of any task.
LEMMA UpToDateIs ==
  ASSUME StorageInv, UpToDate
  PROVE  /\ SMTypes /\ phase = "on" /\ pending = <<>>
         /\ \A w \in Task :
              Follows(disk[w], {}, metadatas, w, raced, missed) /\ GoodRecord(disk[w]) /\ ~missed
<1>1. SMTypes /\ phase = "on" /\ pending = <<>> /\ ~missed
  BY DEF StorageInv, UpToDate
<1>2. \A w \in Task : Waiting(pending, w) = {}
  BY <1>1, NothingTold
<1>3. \A w \in Task : Follows(disk[w], Waiting(pending, w), metadatas, w, raced, missed)
  BY <1>1, Watching
<1> QED BY <1>1, <1>2, <1>3, DiskRecord

\* When nothing is to be told of any task, what is known of it is what there is.
LEMMA UpToDateSizes ==
  ASSUME StorageInv, UpToDate, NEW w \in Task
  PROVE  /\ SizesAre(metadatas, disk[w], w)
         /\ disk[w].place = "finished" => Knows(metadatas, w, TRUE, "dir")
<1> DEFINE d == disk[w]
           m == metadatas
           r == raced
           s == missed
<1>0. GoodRecord(d) /\ Follows(d, {}, m, w, r, s) /\ ~s
  BY UpToDateIs
<1> HIDE DEF d, m, r, s
<1> DEFINE x1 == SizeOf(d, FALSE, "dir")
           x2 == SizeOf(d, FALSE, "file")
           y1 == SizeOf(d, TRUE, "dir")
           y2 == SizeOf(d, TRUE, "file")
<1>1. SUFFICES /\ Knows(m, w, FALSE, "dir") <=> x1 > 0
               /\ Knows(m, w, FALSE, "file") <=> x2 > 0
               /\ Knows(m, w, TRUE, "dir") <=> y1 > 0
               /\ Knows(m, w, TRUE, "file") <=> y2 > 0
               /\ Knows(m, w, FALSE, "dir") => m[At(w, FALSE, "dir")] = x1
               /\ Knows(m, w, FALSE, "file") => m[At(w, FALSE, "file")] = x2
               /\ Knows(m, w, TRUE, "dir") => m[At(w, TRUE, "dir")] = y1
               /\ Knows(m, w, TRUE, "file") => m[At(w, TRUE, "file")] = y2
               /\ d.place = "finished" => Knows(m, w, TRUE, "dir")
  BY DEF SizesAre, d, m
<1> HIDE DEF x1, x2, y1, y2
<1>2. CASE d.place \in {"none", "removed"}
  <2>1. x1 = 0 /\ x2 = 0 /\ y1 = 0 /\ y2 = 0
    BY <1>2 DEF SizeOf, Running, x1, x2, y1, y2
  <2>2. /\ ~Knows(m, w, FALSE, "dir") /\ ~Knows(m, w, FALSE, "file")
        /\ ~Knows(m, w, TRUE, "dir") /\ ~Knows(m, w, TRUE, "file")
    <3>1. CASE d.place = "none"
      BY <1>0, <3>1 DEF Follows, Unborn
    <3>2. CASE d.place = "removed"
      BY <1>0, <3>2 DEF Follows, Vanishes
    <3> QED BY <1>2, <3>1, <3>2
  <2> QED BY <1>2, <2>1, <2>2, ~(0 > 0)
<1>3. CASE d.place \in Running
  <2>1. x1 = 1 /\ x2 = d.size /\ y1 = 0 /\ y2 = 0
    BY <1>3 DEF SizeOf, Running, x1, x2, y1, y2
  <2>2. Grows(d, {}, m, w, s)
    BY <1>0, <1>3 DEF Follows
  <2>3. /\ Knows(m, w, FALSE, "dir") /\ m[At(w, FALSE, "dir")] = 1
        /\ Knows(m, w, FALSE, "file") <=> d.size > 0
        /\ Knows(m, w, FALSE, "file") => m[At(w, FALSE, "file")] = d.size
        /\ ~Knows(m, w, TRUE, "dir") /\ ~Knows(m, w, TRUE, "file")
    BY <1>0, <2>2 DEF Grows
  <2> QED BY <1>3, <2>1, <2>3, 1 > 0, ~(0 > 0) DEF Running
<1>4. CASE d.place = "finished"
  <2>1. y1 = 1 /\ y2 = d.size /\ x1 = 0 /\ x2 = 0
    BY <1>4 DEF SizeOf, Running, x1, x2, y1, y2
  <2>2. Moves(d, {}, m, w)
    BY <1>0, <1>4 DEF Follows
  <2>3. /\ Knows(m, w, TRUE, "dir") /\ m[At(w, TRUE, "dir")] = 1
        /\ Knows(m, w, TRUE, "file") <=> d.size > 0
        /\ Knows(m, w, TRUE, "file") => m[At(w, TRUE, "file")] = d.size
        /\ ~Knows(m, w, FALSE, "dir") /\ ~Knows(m, w, FALSE, "file")
    BY <2>2 DEF Moves, FileMoves
  <2> QED BY <1>4, <2>1, <2>3, 1 > 0, ~(0 > 0)
<1> QED BY <1>2, <1>3, <1>4, <1>0 DEF GoodRecord, Place

\* So the sizes in the metadata are those on the disk.
LEMMA SizesHold == StorageInv => SizesConverge
<1> SUFFICES ASSUME StorageInv, UpToDate
             PROVE  /\ DOMAIN metadatas = {p \in Path : Size(p) > 0}
                    /\ \A p \in Path : Cached(metadatas, p) = Size(p)
                    /\ occupied_size = TotalSize(metadatas)
  BY DEF SizesConverge
<1>1. /\ SMTypes /\ phase = "on" /\ pending = <<>>
      /\ \A w \in Task :
           Follows(disk[w], {}, metadatas, w, raced, missed) /\ GoodRecord(disk[w]) /\ ~missed
  BY UpToDateIs
<1>2. /\ Metadatas(metadatas) /\ occupied_size = TotalSize(metadatas)
  BY <1>1, Watching
<1>3. \A w \in Task : SizesAre(metadatas, disk[w], w)
  BY UpToDateSizes
<1>4. ASSUME NEW p \in Path
      PROVE  /\ p \in DOMAIN metadatas <=> Size(p) > 0
             /\ Cached(metadatas, p) = Size(p)
  <2> DEFINE w == p.name.task
             f == p.name.finished
             a == p.node
  <2>1. p = At(w, f, a) /\ w \in Task /\ f \in BOOLEAN /\ a \in {"dir", "file"}
    BY PathAt
  <2> HIDE DEF w, f, a
  <2>2. Size(p) = SizeOf(disk[w], f, a) /\ Size(p) \in Nat
    BY <1>1, <2>1, SizeAt
  <2>3. /\ p \in DOMAIN metadatas <=> SizeOf(disk[w], f, a) > 0
        /\ p \in DOMAIN metadatas => metadatas[p] = SizeOf(disk[w], f, a)
    BY <1>3, <2>1 DEF SizesAre, Knows
  <2> QED BY <2>2, <2>3 DEF Cached
<1>5. DOMAIN metadatas \subseteq Path
  BY <1>2 DEF Metadatas
<1> QED BY <1>2, <1>4, <1>5

\* And what is known of directories that stand is not above alarm_size, unless none of
\* them can be removed.
LEMMA ClearHolds == StorageInv => ClearsEnough
<1> SUFFICES ASSUME StorageInv, UpToDate, occupied_size > alarm_size, NEW w \in Task,
                    disk[w].place = "finished"
             PROVE  FALSE
  BY DEF ClearsEnough
<1>1. /\ SMTypes /\ phase = "on" /\ pending = <<>>
      /\ \A v \in Task :
           Follows(disk[v], {}, metadatas, v, raced, missed) /\ GoodRecord(disk[v]) /\ ~missed
  BY UpToDateIs
<1>2. Metadatas(metadatas) /\ occupied_size = TotalSize(metadatas) /\ EnoughCleared(metadatas, disk)
  BY <1>1, Watching
<1>3. CASE \A p \in DOMAIN metadatas : p.name.finished => disk[p.name.task].place = "removed"
  <2>1. Knows(metadatas, w, TRUE, "dir")
    BY UpToDateSizes
  <2>2. At(w, TRUE, "dir").name.finished /\ At(w, TRUE, "dir").name.task = w
    BY DEF At
  <2> QED BY <1>3, <2>1, <2>2 DEF Knows
<1>4. CASE Part(metadatas, Standing(disk)) <= alarm_size
  <2>1. ASSUME NEW p \in DOMAIN metadatas PROVE p \in Standing(disk)
    <3> DEFINE v == p.name.task
    <3>1. p \in Path
      BY <1>2 DEF Metadatas
    <3>2. p = At(v, p.name.finished, p.node) /\ v \in Task /\ p.name.finished \in BOOLEAN
          /\ p.node \in {"dir", "file"}
      BY <3>1, PathAt
    <3>3. Knows(metadatas, v, p.name.finished, p.node)
      BY <3>2 DEF Knows
    <3> HIDE DEF v
    <3>4. SizesAre(metadatas, disk[v], v)
      BY <3>2, UpToDateSizes
    <3>5. SizeOf(disk[v], p.name.finished, p.node) > 0
      BY <3>2, <3>3, <3>4 DEF SizesAre
    <3>6. disk[v].place # "removed"
      BY <3>5 DEF SizeOf, Running
    <3> QED BY <3>1, <3>6 DEF Standing, v
  <2>2. DOMAIN metadatas \cap Standing(disk) = DOMAIN metadatas \cap Path
    BY <1>2, <2>1 DEF Metadatas
  <2>3. Part(metadatas, Standing(disk)) = Part(metadatas, Path)
    BY <2>2 DEF Part
  <2>4. TotalSize(metadatas) = Part(metadatas, Path) /\ Part(metadatas, Path) \in Nat
    BY <1>2, PartTotal, KnownFinite
  <2> QED BY <1>2, <1>4, <2>3, <2>4, StorageAssumption
<1> QED BY <1>2, <1>3, <1>4 DEF EnoughCleared

\* The flag was set by the last event that was handled.
LEMMA FlagHolds == StorageInv => FlagIsTrue
<1> SUFFICES ASSUME StorageInv, UpToDate
             PROVE  /\ is_storage_sufficient => occupied_size <= quota
                    /\ ~is_storage_sufficient => occupied_size > alarm_size \/ quiet
  BY DEF FlagIsTrue
<1>1. phase = "on" /\ pending = <<>> /\ ~missed
  BY DEF UpToDate
<1>2. OnlyWalks(pending)
  BY <1>1, NothingTold
<1>3. FlagFits(is_storage_sufficient, occupied_size, quiet)
  BY <1>1, <1>2 DEF StorageInv, KnowsInv
<1> QED BY <1>3 DEF FlagFits

\* StorageManager: once the monitor has handled all there is, what it knows is what is
\* on the disk, and occupied_size is the sum of it.
THEOREM SizesConvergeAlways == SMSpec => []SizesConverge
BY StorageStays, SizesHold, PTL

\* StorageManager: and above alarm_size no directory of a finished task is left, whatever
\* grew and whichever tasks ended between two clearings.
THEOREM ClearsEnoughAlways == SMSpec => []ClearsEnough
BY StorageStays, ClearHolds, PTL

\* StorageManager: the agent takes tasks within the quota only, and refuses them above
\* alarm_size only, or after a start that has cleared and has heard of nothing since.
THEOREM FlagIsTrueAlways == SMSpec => []FlagIsTrue
BY StorageStays, FlagHolds, PTL

\* StorageManager: no KeyError ends the thread of the monitor, unless a directory was
\* removed before watchdog had looked into it.
THEOREM DiesOnlyInARaceAlways == SMSpec => []DiesOnlyInARace
<1>1. StorageInv => DiesOnlyInARace
  BY DEF StorageInv, PhaseInv, DiesOnlyInARace
<1> QED BY <1>1, StorageStays, PTL

=============================================================================
