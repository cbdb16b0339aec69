------------------------- MODULE ClientManager_proofs -------------------------
(***************************************************************************)
(* Theorems about ClientManager, for any clients, jobs, addresses, types   *)
(* and limits.                                                             *)
(***************************************************************************)
EXTENDS ClientManager, Functions, FiniteSetTheorems, TLAPS

-----------------------------------------------------------------------------
(* The induction. *)

\* A Client object has an address as long as it is registered.
EntriesOK ==
  \A c \in Client : IF c \in known THEN entry[c].address \in Address
                    ELSE entry[c] = NoEntry

\* The count of the selector is never less than it has clients.
CountOK == number >= Cardinality(known)

\* What a client counts of a job: one task assigned, and one reported.
One(b) == IF b THEN 1 ELSE 0
TasksOK ==
  \A c \in Client, j \in Job :
    j \notin again.jobs =>
      entry[c].tasks[j] <= One(c \in occupied[j]) + One(j \in entry[c].reported)

\* Only registered clients are in the list of a job.
OccupiedOK == \A j \in Job : occupied[j] \subseteq known

CMInv ==
  /\ CMTypeOK /\ EntriesOK /\ CountOK /\ TasksOK /\ OccupiedOK
  /\ RegistryAgrees /\ BookedWithinLimit

LEMMA NoEntryType ==
  /\ NoEntry \in Entry /\ NoEntry.address = None /\ NoEntry.cur = 0
  /\ NoEntry.tasks = [j \in Job |-> 0] /\ NoEntry.reported = {}
BY DEF NoEntry, Entry

LEMMA Finite ==
  ASSUME CMAssumption, NEW S \in SUBSET Client
  PROVE  IsFiniteSet(S) /\ Cardinality(S) \in Nat
BY FS_Subset, FS_CardinalityType DEF CMAssumption

LEMMA CMInvInit == CMAssumption /\ CMInit => CMInv
<1> SUFFICES ASSUME CMAssumption, CMInit PROVE CMInv
  OBVIOUS
<1> USE DEF CMInit
<1>1. CMTypeOK
  BY NoEntryType DEF CMTypeOK
<1>2. Cardinality(known) = 0
  BY FS_EmptySet
<1>3. EntriesOK /\ CountOK /\ OccupiedOK /\ BookedWithinLimit
  BY <1>2 DEF EntriesOK, CountOK, OccupiedOK, BookedWithinLimit
<1>4. TasksOK
  BY NoEntryType DEF TasksOK, One
<1>5. RegistryAgrees
  BY <1>2, NoneIsNobody DEF RegistryAgrees
<1> QED BY <1>1, <1>3, <1>4, <1>5 DEF CMInv

-----------------------------------------------------------------------------
(* Reports. *)

LEMMA ReportedType ==
  ASSUME CMAssumption, CMTypeOK, NEW c \in Client, NEW a \in Address
  PROVE  /\ Reported(c, a) \in Entry /\ Reported(c, a).address = a
         /\ Reported(c, a).reported = work[c]
         /\ Reported(c, a).cur = Cardinality(work[c]) /\ Cardinality(work[c]) \in Nat
         /\ \A j \in Job : Reported(c, a).tasks[j] = One(j \in work[c])
<1>1. work[c] \subseteq Job
  BY DEF CMTypeOK
<1>2. Cardinality(work[c]) \in Nat
  BY <1>1, FS_Subset, FS_CardinalityType DEF CMAssumption
<1> QED BY <1>1, <1>2 DEF Reported, Entry, One

LEMMA ReportInv ==
  ASSUME CMAssumption, CMInv, NEW c \in Client, NEW a \in Address, Report(c, a)
  PROVE  CMInv'
<1>1. CMTypeOK /\ EntriesOK /\ CountOK /\ TasksOK /\ RegistryAgrees /\ BookedWithinLimit
  BY DEF CMInv
<1>2. /\ known' = known \cup {c} /\ index' = Reindexed(c, a)
      /\ entry' = [entry EXCEPT ![c] = Reported(c, a)]
      /\ number' = (IF c \in known THEN number ELSE number + 1)
      /\ shared' = (shared \/ \E d \in known \ {c} : entry[d].address = a)
      /\ UNCHANGED <<occupied, monitor, asked, round, work, again>>
  BY DEF Report, UpdatedEntry
<1>3. entry'[c] = Reported(c, a) /\ \A d \in Client : d # c => entry'[d] = entry[d]
  BY <1>1, <1>2 DEF CMTypeOK
<1>4. entry' \in [Client -> Entry]
  BY <1>1, <1>2, ReportedType DEF CMTypeOK
<1>5. index' \in [Address -> Client \cup {None}]
  BY <1>1, <1>2 DEF Reindexed, CMTypeOK
<1>6. known \in SUBSET Client
  BY <1>1 DEF CMTypeOK
<1>7. CMTypeOK'
  BY <1>1, <1>2, <1>4, <1>5 DEF CMTypeOK
<1>8. /\ IsFiniteSet(known) /\ Cardinality(known) \in Nat
      /\ Cardinality(known') = IF c \in known THEN Cardinality(known) ELSE Cardinality(known) + 1
  BY <1>2, <1>6, Finite, FS_AddElement
<1>9. CountOK'
  BY <1>1, <1>2, <1>8 DEF CountOK, CMTypeOK
<1>10. EntriesOK' /\ OccupiedOK'
  BY <1>1, <1>2, <1>3, ReportedType DEF CMInv, EntriesOK, OccupiedOK
<1>11. TasksOK'
  <2>1. ASSUME NEW d \in Client, NEW j \in Job, j \notin again.jobs
        PROVE  entry'[d].tasks[j] <= One(d \in occupied[j]) + One(j \in entry'[d].reported)
    <3>1. CASE d = c
      <4>1. entry'[d].tasks[j] = One(j \in entry'[d].reported)
        BY <1>1, <1>3, <3>1, ReportedType
      <4> QED BY <4>1 DEF One
    <3>2. CASE d # c
      BY <1>1, <1>3, <2>1, <3>2 DEF TasksOK
    <3> QED BY <3>1, <3>2
  <2> QED BY <1>2, <2>1 DEF TasksOK
<1>12. BookedWithinLimit'
  <2>1. entry'[c].cur <= Cardinality(entry'[c].reported)
    BY <1>1, <1>3, ReportedType
  <2>2. \A d \in known' : d # c => d \in known /\ entry'[d] = entry[d]
    BY <1>2, <1>3, <1>6
  <2> QED BY <1>1, <2>1, <2>2 DEF BookedWithinLimit
<1>13. RegistryAgrees'
  <2> SUFFICES ASSUME ~shared'
               PROVE  /\ number' = Cardinality(known')
                      /\ \A d \in Client, b \in Address :
                           index'[b] = d <=> d \in known' /\ entry'[d].address = b
    BY DEF RegistryAgrees
  <2>1. /\ number = Cardinality(known)
        /\ \A d \in Client, b \in Address :
             index[b] = d <=> d \in known /\ entry[d].address = b
        /\ \A d \in known \ {c} : entry[d].address # a
    BY <1>1, <1>2 DEF RegistryAgrees
  <2>2. number' = Cardinality(known')
    BY <1>2, <1>8, <2>1
  <2>3. ASSUME NEW d \in Client, NEW b \in Address
        PROVE  index'[b] = d <=> d \in known' /\ entry'[d].address = b
    <3>1. index'[b] = IF b = a THEN c
                      ELSE IF c \in known /\ b = entry[c].address THEN None ELSE index[b]
      BY <1>2 DEF Reindexed
    <3>2. entry'[c].address = a
      BY <1>3, <1>1, ReportedType
    <3>3. d # None
      BY NoneIsNobody
    <3>4. CASE d = c
      BY <1>2, <2>1, <3>1, <3>2, <3>3, <3>4
    <3>5. CASE d # c
      BY <1>2, <1>3, <2>1, <3>1, <3>3, <3>5
    <3> QED BY <3>4, <3>5
  <2> QED BY <2>2, <2>3
<1> QED BY <1>7, <1>9, <1>10, <1>11, <1>12, <1>13 DEF CMInv

-----------------------------------------------------------------------------
(* Clients that go. *)

\* When the tables agree every address can be removed: none is missing, and no
\* two clients have one.
LEMMA AllRemovable ==
  ASSUME CMAssumption, CMInv, ~shared, NEW S \in SUBSET known
  PROVE  Removable(S)
<1>1. CMTypeOK /\ EntriesOK /\ RegistryAgrees
  BY DEF CMInv
<1>2. /\ \A c \in S : c \in Client /\ entry[c].address \in Address
      /\ \A c \in S : index[entry[c].address] = c
  BY <1>1 DEF CMTypeOK, EntriesOK, RegistryAgrees
<1>3. \A c \in S : Indexed(c)
  BY <1>2, NoneIsNobody DEF Indexed
<1>4. IsFiniteSet(S)
  BY <1>1, Finite DEF CMTypeOK
<1> DEFINE f == [c \in S |-> entry[c].address]
<1>5. f \in [S -> AddressesOf(S)]
  BY DEF AddressesOf
<1>6. \A x, y \in S : f[x] = f[y] => x = y
  BY <1>2
<1>7. \A a \in AddressesOf(S) : \E x \in S : f[x] = a
  BY DEF AddressesOf
<1>8. f \in Bijection(S, AddressesOf(S))
  BY <1>5, <1>6, <1>7 DEF Bijection, Injection, Surjection, IsInjective
<1>9. Cardinality(AddressesOf(S)) = Cardinality(S)
  BY <1>4, <1>8, FS_Bijection DEF ExistsBijection
<1> QED BY <1>3, <1>9 DEF Removable

LEMMA RemoveInv ==
  ASSUME CMAssumption, CMInv, NEW S \in SUBSET known, NEW F \in SUBSET known,
         RemoveClients(S, F), ~shared => F = {},
         UNCHANGED again, monitor' \in BOOLEAN, asked' = asked, round' = round,
         work' \in [Client -> SUBSET Job]
  PROVE  CMInv'
<1>1. CMTypeOK /\ EntriesOK /\ CountOK /\ TasksOK /\ RegistryAgrees /\ BookedWithinLimit
  BY DEF CMInv
<1>2. /\ known' = known \ (S \cup F)
      /\ entry' = [c \in Client |-> IF c \in S \cup F THEN NoEntry ELSE entry[c]]
      /\ index' = [a \in Address |-> IF a \in AddressesOf(S) THEN None ELSE index[a]]
      /\ occupied' = [j \in Job |-> occupied[j] \ (S \cup F)]
      /\ number' = number - Cardinality(S) /\ shared' = shared
  BY DEF RemoveClients
<1>3. known \in SUBSET Client /\ S \in SUBSET Client /\ number \in Nat
  BY <1>1 DEF CMTypeOK
<1>4. /\ IsFiniteSet(known) /\ Cardinality(known) \in Nat /\ Cardinality(S) \in Nat
      /\ Cardinality(known \ S) = Cardinality(known) - Cardinality(S)
  <2>1. IsFiniteSet(known) /\ Cardinality(known) \in Nat /\ Cardinality(S) \in Nat
    BY <1>3, Finite
  <2>2. known \cap S = S
    OBVIOUS
  <2>3. Cardinality(known \ S) = Cardinality(known) - Cardinality(known \cap S)
    BY <2>1, FS_Difference
  <2> QED BY <2>1, <2>2, <2>3
<1>5. Cardinality(known') <= Cardinality(known \ S) /\ Cardinality(known') \in Nat
      /\ Cardinality(known \ S) \in Nat
  BY <1>2, <1>3, Finite, FS_Subset
<1>6. number' \in Nat /\ CountOK'
  BY <1>1, <1>2, <1>3, <1>4, <1>5 DEF CountOK
<1>7. CMTypeOK'
  <2>1. entry' \in [Client -> Entry]
    BY <1>1, <1>2, NoEntryType DEF CMTypeOK
  <2>2. index' \in [Address -> Client \cup {None}]
    BY <1>1, <1>2 DEF CMTypeOK
  <2>3. occupied' \in [Job -> SUBSET Client] /\ known' \subseteq Client
    BY <1>1, <1>2 DEF CMTypeOK
  <2> QED BY <1>1, <1>2, <1>6, <2>1, <2>2, <2>3 DEF CMTypeOK
<1>8. EntriesOK' /\ OccupiedOK'
  BY <1>1, <1>2 DEF CMInv, EntriesOK, OccupiedOK
<1>9. TasksOK'
  <2>1. ASSUME NEW c \in Client, NEW j \in Job, j \notin again.jobs
        PROVE  entry'[c].tasks[j] <= One(c \in occupied'[j]) + One(j \in entry'[c].reported)
    <3>1. CASE c \in S \cup F
      BY <1>2, <3>1, NoEntryType DEF One
    <3>2. CASE c \notin S \cup F
      BY <1>1, <1>2, <2>1, <3>2 DEF TasksOK, One
    <3> QED BY <3>1, <3>2
  <2> QED BY <2>1 DEF TasksOK
<1>10. BookedWithinLimit'
  BY <1>1, <1>2 DEF BookedWithinLimit, CMTypeOK
<1>11. RegistryAgrees'
  <2> SUFFICES ASSUME ~shared
               PROVE  /\ number' = Cardinality(known')
                      /\ \A d \in Client, b \in Address :
                           index'[b] = d <=> d \in known' /\ entry'[d].address = b
    BY <1>2 DEF RegistryAgrees
  <2>1. /\ number = Cardinality(known)
        /\ \A d \in Client, b \in Address :
             index[b] = d <=> d \in known /\ entry[d].address = b
    BY <1>1 DEF RegistryAgrees
  <2>2. known' = known \ S
    BY <1>2
  <2>3. number' = Cardinality(known')
    BY <1>2, <1>4, <2>1, <2>2
  <2>4. ASSUME NEW d \in Client, NEW b \in Address
        PROVE  index'[b] = d <=> d \in known' /\ entry'[d].address = b
    <3>1. d # None
      BY NoneIsNobody
    <3>2. CASE b \in AddressesOf(S)
      <4>1. PICK s \in S : b = entry[s].address
        BY <3>2 DEF AddressesOf
      <4>2. index[b] = s
        BY <1>3, <2>1, <4>1
      <4>3. index'[b] = None
        BY <1>2, <3>2
      <4>4. ~(d \in known' /\ entry'[d].address = b)
        BY <1>2, <2>1, <2>2, <4>1, <4>2
      <4> QED BY <3>1, <4>3, <4>4
    <3>3. CASE b \notin AddressesOf(S)
      <4>1. index'[b] = index[b]
        BY <1>2, <3>3
      <4>2. d \in S => entry[d].address # b
        BY <3>3 DEF AddressesOf
      <4> QED BY <1>2, <2>1, <2>2, <4>1, <4>2
    <3> QED BY <3>2, <3>3
  <2> QED BY <2>3, <2>4
<1> QED BY <1>6, <1>7, <1>8, <1>9, <1>10, <1>11 DEF CMInv

LEMMA QuitInv ==
  ASSUME CMAssumption, CMInv, NEW c \in Client, Quit(c)
  PROVE  CMInv'
<1>1. c \in known /\ UNCHANGED <<monitor, asked, round, again>>
      /\ work' \in [Client -> SUBSET Job] /\ monitor \in BOOLEAN
  BY DEF Quit, CMInv, CMTypeOK
<1>2. CASE Indexed(c) /\ RemoveClients({c}, {})
  BY <1>1, <1>2, RemoveInv
<1>3. CASE ~Indexed(c) /\ RemoveClients({}, {c})
  <2>1. ~shared => Indexed(c)
    BY <1>1, AllRemovable DEF Removable
  <2> QED BY <1>1, <1>3, <2>1, RemoveInv
<1> QED BY <1>2, <1>3 DEF Quit

LEMMA RefreshInv ==
  ASSUME CMAssumption, CMInv, RefreshClients
  PROVE  CMInv'
<1>1. UNCHANGED <<asked, round, work, again>> /\ monitor \in BOOLEAN
      /\ work \in [Client -> SUBSET Job] /\ Expired \in SUBSET known
  BY DEF RefreshClients, jobVars, CMInv, CMTypeOK, Expired
<1>2. CASE RemoveClients(Expired, {}) /\ UNCHANGED monitor
  BY <1>1, <1>2, RemoveInv
<1>3. ASSUME NEW T, RemoveClients(Expired \cap OfType(T), {}), monitor' = FALSE
      PROVE  CMInv'
  <2>1. Expired \cap OfType(T) \in SUBSET known /\ {} \in SUBSET known
    BY <1>1
  <2> QED BY <1>1, <1>3, <2>1, RemoveInv
<1>4. ASSUME NEW S \in SUBSET Expired, NEW c \in Expired \ S, ~Removable(S \cup {c}),
             RemoveClients(S, {c}), monitor' = FALSE
      PROVE  CMInv'
  <2>1. shared
    BY <1>1, <1>4, AllRemovable
  <2>2. S \in SUBSET known /\ {c} \in SUBSET known
    BY <1>1
  <2> QED BY <1>1, <1>4, <2>1, <2>2, RemoveInv
<1>5. CASE \E t \in Emptied(Expired), before \in SUBSET (Type \ Emptied(Expired)) :
             LET S == Expired \cap OfType(before \cup {t})
             IN Removable(S) /\ RemoveClients(S, {}) /\ monitor' = FALSE
  BY <1>3, <1>5
<1>6. CASE \E S \in SUBSET Expired : \E c \in Expired \ S :
             /\ Removable(S) /\ Emptied(S) = {} /\ ~Removable(S \cup {c})
             /\ RemoveClients(S, {c}) /\ monitor' = FALSE
  BY <1>4, <1>6
<1> QED BY <1>2, <1>5, <1>6 DEF RefreshClients

LEMMA ExpireInv ==
  ASSUME CMAssumption, CMInv, NEW c \in Client, Expire(c)
  PROVE  CMInv'
<1>1. CMTypeOK /\ EntriesOK /\ CountOK /\ TasksOK /\ RegistryAgrees /\ BookedWithinLimit
  BY DEF CMInv
<1>2. /\ UNCHANGED <<known, index, number, shared, occupied, monitor, asked, round, work, again>>
      /\ entry' = [entry EXCEPT ![c] = [entry[c] EXCEPT !.expired = TRUE]] /\ c \in known
  BY DEF Expire
<1>3. entry' \in [Client -> Entry]
  <2>1. entry[c] \in Entry
    BY <1>1 DEF CMTypeOK
  <2>2. [entry[c] EXCEPT !.expired = TRUE] \in Entry
    BY <2>1 DEF Entry
  <2> QED BY <1>1, <1>2, <2>2 DEF CMTypeOK
<1>4. \A d \in Client :
        /\ entry'[d].address = entry[d].address /\ entry'[d].cur = entry[d].cur
        /\ entry'[d].tasks = entry[d].tasks /\ entry'[d].reported = entry[d].reported
        /\ d # c => entry'[d] = entry[d]
  BY <1>1, <1>2 DEF CMTypeOK, Entry
<1>5. CMTypeOK' /\ CountOK'
  BY <1>1, <1>2, <1>3 DEF CMTypeOK, CountOK
<1>6. EntriesOK' /\ OccupiedOK'
  BY <1>1, <1>2, <1>4 DEF CMInv, EntriesOK, OccupiedOK
<1>7. TasksOK'
  BY <1>1, <1>2, <1>4 DEF TasksOK
<1>8. RegistryAgrees' /\ BookedWithinLimit'
  BY <1>1, <1>2, <1>4 DEF RegistryAgrees, BookedWithinLimit, CMTypeOK
<1> QED BY <1>5, <1>6, <1>7, <1>8 DEF CMInv

-----------------------------------------------------------------------------
(* Rounds. *)

LEMMA AssignedType ==
  ASSUME NEW e \in Entry, NEW j \in Job
  PROVE  /\ Assigned(e, j) \in Entry /\ Assigned(e, j).address = e.address
         /\ Assigned(e, j).reported = e.reported /\ Assigned(e, j).cur = e.cur + 1
         /\ \A i \in Job : Assigned(e, j).tasks[i] = e.tasks[i] + One(i = j)
<1> DEFINE T == [e.tasks EXCEPT ![j] = @ + 1]
<1>1. T \in [Job -> Nat] /\ \A i \in Job : T[i] = e.tasks[i] + One(i = j)
  BY DEF Entry, One
<1>2. Assigned(e, j) = [e EXCEPT !.cur = @ + 1, !.tasks = T]
  BY DEF Assigned, Entry
<1> HIDE DEF T
<1>3. Assigned(e, j) \in Entry
  <2>1. T \in [Job -> Nat] /\ e.cur + 1 \in Nat
    BY <1>1 DEF Entry
  <2>2. \A n \in Nat : [e EXCEPT !.cur = n, !.tasks = T] \in Entry
    BY <2>1 DEF Entry
  <2> QED BY <1>2, <2>1, <2>2
<1>4. Assigned(e, j).address = e.address /\ Assigned(e, j).reported = e.reported
      /\ Assigned(e, j).cur = e.cur + 1 /\ Assigned(e, j).tasks = T
  BY <1>2 DEF Entry
<1> QED BY <1>1, <1>3, <1>4

LEMMA ReleasedType ==
  ASSUME NEW e \in Entry, NEW j \in Job
  PROVE  /\ Released(e, j) \in Entry /\ Released(e, j).address = e.address
         /\ Released(e, j).reported = e.reported /\ Released(e, j).cur <= e.cur
         /\ \A i \in Job : Released(e, j).tasks[i] =
              IF i = j /\ e.tasks[j] > 0 THEN e.tasks[j] - 1 ELSE e.tasks[i]
<1> DEFINE T == [e.tasks EXCEPT ![j] = IF @ > 0 THEN @ - 1 ELSE @]
<1>1. T \in [Job -> Nat]
      /\ \A i \in Job : T[i] = IF i = j /\ e.tasks[j] > 0 THEN e.tasks[j] - 1 ELSE e.tasks[i]
  BY DEF Entry
<1>2. Released(e, j) = [e EXCEPT !.cur = IF @ > 0 THEN @ - 1 ELSE @, !.tasks = T]
  BY DEF Released, Entry
<1> HIDE DEF T
<1>3. Released(e, j) \in Entry
  <2>1. T \in [Job -> Nat] /\ (IF e.cur > 0 THEN e.cur - 1 ELSE e.cur) \in Nat
    BY <1>1 DEF Entry
  <2>2. \A n \in Nat : [e EXCEPT !.cur = n, !.tasks = T] \in Entry
    BY <2>1 DEF Entry
  <2> QED BY <1>2, <2>1, <2>2
<1>4. Released(e, j).address = e.address /\ Released(e, j).reported = e.reported
      /\ Released(e, j).cur <= e.cur /\ Released(e, j).tasks = T
  BY <1>2 DEF Entry
<1> QED BY <1>1, <1>3, <1>4

\* Who is selected is registered, and has a task to spare unless it was named.
LEMMA ChosenOK ==
  ASSUME NEW j \in Job, NEW Q \in Qualified(j), NEW S \in Choices(Q)
  PROVE  S \subseteq known /\ (Specifying = {} => \A c \in S : entry[c].cur < Parallel)
<1>1. S \subseteq Q
  BY DEF Choices
<1>2. Q \subseteq known /\ (Specifying = {} => \A c \in Q : entry[c].cur < Parallel)
  BY DEF Qualified, Specified, Filtered, IsAvailable
<1> QED BY <1>1, <1>2

\* A change of counts alone keeps the tables as they are.
LEMMA CountsInv ==
  ASSUME CMInv, UNCHANGED <<known, index, number, shared, monitor, work>>,
         entry' \in [Client -> Entry], occupied' \in [Job -> SUBSET Client],
         asked' \in [Job -> SUBSET Client], round' \subseteq Job,
         again' \in [times : Nat, jobs : SUBSET Job],
         \A c \in Client : /\ entry'[c].address = entry[c].address
                           /\ c \notin known => entry'[c] = entry[c],
         TasksOK', OccupiedOK', BookedWithinLimit'
  PROVE  CMInv'
<1>1. CMTypeOK' /\ CountOK'
  BY DEF CMInv, CMTypeOK, CountOK
<1>2. EntriesOK'
  BY DEF CMInv, EntriesOK
<1>3. RegistryAgrees'
  BY DEF CMInv, RegistryAgrees
<1> QED BY <1>1, <1>2, <1>3 DEF CMInv

LEMMA SelectInv ==
  ASSUME CMAssumption, CMInv, NEW j \in Job, SelectClient(j)
  PROVE  CMInv'
<1>1. CMTypeOK /\ TasksOK /\ BookedWithinLimit /\ EntriesOK
  BY DEF CMInv
<1>2. PICK Q \in Qualified(j) : \E S \in Choices(Q) :
        /\ entry' = [c \in Client |-> IF c \in S THEN Assigned(entry[c], j) ELSE entry[c]]
        /\ again' = [again EXCEPT !.jobs = IF occupied[j] = {} THEN @ ELSE @ \cup {j}]
        /\ occupied' = [occupied EXCEPT ![j] = S]
        /\ asked' = [asked EXCEPT ![j] = S]
  BY DEF SelectClient
<1>3. PICK S \in Choices(Q) :
        /\ entry' = [c \in Client |-> IF c \in S THEN Assigned(entry[c], j) ELSE entry[c]]
        /\ again' = [again EXCEPT !.jobs = IF occupied[j] = {} THEN @ ELSE @ \cup {j}]
        /\ occupied' = [occupied EXCEPT ![j] = S]
        /\ asked' = [asked EXCEPT ![j] = S]
  BY <1>2
<1>4. S \subseteq known /\ S \subseteq Client
      /\ (Specifying = {} => \A c \in S : entry[c].cur < Parallel)
  BY <1>1, ChosenOK DEF CMTypeOK
<1>5. entry' \in [Client -> Entry]
  BY <1>1, <1>3, AssignedType DEF CMTypeOK
<1>6. again' \in [times : Nat, jobs : SUBSET Job]
      /\ again'.jobs = IF occupied[j] = {} THEN again.jobs ELSE again.jobs \cup {j}
  BY <1>1, <1>3 DEF CMTypeOK
<1>7. \A c \in Client : /\ entry'[c].address = entry[c].address
                        /\ entry'[c].reported = entry[c].reported
                        /\ c \notin S => entry'[c] = entry[c]
                        /\ c \in S => entry'[c] = Assigned(entry[c], j)
  BY <1>1, <1>3, AssignedType DEF CMTypeOK
<1>8. TasksOK'
  <2>1. ASSUME NEW c \in Client, NEW i \in Job, i \notin again'.jobs
        PROVE  entry'[c].tasks[i] <= One(c \in occupied'[i]) + One(i \in entry'[c].reported)
    <3>1. i \notin again.jobs /\ entry[c] \in Entry /\ entry[c].tasks[i] \in Nat
      BY <1>1, <1>6, <2>1 DEF CMTypeOK, Entry
    <3>2. entry[c].tasks[i] <= One(c \in occupied[i]) + One(i \in entry[c].reported)
      BY <1>1, <3>1 DEF TasksOK
    <3>3. CASE i # j
      <4>1. occupied'[i] = occupied[i] /\ entry'[c].tasks[i] = entry[c].tasks[i]
        BY <1>1, <1>3, <1>7, <3>1, <3>3, AssignedType DEF CMTypeOK, One
      <4> QED BY <1>7, <3>2, <4>1
    <3>4. CASE i = j
      <4>1. occupied[j] = {} /\ occupied'[j] = S
        BY <1>1, <1>3, <1>6, <2>1, <3>4 DEF CMTypeOK
      <4>2. entry[c].tasks[j] <= One(j \in entry[c].reported)
        BY <3>1, <3>2, <3>4, <4>1 DEF One
      <4>3. entry'[c].tasks[j] = entry[c].tasks[j] + One(c \in S)
        BY <1>7, <3>1, <3>4, AssignedType DEF One
      <4> QED BY <1>7, <3>1, <3>4, <4>1, <4>2, <4>3 DEF One
    <3> QED BY <3>3, <3>4
  <2> QED BY <2>1 DEF TasksOK
<1>9. BookedWithinLimit'
  <2>1. ASSUME Specifying = {}, NEW c \in known
        PROVE  entry'[c].cur <= Parallel
               \/ entry'[c].cur <= Cardinality(entry'[c].reported)
    <3>1. c \in Client /\ entry[c] \in Entry /\ entry[c].cur \in Nat /\ Parallel \in Nat
      BY <1>1 DEF CMTypeOK, Entry, CMAssumption
    <3>2. CASE c \in S
      BY <1>4, <1>7, <2>1, <3>1, <3>2, AssignedType
    <3>3. CASE c \notin S
      BY <1>1, <1>7, <2>1, <3>1, <3>3 DEF BookedWithinLimit
    <3> QED BY <3>2, <3>3
  <2>2. known' = known
    BY DEF SelectClient
  <2> QED BY <2>1, <2>2 DEF BookedWithinLimit
<1>10. occupied' \in [Job -> SUBSET Client] /\ asked' \in [Job -> SUBSET Client]
       /\ round' \subseteq Job /\ UNCHANGED <<known, index, number, shared, monitor, work>>
  BY <1>1, <1>3, <1>4 DEF CMTypeOK, SelectClient
<1>11. \A c \in Client : c \notin known => entry'[c] = entry[c]
  BY <1>4, <1>7
<1>12. OccupiedOK'
  BY <1>1, <1>3, <1>4, <1>10 DEF CMInv, OccupiedOK, CMTypeOK
<1> QED BY <1>5, <1>6, <1>7, <1>8, <1>9, <1>10, <1>11, <1>12, CountsInv

LEMMA ReleaseInv ==
  ASSUME CMAssumption, CMInv, NEW j \in Job, ReleaseClient(j)
  PROVE  CMInv'
<1>1. CMTypeOK /\ TasksOK /\ BookedWithinLimit /\ EntriesOK
  BY DEF CMInv
<1>2. /\ entry' = [c \in Client |-> IF c \in occupied[j] THEN Released(entry[c], j) ELSE entry[c]]
      /\ occupied' = [occupied EXCEPT ![j] = {}]
      /\ asked' = [asked EXCEPT ![j] = {}] /\ round' = round \ {j}
      /\ UNCHANGED <<known, index, number, shared, monitor, work, again>>
  BY DEF ReleaseClient
<1>3. entry' \in [Client -> Entry]
  BY <1>1, <1>2, ReleasedType DEF CMTypeOK
<1>4. \A c \in Client : /\ entry'[c].address = entry[c].address
                        /\ entry'[c].reported = entry[c].reported
                        /\ c \notin occupied[j] => entry'[c] = entry[c]
                        /\ c \in occupied[j] => entry'[c] = Released(entry[c], j)
  BY <1>1, <1>2, ReleasedType DEF CMTypeOK
<1>5. OccupiedOK'
  BY <1>1, <1>2 DEF CMInv, OccupiedOK, CMTypeOK
<1>6. TasksOK'
  <2>1. ASSUME NEW c \in Client, NEW i \in Job, i \notin again.jobs
        PROVE  entry'[c].tasks[i] <= One(c \in occupied'[i]) + One(i \in entry'[c].reported)
    <3>1. entry[c] \in Entry /\ entry[c].tasks[i] \in Nat
      BY <1>1 DEF CMTypeOK, Entry
    <3>2. entry[c].tasks[i] <= One(c \in occupied[i]) + One(i \in entry[c].reported)
      BY <1>1, <2>1 DEF TasksOK
    <3>3. CASE i # j
      <4>1. occupied'[i] = occupied[i] /\ entry'[c].tasks[i] = entry[c].tasks[i]
        BY <1>1, <1>2, <1>4, <3>1, <3>3, ReleasedType DEF CMTypeOK
      <4> QED BY <1>4, <3>2, <4>1
    <3>4. CASE i = j /\ c \in occupied[j]
      <4>1. entry'[c].tasks[j] = IF entry[c].tasks[j] > 0 THEN entry[c].tasks[j] - 1
                                 ELSE entry[c].tasks[j]
        BY <1>4, <3>1, <3>4, ReleasedType
      <4>2. occupied'[j] = {}
        BY <1>1, <1>2 DEF CMTypeOK
      <4> QED BY <1>4, <3>1, <3>2, <3>4, <4>1, <4>2 DEF One
    <3>5. CASE i = j /\ c \notin occupied[j]
      <4>1. occupied'[j] = {} /\ entry'[c] = entry[c]
        BY <1>1, <1>2, <1>4, <3>5 DEF CMTypeOK
      <4> QED BY <3>1, <3>2, <3>5, <4>1 DEF One
    <3> QED BY <3>3, <3>4, <3>5
  <2> QED BY <1>2, <2>1 DEF TasksOK
<1>7. BookedWithinLimit'
  <2>1. ASSUME Specifying = {}, NEW c \in known
        PROVE  entry'[c].cur <= Parallel
               \/ entry'[c].cur <= Cardinality(entry'[c].reported)
    <3>1. c \in Client /\ entry[c] \in Entry /\ entry[c].cur \in Nat /\ Parallel \in Nat
          /\ entry'[c] \in Entry /\ entry'[c].cur \in Nat
      BY <1>1, <1>3 DEF CMTypeOK, Entry, CMAssumption
    <3>2. entry'[c].cur <= entry[c].cur
      <4>1. CASE c \in occupied[j]
        BY <1>4, <3>1, <4>1, ReleasedType
      <4>2. CASE c \notin occupied[j]
        BY <1>4, <3>1, <4>2
      <4> QED BY <4>1, <4>2
    <3>3. Cardinality(entry[c].reported) \in Nat
      <4>1. entry[c].reported \in SUBSET Job
        BY <3>1 DEF Entry
      <4> QED BY <4>1, FS_Subset, FS_CardinalityType DEF CMAssumption
    <3> QED BY <1>1, <1>4, <2>1, <3>1, <3>2, <3>3 DEF BookedWithinLimit
  <2> QED BY <1>2, <2>1 DEF BookedWithinLimit
<1>8. occupied' \in [Job -> SUBSET Client] /\ asked' \in [Job -> SUBSET Client]
      /\ round' \subseteq Job /\ again' \in [times : Nat, jobs : SUBSET Job]
  BY <1>1, <1>2 DEF CMTypeOK
<1>9. \A c \in Client : c \notin known => entry'[c] = entry[c]
  BY <1>4 DEF CMInv, OccupiedOK
<1> QED BY <1>2, <1>3, <1>4, <1>5, <1>6, <1>7, <1>8, <1>9, CountsInv

\* What happens at the coordinators and at the clients the tables do not notice.
LEMMA OutsideInv ==
  ASSUME CMInv, UNCHANGED selectorVars, again'.jobs = again.jobs,
         again' \in [times : Nat, jobs : SUBSET Job],
         asked' \in [Job -> SUBSET Client], round' \subseteq Job,
         work' \in [Client -> SUBSET Job]
  PROVE  CMInv'
<1>1. CMTypeOK'
  BY DEF CMInv, CMTypeOK, selectorVars
<1>2. EntriesOK' /\ CountOK' /\ TasksOK' /\ OccupiedOK'
  BY DEF CMInv, EntriesOK, CountOK, TasksOK, OccupiedOK, selectorVars
<1>3. RegistryAgrees' /\ BookedWithinLimit'
  BY DEF CMInv, RegistryAgrees, BookedWithinLimit, selectorVars
<1> QED BY <1>1, <1>2, <1>3 DEF CMInv

LEMMA OutsideSteps ==
  ASSUME CMInv, NEW c \in Client, NEW j \in Job,
         EndTask(c, j) \/ SendTask(j, c)
  PROVE  CMInv'
<1>1. CMTypeOK
  BY DEF CMInv
<1>2. CASE EndTask(c, j)
  BY <1>1, <1>2, OutsideInv DEF EndTask, CMTypeOK
<1>3. CASE SendTask(j, c)
  BY <1>1, <1>3, OutsideInv DEF SendTask, CMTypeOK
<1> QED BY <1>2, <1>3

LEMMA GiveUpInv ==
  ASSUME CMInv, NEW j \in Job, GiveUpRound(j)
  PROVE  CMInv'
<1>1. CMTypeOK
  BY DEF CMInv
<1>2. UNCHANGED <<selectorVars, work>> /\ asked' = [asked EXCEPT ![j] = {}]
      /\ round' = round \ {j} /\ again' = [again EXCEPT !.times = @ + 1]
  BY DEF GiveUpRound
<1>3. again'.jobs = again.jobs /\ again' \in [times : Nat, jobs : SUBSET Job]
  BY <1>1, <1>2 DEF CMTypeOK
<1>4. asked' \in [Job -> SUBSET Client] /\ round' \subseteq Job
      /\ work' \in [Client -> SUBSET Job]
  BY <1>1, <1>2 DEF CMTypeOK
<1> QED BY <1>2, <1>3, <1>4, OutsideInv

LEMMA CMInvNext == CMAssumption /\ CMInv /\ [CMNext]_cmVars => CMInv'
<1> SUFFICES ASSUME CMAssumption, CMInv, [CMNext]_cmVars PROVE CMInv'
  OBVIOUS
<1>1. CASE UNCHANGED cmVars
  BY <1>1, OutsideInv DEF CMInv, CMTypeOK, cmVars, selectorVars
<1>2. CASE CMNext
  BY <1>2, RefreshInv, QuitInv, ExpireInv, ReportInv, OutsideSteps, SelectInv, ReleaseInv,
     GiveUpInv
  DEF CMNext
<1> QED BY <1>1, <1>2

LEMMA CMInvHolds == CMSpec => []CMInv
BY CMAssumption, CMInvInit, CMInvNext, PTL DEF CMSpec, CMSafety

-----------------------------------------------------------------------------
(* What is promised. *)

\* Every reachable state of the selector is well typed.
THEOREM SelectorTypes == CMSpec => []CMTypeOK
<1>1. CMInv => CMTypeOK
  BY DEF CMInv
<1> QED BY <1>1, CMInvHolds, PTL

\* The count and the address index agree with the registered clients as long as no
\* two of them have shared an address, however they come, move, quit and expire.
THEOREM TablesAgree == CMSpec => []RegistryAgrees
<1>1. CMInv => RegistryAgrees
  BY DEF CMInv
<1> QED BY <1>1, CMInvHolds, PTL

\* What a client counts of a job is occupied, reported, or of a list that a second
\* select_client of the job has replaced.
THEOREM ReleasedFrees == CMSpec => []ReleasedIsFree
<1>1. CMInv => ReleasedIsFree
  <2> SUFFICES ASSUME CMInv, NEW c \in known, NEW j \in Job, entry[c].tasks[j] > 0,
                      j \notin again.jobs, c \notin occupied[j],
                      j \notin entry[c].reported
               PROVE  FALSE
    BY DEF ReleasedIsFree
  <2>1. c \in Client /\ entry[c] \in Entry /\ entry[c].tasks[j] \in Nat
    BY DEF CMInv, CMTypeOK, Entry
  <2> QED BY <2>1 DEF CMInv, TasksOK, One
<1> QED BY <1>1, CMInvHolds, PTL

\* By its own count the selector gives no client more than max_task_parallelism jobs.
THEOREM WithinLimit == CMSpec => []BookedWithinLimit
<1>1. CMInv => BookedWithinLimit
  BY DEF CMInv
<1> QED BY <1>1, CMInvHolds, PTL
==============================================================================
