----------------------------- MODULE ClientManager -----------------------------
(***************************************************************************)
(* The selector: ClientManager and Client, with the reporters of the       *)
(* clients (client_reporter.py) and the coordinators that select clients   *)
(* for a round and release them. No handler suspends: each is one action.  *)
(*                                                                         *)
(* A Client object that is no longer registered may still be in the list   *)
(* of a job; what release_client does to it nobody sees, so the lists hold *)
(* registered objects only. A client that comes in the place of another    *)
(* has its address before the other has expired: then both are registered  *)
(* with one address.                                                       *)
(***************************************************************************)
EXTENDS Integers, FiniteSets

CONSTANTS
  Client, Job, Address,
  Type,        \* single or cluster
  TypeOf,      \* the type of each client
  Number,      \* clients a job requires
  Redundant,   \* ceil(redundancy * Number), between Number and twice of it
  Parallel,    \* max_task_parallelism of a client
  Matching,    \* the clients that have what each job demands
  Specifying,  \* jobs that name their clients
  MaxAgain,    \* bound on rounds given up without a release
  MaxNumber    \* bound on __client_number, which only goes up when a removal raises

ASSUME CMAssumption ==
  /\ IsFiniteSet(Client) /\ IsFiniteSet(Job) /\ TypeOf \in [Client -> Type]
  /\ Number \in Nat \ {0} /\ Redundant \in Number .. 2 * Number
  /\ Matching \in [Job -> SUBSET Client]
  /\ Parallel \in Nat \ {0} /\ Specifying \subseteq Job
  /\ MaxAgain \in Nat /\ MaxNumber \in Nat

VARIABLES
  known,    \* the clients in __clients
  entry,    \* the Client object of each
  index,    \* __indexes["address"]
  number,   \* __client_number
  shared,   \* have two registered clients had one address?
  occupied, \* __occupied_clients
  monitor,  \* is the task that removes expired clients alive?
  asked,    \* clients a coordinator was given and has not sent a task to
  round,    \* jobs with a round under way
  work,     \* the jobs whose tasks a client has
  again     \* rounds given up without a release, and the jobs whose list was replaced

selectorVars == <<known, entry, index, number, shared, occupied, monitor>>
jobVars == <<asked, round, work, again>>
cmVars ==
  <<known, entry, index, number, shared, occupied, monitor, asked, round, work, again>>

None == "none"
ASSUME NoneIsNobody == None \notin Client /\ None \notin Address

\* cur and tasks mix what the client reported and what was assigned since; free
\* is the state it reported: idle or available.
Entry ==
  [address : Address \cup {None}, cur : Nat, tasks : [Job -> Nat], reported : SUBSET Job,
   free : BOOLEAN, expired : BOOLEAN]
NoEntry ==
  [address |-> None, cur |-> 0, tasks |-> [j \in Job |-> 0], reported |-> {},
   free |-> FALSE, expired |-> FALSE]

CMTypeOK ==
  /\ known \subseteq Client /\ entry \in [Client -> Entry]
  /\ index \in [Address -> Client \cup {None}]
  /\ number \in Nat /\ shared \in BOOLEAN
  /\ occupied \in [Job -> SUBSET Client] /\ monitor \in BOOLEAN
  /\ asked \in [Job -> SUBSET Client] /\ round \subseteq Job
  /\ work \in [Client -> SUBSET Job]
  /\ again \in [times : Nat, jobs : SUBSET Job]

CMInit ==
  /\ known = {} /\ entry = [c \in Client |-> NoEntry]
  /\ index = [a \in Address |-> None] /\ number = 0 /\ shared = FALSE
  /\ occupied = [j \in Job |-> {}] /\ monitor = TRUE
  /\ asked = [j \in Job |-> {}] /\ round = {}
  /\ work = [c \in Client |-> {}]
  /\ again = [times |-> 0, jobs |-> {}]

-----------------------------------------------------------------------------
(* Clients.                                                                *)

\* __gen_client_info and _update_state: a client reports the tasks it has.
Reported(c, a) ==
  [address |-> a, cur |-> Cardinality(work[c]),
   tasks |-> [j \in Job |-> IF j \in work[c] THEN 1 ELSE 0], reported |-> work[c],
   free |-> Cardinality(work[c]) < Parallel, expired |-> FALSE]

\* __update_client removes the old address of a client from the index, whoever is
\* found by it.
Reindexed(c, a) ==
  [b \in Address |->
     IF b = a THEN c ELSE IF c \in known /\ b = entry[c].address THEN None ELSE index[b]]

\* Is there an entry for __remove_index to remove? Else it raises.
Indexed(c) == c \in known => index[entry[c].address] # None

\* Faulty variant: what was assigned stays when the client reports.
KeepsAssigned(c, a) ==
  [Reported(c, a) EXCEPT !.tasks = IF c \in known THEN entry[c].tasks ELSE @]
UpdatedEntry(c, a) == Reported(c, a)

\* report: __update_client or __add_client, and refresh_time.
Report(c, a) ==
  /\ Indexed(c) /\ (c \in known \/ number < MaxNumber)
  /\ known' = known \cup {c}
  /\ entry' = [entry EXCEPT ![c] = UpdatedEntry(c, a)]
  /\ index' = Reindexed(c, a)
  /\ number' = IF c \in known THEN number ELSE number + 1
  /\ shared' = (shared \/ \E d \in known \ {c} : entry[d].address = a)
  /\ UNCHANGED <<occupied, monitor, asked, round, work, again>>

AddressesOf(S) == {entry[c].address : c \in S}
\* Faulty variant: the count is left alone.
RemoveUncounted(S, F) ==
  /\ known' = known \ (S \cup F)
  /\ entry' = [c \in Client |-> IF c \in S \cup F THEN NoEntry ELSE entry[c]]
  /\ index' = [a \in Address |-> IF a \in AddressesOf(S) THEN None ELSE index[a]]
  /\ occupied' = [j \in Job |-> occupied[j] \ (S \cup F)]
  /\ UNCHANGED <<number, shared>>
\* __remove_client for each of S, and for the one in F, if any, for which it raises
\* before it counts.
RemoveClients(S, F) ==
  /\ known' = known \ (S \cup F)
  /\ entry' = [c \in Client |-> IF c \in S \cup F THEN NoEntry ELSE entry[c]]
  /\ index' = [a \in Address |-> IF a \in AddressesOf(S) THEN None ELSE index[a]]
  /\ occupied' = [j \in Job |-> occupied[j] \ (S \cup F)]
  /\ number' = number - Cardinality(S)
  /\ UNCHANGED shared

\* quit: the client leaves, and its tasks end with it.
Quit(c) ==
  /\ c \in known
  /\ IF Indexed(c) THEN RemoveClients({c}, {}) ELSE RemoveClients({}, {c})
  /\ work' = [work EXCEPT ![c] = {}]
  /\ UNCHANGED <<monitor, asked, round, again>>

\* No report for longer than the heartbeat of its type.
Expire(c) ==
  /\ c \in known /\ ~entry[c].expired
  /\ entry' = [entry EXCEPT ![c].expired = TRUE]
  /\ UNCHANGED <<known, index, number, shared, occupied, monitor, asked, round, work, again>>

OfType(T) == {c \in known : TypeOf[c] \in T}
Expired == {c \in known : entry[c].expired}
\* The types that lose their last client when those of S go.
Emptied(S) == {t \in Type : OfType({t}) # {} /\ OfType({t}) \subseteq S}
\* Those whose addresses can be removed one after the other.
Removable(S) ==
  (\A c \in S : Indexed(c)) /\ Cardinality(AddressesOf(S)) = Cardinality(S)

\* __refresh_clients, with __remove_expired_clients. It goes on over __clients
\* after it has taken the last client of a type out, and that raises: the types
\* still to come are left alone. An address that is not in the index raises at once.
\* Either way there is no next pass.
RefreshClients ==
  /\ monitor /\ Expired # {}
  /\ \/ /\ Emptied(Expired) = {} /\ Removable(Expired)
        /\ RemoveClients(Expired, {}) /\ UNCHANGED monitor
     \/ \E t \in Emptied(Expired), before \in SUBSET (Type \ Emptied(Expired)) :
          LET S == Expired \cap OfType(before \cup {t})
          IN Removable(S) /\ RemoveClients(S, {}) /\ monitor' = FALSE
     \/ \E S \in SUBSET Expired : \E c \in Expired \ S :
          /\ Removable(S) /\ Emptied(S) = {} /\ ~Removable(S \cup {c})
          /\ RemoveClients(S, {c}) /\ monitor' = FALSE
  /\ UNCHANGED jobVars

\* The tasks of a client come and go.
EndTask(c, j) ==
  /\ j \in work[c]
  /\ work' = [work EXCEPT ![c] = @ \ {j}]
  /\ UNCHANGED <<selectorVars, asked, round, again>>

-----------------------------------------------------------------------------
(* Jobs.                                                                   *)

\* Client.is_available.
IsAvailable(c) ==
  /\ c \in known /\ ~entry[c].expired
  /\ entry[c].cur < Parallel /\ entry[c].free

\* Client.match, of the demands of a job.
Matches(c, j) == c \in Matching[j]

\* __filter_clients, and __specify_clients, which takes whoever is registered.
Filtered(j) == {c \in known : IsAvailable(c) /\ Matches(c, j)}
Specified(A) == {c \in known : \E a \in A : index[a] = c}
Qualified(j) ==
  IF j \in Specifying THEN {Specified(A) : A \in SUBSET Address} ELSE {Filtered(j)}

\* The size of the answer; which ones, the strategy or chance decides.
Choices(Q) ==
  IF Cardinality(Q) <= Redundant THEN {Q}
  ELSE {S \in SUBSET Q : Cardinality(S) = Redundant}

\* Client.assign_task.
Assigned(e, j) == [e EXCEPT !.cur = @ + 1, !.tasks[j] = @ + 1]
\* Faulty variant: cur alone goes down.
ReleasedHalf(e, j) == [e EXCEPT !.cur = IF @ > 0 THEN @ - 1 ELSE @]
\* Client.release_task.
Released(e, j) ==
  [e EXCEPT !.cur = IF @ > 0 THEN @ - 1 ELSE @,
            !.tasks[j] = IF @ > 0 THEN @ - 1 ELSE @]

\* Faulty variant: a client is taken however busy it is.
SelectAny(j) ==
  /\ j \notin round
  /\ \E S \in SUBSET known :
       /\ Cardinality(S) >= Number
       /\ entry' = [c \in Client |-> IF c \in S THEN Assigned(entry[c], j) ELSE entry[c]]
       /\ again' = [again EXCEPT !.jobs = IF occupied[j] = {} THEN @ ELSE @ \cup {j}]
       /\ occupied' = [occupied EXCEPT ![j] = S]
       /\ asked' = [asked EXCEPT ![j] = S]
  /\ round' = round \cup {j}
  /\ UNCHANGED <<known, index, number, shared, monitor, work>>
\* select_client and __occupy_clients, when there are enough clients; else the
\* call fails and nothing changes.
SelectClient(j) ==
  /\ j \notin round
  /\ \E Q \in Qualified(j) :
       /\ Number <= Cardinality(Q)
       /\ \E S \in Choices(Q) :
            /\ entry' = [c \in Client |-> IF c \in S THEN Assigned(entry[c], j) ELSE entry[c]]
            /\ again' = [again EXCEPT !.jobs = IF occupied[j] = {} THEN @ ELSE @ \cup {j}]
            /\ occupied' = [occupied EXCEPT ![j] = S]
            /\ asked' = [asked EXCEPT ![j] = S]
  /\ round' = round \cup {j}
  /\ UNCHANGED <<known, index, number, shared, monitor, work>>

\* The coordinator sends its task to a client it was given.
SendTask(j, c) ==
  /\ c \in asked[j]
  /\ asked' = [asked EXCEPT ![j] = @ \ {c}]
  /\ work' = [work EXCEPT ![c] = @ \cup {j}]
  /\ UNCHANGED <<selectorVars, round, again>>

\* release_client, when the round is over, whoever is still busy with it.
ReleaseClient(j) ==
  /\ j \in round
  /\ entry' = [c \in Client |-> IF c \in occupied[j] THEN Released(entry[c], j) ELSE entry[c]]
  /\ occupied' = [occupied EXCEPT ![j] = {}]
  /\ round' = round \ {j}
  /\ asked' = [asked EXCEPT ![j] = {}]
  /\ UNCHANGED <<known, index, number, shared, monitor, work, again>>

\* The coordinator crashes, or its call of release is lost: the job selects
\* again with the old list still there.
GiveUpRound(j) ==
  /\ j \in round /\ again.times < MaxAgain
  /\ again' = [again EXCEPT !.times = @ + 1]
  /\ round' = round \ {j}
  /\ asked' = [asked EXCEPT ![j] = {}]
  /\ UNCHANGED <<selectorVars, work>>

CMNext ==
  \/ RefreshClients
  \/ \E c \in Client : Quit(c) \/ Expire(c) \/ \E a \in Address : Report(c, a)
  \/ \E c \in Client, j \in Job : SendTask(j, c) \/ EndTask(c, j)
  \/ \E j \in Job : SelectClient(j) \/ ReleaseClient(j) \/ GiveUpRound(j)

\* A client reports every 150 seconds; the monitor, while it lives, makes its
\* pass every 300. Nobody has to expire, and no job to end.
CMFairness ==
  /\ WF_cmVars(RefreshClients)
  /\ \A c \in Client : WF_cmVars(\E a \in Address : Report(c, a))

CMSafety == CMInit /\ [][CMNext]_cmVars
CMSpec == CMSafety /\ CMFairness

-----------------------------------------------------------------------------
(* What the selector promises.                                             *)

\* The three tables agree: __client_number is the size of __clients, and the
\* index finds every registered client by the address it has now, unless two
\* clients have shared one (client_manager.py:186, 212).
RegistryAgrees ==
  ~shared =>
  /\ number = Cardinality(known)
  /\ \A c \in Client, a \in Address : index[a] = c <=> c \in known /\ entry[c].address = a

\* A client counts a task of a job only while the job occupies it, if it has
\* reported the task itself, or if a new list of the job has replaced the old.
ReleasedIsFree ==
  \A c \in known, j \in Job :
    entry[c].tasks[j] > 0 =>
      c \in occupied[j] \/ j \in entry[c].reported \/ j \in again.jobs

\* By its own count the selector never gives a client more jobs than it may
\* have, unless a job asked for it by name or it has reported more.
BookedWithinLimit ==
  Specifying = {} =>
    \A c \in known : entry[c].cur <= Parallel
                     \/ entry[c].cur <= Cardinality(entry[c].reported)

\* What a lost release leaves at a client is gone in the end: its next report
\* says what it really has (Client.update). Not so of a client whose address is
\* not in the index: its reports fail.
StaleTask(c, j) ==
  c \in known /\ entry[c].tasks[j] > 0 /\ c \notin occupied[j] /\ j \notin work[c]
StaleTasksGo == \A c \in Client, j \in Job : StaleTask(c, j) ~> ~StaleTask(c, j) \/ shared
==============================================================================
