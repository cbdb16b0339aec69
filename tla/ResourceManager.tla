---------------------------- MODULE ResourceManager ----------------------------
(***************************************************************************)
(* The resource manager of a client agent (rm.py, node.py): the nodes, what*)
(* the tasks hold on them, and the thread that watches the cluster. One    *)
(* kind of resource stands for cpu, gpu and memory, which are counted      *)
(* alike. A request is two steps, before and after its database call: the  *)
(* event loop waits for it, the watching thread does not.                  *)
(***************************************************************************)
EXTENDS Integers, FiniteSets, Functions

CONSTANTS
  Node,
  TaskId,
  Volume,      \* the most a node can have
  Persist,     \* PERSIST_TASK_RESOURCE_USAGE
  MaxEvents    \* bound on the events of the cluster

ASSUME RMAssumption ==
  /\ IsFiniteSet(Node) /\ IsFiniteSet(TaskId)
  /\ Volume \in Nat \ {0} /\ Persist \in BOOLEAN /\ MaxEvents \in Nat

VARIABLES
  nodes,    \* the ids in __nodes
  node,     \* the Node objects
  held,     \* the ids in __tasks
  granted,  \* what __tasks says each task has on each node
  recorded, \* the ids in the database
  asking,   \* the request in its database call
  watching, \* is the platform watched (Kubernetes) or fixed (Standalone)?
  events    \* events of the cluster so far

rmVars == <<nodes, node, held, granted, recorded, asking, watching, events>>

NoTask == "none"
ASSUME NoTaskIsNoTask == NoTask \notin TaskId

Nothing == [x \in Node |-> 0]
NoRequest == [task |-> NoTask, grant |-> Nothing]
\* A node as the platform reports it; ready: in state READY and of this cluster.
NewNode(v, r) ==
  [volume |-> v, ready |-> r, allocated |-> 0, tasks |-> [t \in TaskId |-> 0]]

RMTypeOK ==
  /\ nodes \subseteq Node
  /\ node \in [Node -> [volume : 0 .. Volume, ready : BOOLEAN, allocated : Nat,
                        tasks : [TaskId -> Nat]]]
  /\ held \subseteq TaskId /\ recorded \subseteq TaskId
  /\ granted \in [TaskId -> [Node -> Nat]]
  /\ asking \in [task : TaskId \cup {NoTask}, grant : [Node -> Nat]]
  /\ watching \in BOOLEAN /\ events \in 0 .. MaxEvents

\* fetch_nodes of the platform: what is there when the agent starts.
Fetched == [x \in Node |-> NewNode(Volume, TRUE)]

\* start.
RMInit ==
  /\ nodes = Node /\ node = Fetched
  /\ held = {} /\ recorded = {} /\ granted = [t \in TaskId |-> Nothing]
  /\ asking = NoRequest /\ watching \in BOOLEAN /\ events = 0

-----------------------------------------------------------------------------
(* The nodes.                                                              *)

\* Occupied and Released are for all the workers of a task on a node at once.
Occupied(n, t, amount) ==
  [n EXCEPT !.tasks[t] = @ + amount, !.allocated = @ + amount]

\* release_resource: what the task held is added to its entry, not taken off,
\* so the entry stays.
Released(n, t, amount) ==
  IF n.tasks[t] = 0 THEN n
  ELSE [n EXCEPT !.tasks[t] = @ + amount, !.allocated = @ - amount]

\* Faulty variant: what the new node reports is taken over, its allocation too.
TakenOver(n, v, r) == [n EXCEPT !.volume = v, !.ready = r, !.allocated = 0]
\* update: when anything differs, every entry of the table is occupied once more
\* by itself, which doubles it first.
Updated(n, v, r) ==
  IF n.volume = v /\ n.ready = r THEN n
  ELSE [volume |-> v, ready |-> r, tasks |-> [t \in TaskId |-> 2 * n.tasks[t]],
        allocated |-> n.allocated + SumFunction([t \in TaskId |-> 2 * n.tasks[t]])]

\* __add_node, and __modify_node: they do the same.
AddNode(x, v, r) ==
  /\ nodes' = nodes \cup {x}
  /\ node' = [node EXCEPT ![x] = IF x \in nodes THEN Updated(@, v, r) ELSE NewNode(v, r)]

DeleteNode(x) ==
  /\ x \in nodes /\ nodes' = nodes \ {x}
  /\ node' = [node EXCEPT ![x] = NewNode(0, FALSE)]

\* The watching thread takes an event.
Watch ==
  /\ watching /\ events < MaxEvents /\ events' = events + 1
  /\ \E x \in Node :
       DeleteNode(x) \/ \E v \in 1 .. Volume, r \in BOOLEAN : AddNode(x, v, r)
  /\ UNCHANGED <<held, granted, recorded, asking, watching>>

-----------------------------------------------------------------------------
(* Requests and releases.                                                  *)

\* __calc_allocatable_worker_num: int() rounds towards zero, and what is left
\* is negative when a node has shrunk.
Room(n, r) ==
  IF ~n.ready THEN 0
  ELSE IF n.volume >= n.allocated THEN (n.volume - n.allocated) \div r
  ELSE -((n.allocated - n.volume) \div r)

WorkersOf(g) == SumFunction(g)

\* The specs __allocate_resource may return: nodes are filled one after the
\* other, in an order nobody chose (the result of sorted() is dropped).
Allocations(ns, at, n, r) ==
  LET room == [x \in Node |-> IF x \in ns THEN Room(at[x], r) ELSE 0]
  IN {g \in [Node -> 0 .. n] :
        /\ WorkersOf(g) = n
        /\ \A x \in Node : g[x] > 0 => g[x] <= room[x]
        /\ \A x, y \in Node : x # y /\ g[x] > 0 /\ g[y] > 0
             => g[x] = room[x] \/ g[y] = room[y]}

\* The nodes once t has given back what it holds.
GivenBack(t) ==
  [x \in Node |-> IF x \in nodes THEN Released(node[x], t, granted[t][x]) ELSE node[x]]

\* release.
Release(t) ==
  /\ asking = NoRequest
  /\ node' = GivenBack(t) /\ held' = held \ {t} /\ recorded' = recorded \ {t}
  /\ granted' = [granted EXCEPT ![t] = Nothing]
  /\ UNCHANGED <<nodes, asking, watching, events>>

\* request, up to the database call: n workers of r each. A task that is known
\* releases first. Without enough room the request is refused, and so is the task.
Request(t, n, r) ==
  /\ asking = NoRequest
  /\ \E g \in Allocations(nodes, GivenBack(t), n, r) :
       asking' = [task |-> t, grant |-> [x \in Node |-> g[x] * r]]
  /\ node' = GivenBack(t) /\ held' = held \ {t} /\ recorded' = recorded \ {t}
  /\ granted' = [granted EXCEPT ![t] = Nothing]
  /\ UNCHANGED <<nodes, watching, events>>

\* __occupy_resource, on the nodes that are there by then.
Occupy ==
  node' = [x \in Node |->
             IF x \in nodes THEN Occupied(node[x], asking.task, asking.grant[x]) ELSE node[x]]

\* The rest of request: __add_task and __occupy_resource.
Grant ==
  /\ asking # NoRequest
  /\ held' = held \cup {asking.task}
  /\ recorded' = IF Persist THEN recorded \cup {asking.task} ELSE recorded
  /\ granted' = [granted EXCEPT ![asking.task] = asking.grant]
  /\ Occupy
  /\ asking' = NoRequest
  /\ UNCHANGED <<nodes, watching, events>>

\* The agent starts again: __fetch_nodes and __restore_task.
Restore ==
  /\ held' = recorded /\ nodes' = Node /\ asking' = NoRequest
  /\ granted' = [t \in TaskId |-> IF t \in recorded THEN granted[t] ELSE Nothing]
  /\ node' = [x \in Node |->
       [Fetched[x] EXCEPT
          !.tasks = [t \in TaskId |-> IF t \in recorded THEN granted[t][x] ELSE 0],
          !.allocated = SumFunctionOnSet([t \in TaskId |-> granted[t][x]], recorded)]]
  /\ UNCHANGED <<recorded, watching, events>>

-----------------------------------------------------------------------------
(* Properties.                                                             *)

\* What the tasks hold on node x, of those the Node object knows.
HeldOn(x) ==
  SumFunctionOnSet([t \in TaskId |-> IF node[x].tasks[t] > 0 THEN granted[t][x] ELSE 0], held)

\* Whatever update(), restarts and the watching thread do, all that the tasks a
\* node knows hold there is allocated, and so not given twice; and where the nodes
\* do not change, nothing else is (node.py:40, 96; rm.py:79, 215).
AllocationCoversHeld ==
  \A x \in nodes :
    /\ HeldOn(x) <= node[x].allocated
    /\ ~watching => HeldOn(x) = node[x].allocated

==============================================================================
