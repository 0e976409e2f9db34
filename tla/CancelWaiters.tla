---------------------------- MODULE CancelWaiters ----------------------------
(***************************************************************************)
(* Canceller, Waiter and the list of wakers between them                   *)
(* (monolake-services/src/common/cancel).  A Waiter is a future: its first *)
(* poll appends a waker to the list and remembers the index, later polls   *)
(* replace the waker at that index, its drop removes the entry.  The list  *)
(* is a vector of nodes linked by their indices; the nodes of removed      *)
(* entries are a stack linked by `next` and are used again.  Everything    *)
(* runs on one thread and no operation awaits.                             *)
(*                                                                         *)
(* The usize i of the code is i + 1 here.  `order` and `free` are history. *)
(***************************************************************************)
EXTENDS Naturals, Sequences, SequencesExt

CONSTANTS
  Waiters,  \* waiters; one that was dropped stands for a new one
  Tasks,    \* whom a waker wakes
  NULL      \* the index of no node, and the empty Option

ASSUME NullAssumption == NULL \notin Nat \cup Tasks

VARIABLES
  phase,    \* "open", "waking" within cancel, "cancelled", or "gone"
  head, tail, vacancy,     \* the LinkedList
  len, prev, next, data,   \* its nodes 1..len
  index,    \* index of every waiter
  task,     \* the task that polled each waiter last
  woken,    \* the tasks woken
  order,    \* the waiters in the list, first come first
  free      \* the indices of the vacant nodes, last vacated first

nodeVars == <<len, prev, next, data>>
listVars == <<head, tail, vacancy, nodeVars>>
vars == <<phase, listVars, index, task, woken, order, free>>

Nodes == 1..len

-----------------------------------------------------------------------------
(* The operations of LinkedList.                                           *)

\* Faulty variant: a node used again keeps its link to the next vacancy.
PushBackKeepingLink(t, i) ==
  LET reuse == vacancy # NULL
      kept == IF reuse THEN prev[i] ELSE NULL
  IN /\ i = IF reuse THEN vacancy ELSE len + 1
     /\ vacancy' = IF reuse THEN next[i] ELSE NULL
     /\ head' = IF tail = NULL THEN i ELSE head
     /\ tail' = i
     /\ len' = IF reuse THEN len ELSE i
     /\ data' = [j \in 1..len' |-> IF j = i THEN t ELSE data[j]]
     /\ next' = [j \in 1..len' |-> IF j = tail THEN i
                               ELSE IF j = i /\ ~reuse THEN NULL ELSE next[j]]
     /\ prev' = [j \in 1..len' |-> IF j # i THEN prev[j]
                               ELSE IF tail # NULL THEN tail ELSE kept]

\* Faulty variant: the vacant node is used and stays vacant.
PushBackNotPopping(t, i) ==
  LET reuse == vacancy # NULL
      kept == IF reuse THEN prev[i] ELSE NULL
  IN /\ i = IF reuse THEN vacancy ELSE len + 1
     /\ head' = IF tail = NULL THEN i ELSE head
     /\ tail' = i
     /\ len' = IF reuse THEN len ELSE i
     /\ data' = [j \in 1..len' |-> IF j = i THEN t ELSE data[j]]
     /\ next' = [j \in 1..len' |-> IF j = tail THEN i
                               ELSE IF j = i THEN NULL ELSE next[j]]
     /\ prev' = [j \in 1..len' |-> IF j # i THEN prev[j]
                               ELSE IF tail # NULL THEN tail ELSE kept]
     /\ UNCHANGED vacancy

\* Faulty variant: the vector grows by a node for every waiter.
PushBackAlwaysGrowing(t, i) ==
  /\ i = len + 1
  /\ head' = IF tail = NULL THEN i ELSE head
  /\ tail' = i
  /\ len' = i
  /\ data' = Append(data, t)
  /\ next' = [j \in 1..len' |-> IF j = tail THEN i
                               ELSE IF j = i THEN NULL ELSE next[j]]
  /\ prev' = Append(prev, tail)
  /\ UNCHANGED vacancy

\* push_back(t) returns i, a new node or a vacant one; the latter keeps its
\* `prev`, unless the list has a tail to link it to.
PushBack(t, i) ==
  LET reuse == vacancy # NULL
      kept == IF reuse THEN prev[i] ELSE NULL
  IN /\ i = IF reuse THEN vacancy ELSE len + 1
     /\ vacancy' = IF reuse THEN next[i] ELSE NULL
     /\ head' = IF tail = NULL THEN i ELSE head
     /\ tail' = i
     /\ len' = IF reuse THEN len ELSE i
     /\ data' = [j \in 1..len' |-> IF j = i THEN t ELSE data[j]]
     /\ next' = [j \in 1..len' |-> IF j = tail THEN i
                               ELSE IF j = i THEN NULL ELSE next[j]]
     /\ prev' = [j \in 1..len' |-> IF j # i THEN prev[j]
                               ELSE IF tail # NULL THEN tail ELSE kept]

Occupied(i) == i \in Nodes /\ data[i] # NULL

\* The nodes when node i is taken out from between its neighbours.
Unlink(i) ==
  /\ tail' = IF next[i] = NULL THEN prev[i] ELSE tail
  /\ next' = [j \in Nodes |-> IF j = i THEN vacancy
                            ELSE IF j = prev[i] THEN next[i] ELSE next[j]]
  /\ prev' = [j \in Nodes |-> IF j = next[i] THEN prev[i] ELSE prev[j]]
  /\ data' = [data EXCEPT ![i] = NULL]
  /\ vacancy' = i
  /\ UNCHANGED len

\* Faulty variant: removing the first entry leaves `head` alone.
RemoveEntryKeepingHead(i) ==
  IF Occupied(i) THEN Unlink(i) /\ UNCHANGED head ELSE UNCHANGED listVars

\* remove(i); `prev` of the node stays as it is.
RemoveEntry(i) ==
  IF Occupied(i)
  THEN Unlink(i) /\ head' = IF prev[i] = NULL THEN next[i] ELSE head
  ELSE UNCHANGED listVars

NoNodes == len' = 0 /\ prev' = <<>> /\ next' = <<>> /\ data' = <<>>

\* LinkedList::new
NewList == NoNodes /\ head' = NULL /\ tail' = NULL /\ vacancy' = NULL

-----------------------------------------------------------------------------
Init ==
  /\ phase = "open"
  /\ head = NULL
  /\ tail = NULL
  /\ vacancy = NULL
  /\ len = 0
  /\ prev = <<>>
  /\ next = <<>>
  /\ data = <<>>
  /\ index = [w \in Waiters |-> NULL]
  /\ task \in [Waiters -> Tasks]
  /\ woken = {}
  /\ order = <<>>
  /\ free = <<>>

\* Task t polls a waiter for the first time.  (Once cancelled, or without a
\* canceller, a poll is Ready and changes nothing.)
FirstPoll(w, t) ==
  /\ phase = "open"
  /\ index[w] = NULL
  /\ \E i \in 1..(len + 1) :
       PushBack(t, i) /\ index' = [index EXCEPT ![w] = i]
  /\ task' = [task EXCEPT ![w] = t]
  /\ order' = Append(order, w)
  /\ free' = IF free = <<>> THEN <<>> ELSE Tail(free)
  /\ UNCHANGED <<phase, woken>>

\* Task t polls it again: get_mut(idx).unwrap() gets the new waker.
PollAgain(w, t) ==
  /\ phase = "open"
  /\ index[w] # NULL
  /\ Occupied(index[w])
  /\ data' = [data EXCEPT ![index[w]] = t]
  /\ task' = [task EXCEPT ![w] = t]
  /\ UNCHANGED <<phase, head, tail, vacancy, len, prev, next, index, woken, order, free>>

\* The future is dropped.
DropWaiter(w) ==
  /\ phase # "waking"
  /\ index[w] # NULL
  /\ index' = [index EXCEPT ![w] = NULL]
  /\ IF phase = "open"
     THEN /\ RemoveEntry(index[w])
          /\ \E i \in DOMAIN order : order[i] = w /\ order' = RemoveAt(order, i)
          /\ free' = <<index[w]>> \o free
     ELSE UNCHANGED <<listVars, order, free>>
  /\ UNCHANGED <<phase, task, woken>>

\* cancel takes the list away, and then walks it.
Cancel ==
  /\ phase = "open"
  /\ phase' = "waking"
  /\ UNCHANGED <<listVars, index, task, woken, order, free>>

\* LinkedListIter::next and wake
Wake ==
  /\ phase = "waking"
  /\ head # NULL /\ Occupied(head)
  /\ head' = next[head]
  /\ data' = [data EXCEPT ![head] = NULL]
  /\ woken' = woken \cup {data[head]}
  /\ order' = Tail(order)
  /\ UNCHANGED <<phase, tail, vacancy, len, prev, next, index, task, free>>

\* The iterator ends, and what is left of the list is dropped.
CancelReturns ==
  /\ phase = "waking"
  /\ head = NULL \/ ~Occupied(head)
  /\ phase' = "cancelled"
  /\ NewList
  /\ free' = <<>>
  /\ UNCHANGED <<index, task, woken, order>>

\* The last Canceller is dropped without cancel; the wakers are dropped.
CancellerDropped ==
  /\ phase = "open"
  /\ phase' = "gone"
  /\ NewList
  /\ order' = <<>>
  /\ free' = <<>>
  /\ UNCHANGED <<index, task, woken>>

\* Nothing more can happen.
Over == phase \in {"cancelled", "gone"} /\ UNCHANGED vars

Waking == Wake \/ CancelReturns

Next ==
  \/ Cancel \/ Waking \/ CancellerDropped \/ Over
  \/ \E w \in Waiters : DropWaiter(w) \/ \E t \in Tasks : FirstPoll(w, t) \/ PollAgain(w, t)

\* cancel runs to its end.
Fairness == WF_vars(Waking)

Spec == Init /\ [][Next]_vars /\ Fairness

-----------------------------------------------------------------------------
(* Correctness.                                                            *)

\* The types of the variables; an index of the list is always in bounds.
TypeOK ==
  /\ phase \in {"open", "waking", "cancelled", "gone"}
  /\ len \in Nat
  /\ {head, tail, vacancy} \subseteq Nodes \cup {NULL}
  /\ prev \in [Nodes -> Nodes \cup {NULL}]
  /\ next \in [Nodes -> Nodes \cup {NULL}]
  /\ data \in [Nodes -> Tasks \cup {NULL}]
  /\ index \in [Waiters -> Nat \cup {NULL}]
  /\ task \in [Waiters -> Tasks]
  /\ woken \subseteq Tasks
  /\ order \in Seq(Waiters)
  /\ free \in Seq(Nat)

\* Every waiter that was polled finds the waker of its last poll at its index,
\* and no other waiter has that index: get_mut(idx).unwrap() never panics, a
\* poll never overwrites the waker of somebody else, a drop never removes it.
EntriesOwned ==
  phase = "open" =>
    \A w \in Waiters : index[w] # NULL =>
      /\ Occupied(index[w])
      /\ data[index[w]] = task[w]
      /\ \A v \in Waiters : index[v] = index[w] => v = w

\* The vector grows only when every node of it is in use: waiters that come
\* and go for as long as the canceller lives do not fill the memory.
VacanciesReused ==
  [][len' > len => \A i \in Nodes : Occupied(i)]_vars

\* The links of the list, nodes used again and all, amount to a queue.
Queue == INSTANCE WaitQueue
           WITH phase <- IF phase = "waking" THEN "cancelled" ELSE phase,
                queue <- order, waker <- task
ImplementsQueue == Queue!Spec

\* cancel wakes everybody who waits.
CancelWakes ==
  \A w \in Waiters : phase = "waking" /\ index[w] # NULL ~> task[w] \in woken

\* The node of the waiter that is i-th in the list.
At(i) == index[order[i]]

\* `head` and `next` lead through the waiters in their order, and so do `tail`
\* and `prev` back, until cancel takes the list apart.
Linked ==
  /\ \A i, j \in DOMAIN order : order[i] = order[j] => i = j
  /\ \A i, j \in DOMAIN order : At(i) = At(j) => i = j
  /\ head = IF order = <<>> THEN NULL ELSE At(1)
  /\ \A i \in DOMAIN order :
       /\ At(i) \in Nodes
       /\ data[At(i)] = task[order[i]]
       /\ next[At(i)] = IF i = Len(order) THEN NULL ELSE At(i + 1)
  /\ phase = "open" =>
       /\ tail = IF order = <<>> THEN NULL ELSE At(Len(order))
       /\ \A i \in DOMAIN order :
            prev[At(i)] = IF i = 1 THEN NULL ELSE At(i - 1)

\* `vacancy` and `next` lead through the vacant nodes.  The node that will be
\* the first of an empty list has no stale `prev`: it was vacated last, and
\* was the only one then.
Vacated ==
  /\ vacancy = IF free = <<>> THEN NULL ELSE free[1]
  /\ \A i, j \in DOMAIN free : free[i] = free[j] => i = j
  /\ \A i \in DOMAIN free :
       /\ free[i] \in Nodes
       /\ data[free[i]] = NULL
       /\ next[free[i]] = IF i = Len(free) THEN NULL ELSE free[i + 1]
  /\ order = <<>> /\ free # <<>> => prev[free[1]] = NULL

\* Every waiter that was polled is in the list, every vacant node is on the
\* stack, and every other node is a waiter's.
Complete ==
  /\ \A w \in Waiters : index[w] # NULL => \E i \in DOMAIN order : order[i] = w
  /\ \A n \in Nodes :
       \/ \E i \in DOMAIN free : free[i] = n
       \/ \E i \in DOMAIN order : At(i) = n

\* The inductive invariant.
IInv ==
  /\ TypeOK
  /\ Linked
  /\ phase = "open" => Vacated /\ Complete
  /\ phase \in {"cancelled", "gone"} => order = <<>>
==============================================================================
