------------------------- MODULE CancelWaitersProofs -------------------------
(***************************************************************************)
(* Proofs about CancelWaiters, for any number of waiters and of tasks, and *)
(* lists of any length.                                                    *)
(***************************************************************************)
EXTENDS CancelWaiters, SequenceTheorems, TLAPS

-----------------------------------------------------------------------------
(* The list: appending to it.                                              *)

\* What is left of a sequence without its first element.
LEMMA TailFacts ==
  ASSUME NEW S, NEW s \in Seq(S), s # <<>>
  PROVE  /\ Len(s) \in Nat /\ Len(s) >= 1
         /\ Tail(s) \in Seq(S)
         /\ Len(Tail(s)) = Len(s) - 1
         /\ Tail(s) = <<>> <=> Len(s) = 1
         /\ \A i \in DOMAIN Tail(s) : /\ i \in Nat /\ i >= 1
                                     /\ i + 1 \in DOMAIN s
                                     /\ Tail(s)[i] = s[i + 1]
<1>1. Len(s) \in Nat /\ Len(s) # 0
  BY EmptySeq
<1>2. /\ Tail(s) \in Seq(S)
      /\ Len(Tail(s)) = Len(s) - 1
      /\ \A i \in 1..Len(Tail(s)) : Tail(s)[i] = s[i + 1]
  BY HeadTailProperties
<1>3. Tail(s) = <<>> <=> Len(s) = 1
  BY <1>1, <1>2, EmptySeq
<1>4. DOMAIN s = 1..Len(s) /\ DOMAIN Tail(s) = 1..Len(Tail(s))
  BY <1>2
<1> QED
  BY <1>1, <1>2, <1>3, <1>4

\* The nodes of waiters are in use.
LEMMA NodesInUse ==
  ASSUME IInv, NEW i \in DOMAIN order
  PROVE  /\ order[i] \in Waiters
         /\ At(i) \in Nodes
         /\ At(i) \in Nat
         /\ index[order[i]] # NULL
         /\ data[At(i)] \in Tasks
         /\ data[At(i)] # NULL
BY NullAssumption DEF IInv, TypeOK, Linked, At, Nodes

\* What push_back does to the nodes, whichever node it takes.
LEMMA Pushed ==
  ASSUME IInv, phase = "open", NEW t \in Tasks, NEW n \in 1..(len + 1),
         PushBack(t, n), free' = IF free = <<>> THEN <<>> ELSE Tail(free)
  PROVE  /\ \A i \in DOMAIN order : At(i) # n
         /\ \A i \in DOMAIN free' : free'[i] # n
         /\ len' \in Nat /\ n \in Nodes'
         /\ Nodes' = Nodes \cup {n}
         /\ prev'[n] = IF order = <<>> THEN NULL ELSE At(Len(order))
         /\ next'[n] = NULL
         /\ data'[n] = t
         /\ order # <<>> => next'[At(Len(order))] = n
         /\ \A m \in Nodes : m # n =>
              /\ data'[m] = data[m] /\ prev'[m] = prev[m]
              /\ order = <<>> \/ m # At(Len(order)) => next'[m] = next[m]
         /\ head' = IF order = <<>> THEN n ELSE head
         /\ tail' = n
         /\ vacancy' = IF free' = <<>> THEN NULL ELSE free'[1]
<1> DEFINE last == At(Len(order))
<1> USE NullAssumption DEF IInv, TypeOK, Nodes
<1>1. /\ tail = NULL <=> order = <<>>
      /\ order # <<>> => /\ tail = last /\ last \in Nodes
                         /\ Len(order) \in DOMAIN order
                         /\ data[last] # NULL /\ last \in Nat
  BY NodesInUse DEF Linked
<1>2. vacancy = NULL <=> free = <<>>
  BY DEF Vacated
<1>3. CASE vacancy = NULL
  <2>1. n = len + 1 /\ n \notin Nodes /\ len' = n /\ Nodes' = Nodes \cup {n}
    BY <1>3 DEF PushBack
  <2>2. free' = <<>> /\ vacancy' = NULL
    BY <1>2, <1>3 DEF PushBack
  <2>3. \A i \in DOMAIN order : At(i) # n
    BY <2>1, NodesInUse
  <2>4. /\ head' = IF order = <<>> THEN n ELSE head
        /\ tail' = n
        /\ data'[n] = t
        /\ next'[n] = NULL
        /\ prev'[n] = IF order = <<>> THEN NULL ELSE last
    BY <1>1, <1>3, <2>1 DEF PushBack
  <2>5. order # <<>> => next'[last] = n
    BY <1>1, <1>3, <2>1 DEF PushBack
  <2>6. \A m \in Nodes : m # n =>
          /\ data'[m] = data[m] /\ prev'[m] = prev[m]
          /\ order = <<>> \/ m # last => next'[m] = next[m]
    BY <1>1, <1>3, <2>1 DEF PushBack
  <2> QED
    BY <2>1, <2>2, <2>3, <2>4, <2>5, <2>6
<1>4. CASE vacancy # NULL
  <2>1. /\ n = free[1] /\ 1 \in DOMAIN free /\ n \in Nodes /\ data[n] = NULL
        /\ free' = Tail(free)
        /\ next[n] = IF Len(free) = 1 THEN NULL ELSE free[2]
        /\ order = <<>> => prev[n] = NULL
    <3>1. free # <<>> /\ 1 \in DOMAIN free /\ n = free[1] /\ free' = Tail(free)
      BY <1>2, <1>4 DEF Vacated, PushBack
    <3>2. /\ free[1] \in Nodes
          /\ data[free[1]] = NULL
          /\ next[free[1]] = IF 1 = Len(free) THEN NULL ELSE free[1 + 1]
      BY <3>1 DEF Vacated
    <3> QED
      BY <3>1, <3>2 DEF Vacated
  <2>2. vacancy' = IF free' = <<>> THEN NULL ELSE free'[1]
    <3>1. vacancy' = next[n]
      BY <1>4 DEF PushBack
    <3>2. CASE Len(free) = 1
      <4>1. free' = <<>>
        BY <2>1, <3>2
      <4> QED
        BY <2>1, <3>1, <3>2, <4>1
    <3>3. CASE Len(free) # 1
      <4>1. free \in Seq(Nat) /\ free # <<>> /\ free' = Tail(free)
        BY <2>1
      <4> HIDE DEF IInv, TypeOK
      <4>2. Len(free) \in Nat /\ Len(free) > 1 /\ Len(free') = Len(free) - 1
        BY <3>3, <4>1, TailFacts
      <4>3. free' # <<>> /\ free'[1] = free[2]
        BY <4>1, <4>2, TailFacts
      <4> QED
        BY <2>1, <3>1, <3>3, <4>3
    <3> QED
      BY <3>2, <3>3
  <2>3. \A i \in DOMAIN free' : free'[i] # n
    <3> SUFFICES ASSUME NEW i \in DOMAIN free' PROVE free'[i] # n
      OBVIOUS
    <3>1. i \in Nat /\ i + 1 \in DOMAIN free /\ i + 1 # 1 /\ free'[i] = free[i + 1]
      BY <2>1
    <3> QED
      BY <2>1, <3>1 DEF Vacated
  <2>4. \A i \in DOMAIN order : At(i) # n
    BY <2>1, NodesInUse
  <2>5. len' = len /\ Nodes' = Nodes
    BY <1>4 DEF PushBack
  <2>6. /\ head' = IF order = <<>> THEN n ELSE head
        /\ tail' = n
        /\ data'[n] = t
        /\ next'[n] = NULL
        /\ prev'[n] = IF order = <<>> THEN NULL ELSE last
    BY <1>1, <1>4, <2>1, <2>5 DEF PushBack
  <2>7. order # <<>> => next'[last] = n
    BY <1>1, <1>4, <2>1, <2>5 DEF PushBack
  <2>8. \A m \in Nodes : m # n =>
          /\ data'[m] = data[m] /\ prev'[m] = prev[m]
          /\ order = <<>> \/ m # last => next'[m] = next[m]
    <3> SUFFICES ASSUME NEW m \in Nodes, m # n
                 PROVE  /\ data'[m] = data[m] /\ prev'[m] = prev[m]
                        /\ order = <<>> \/ m # last => next'[m] = next[m]
      OBVIOUS
    <3>1. m \in 1..len' /\ m # NULL
      BY <2>5
    <3>2. order = <<>> \/ m # last => m # tail
      BY <1>1, <3>1
    <3> QED
      BY <1>4, <3>1, <3>2 DEF PushBack
  <2> QED
    BY <2>1, <2>2, <2>3, <2>4, <2>5, <2>6, <2>7, <2>8
<1> QED
  BY <1>3, <1>4

\* Somebody begins to wait.
LEMMA InvFirstPoll ==
  ASSUME IInv, NEW w \in Waiters, NEW t \in Tasks, FirstPoll(w, t)
  PROVE  IInv'
<1> USE NullAssumption DEF Nodes, At
<1>t. TypeOK /\ phase = "open" /\ phase' = "open"
  BY DEF FirstPoll, IInv
<1>1. PICK n \in 1..(len + 1) : PushBack(t, n) /\ index' = [index EXCEPT ![w] = n]
  BY DEF FirstPoll
<1> DEFINE last == At(Len(order))
           top == Len(order) + 1
<1>2. /\ \A i \in DOMAIN order : At(i) # n
      /\ \A i \in DOMAIN free' : free'[i] # n
      /\ len' \in Nat /\ n \in Nodes'
      /\ Nodes' = Nodes \cup {n}
      /\ prev'[n] = IF order = <<>> THEN NULL ELSE last
      /\ next'[n] = NULL
      /\ data'[n] = t
      /\ order # <<>> => next'[last] = n
      /\ \A m \in Nodes : m # n =>
           /\ data'[m] = data[m] /\ prev'[m] = prev[m]
           /\ order = <<>> \/ m # last => next'[m] = next[m]
      /\ head' = IF order = <<>> THEN n ELSE head
      /\ tail' = n
      /\ vacancy' = IF free' = <<>> THEN NULL ELSE free'[1]
  BY <1>1, <1>t, Pushed DEF FirstPoll
\* The order gets longer by w, and nobody else moves.
<1>3. /\ order' \in Seq(Waiters) /\ Len(order') = top /\ order' # <<>>
      /\ Len(order) \in Nat /\ DOMAIN order = 1..Len(order) /\ DOMAIN order' = 1..top
      /\ order'[top] = w
      /\ \A i \in DOMAIN order : order'[i] = order[i]
  <2>1. order \in Seq(Waiters) /\ order' = Append(order, w)
    BY <1>t DEF FirstPoll, TypeOK
  <2> QED
    BY <2>1, AppendProperties
<1>4. \A i \in DOMAIN order : /\ order[i] # w
                             /\ index'[order'[i]] = At(i) /\ At(i) \in Nodes /\ At(i) \in Nat
                             /\ task'[order[i]] = task[order[i]]
                             /\ data[At(i)] = task[order[i]]
  <2> SUFFICES ASSUME NEW i \in DOMAIN order
               PROVE  /\ order[i] # w
                      /\ index'[order'[i]] = At(i) /\ At(i) \in Nodes /\ At(i) \in Nat
                      /\ task'[order[i]] = task[order[i]]
                      /\ data[At(i)] = task[order[i]]
    OBVIOUS
  <2>1. order[i] # w /\ order[i] \in Waiters /\ At(i) \in Nodes /\ At(i) \in Nat
    BY NodesInUse DEF FirstPoll
  <2>2. data[At(i)] = task[order[i]]
    BY DEF IInv, Linked
  <2> QED
    BY <1>1, <1>3, <1>t, <2>1, <2>2 DEF FirstPoll, TypeOK
<1>5. index'[order'[top]] = n /\ task'[w] = t /\ n \in Nat
  BY <1>1, <1>3, <1>t DEF FirstPoll, TypeOK
<1>6. order # <<>> => Len(order) \in DOMAIN order
  BY <1>3, <1>t, EmptySeq DEF TypeOK
<1>7. TypeOK'
  <2>1. /\ index' \in [Waiters -> Nat \cup {NULL}]
        /\ task' \in [Waiters -> Tasks]
        /\ woken' \subseteq Tasks
    BY <1>1, <1>5, <1>t DEF FirstPoll, TypeOK
  <2>2. free' \in Seq(Nat)
    BY <1>t, TailFacts DEF FirstPoll, TypeOK
  <2>3. head' \in Nodes' \cup {NULL} /\ tail' \in Nodes' \cup {NULL}
    BY <1>2, <1>t DEF TypeOK
  <2>4. vacancy' \in Nodes' \cup {NULL}
    BY <1>1, <1>2, <1>t DEF PushBack, TypeOK
  <2>5. /\ prev' \in [Nodes' -> Nodes' \cup {NULL}]
        /\ next' \in [Nodes' -> Nodes' \cup {NULL}]
        /\ data' \in [Nodes' -> Tasks \cup {NULL}]
    <3> USE DEF PushBack, TypeOK
    <3>1. Nodes' = 1..len' /\ \A j \in Nodes' : j \in Nodes \/ j = n
      BY <1>2
    <3>2. ASSUME NEW j \in Nodes' PROVE prev'[j] \in Nodes' \cup {NULL}
      <4> HIDE DEF PushBack, Nodes
      <4>1. CASE j = n
        BY <1>2, <1>4, <1>6, <4>1
      <4>2. CASE j # n
        <5>1. j \in Nodes /\ prev'[j] = prev[j]
          BY <1>2, <4>2
        <5>2. prev[j] \in Nodes \cup {NULL}
          BY <1>t, <5>1
        <5> QED
          BY <1>2, <5>1, <5>2
      <4> QED
        BY <4>1, <4>2
    <3>3. ASSUME NEW j \in Nodes' PROVE next'[j] \in Nodes' \cup {NULL}
      <4> HIDE DEF PushBack, Nodes
      <4>1. CASE j = n
        BY <1>2, <4>1
      <4>2. CASE j # n /\ order # <<>> /\ j = last
        BY <1>2, <4>2
      <4>3. CASE j # n /\ (order = <<>> \/ j # last)
        <5>1. j \in Nodes /\ next'[j] = next[j]
          BY <1>2, <4>3
        <5>2. next[j] \in Nodes \cup {NULL}
          BY <1>t, <5>1
        <5> QED
          BY <1>2, <5>1, <5>2
      <4> QED
        BY <4>1, <4>2, <4>3
    <3>4. \A j \in Nodes' : data'[j] \in Tasks \cup {NULL}
      BY <1>2, <1>t, <3>1
    <3>5. /\ prev' = [j \in Nodes' |-> prev'[j]]
          /\ next' = [j \in Nodes' |-> next'[j]]
          /\ data' = [j \in Nodes' |-> data'[j]]
      BY <1>1
    <3> QED
      BY <3>2, <3>3, <3>4, <3>5
  <2> QED
    BY <1>2, <1>3, <1>t, <2>1, <2>2, <2>3, <2>4, <2>5 DEF TypeOK
<1>8. Linked'
  <2>1. \A i, j \in DOMAIN order' : order'[i] = order'[j] => i = j
    BY <1>3, <1>4 DEF IInv, Linked
  <2>2. \A i, j \in DOMAIN order' : index'[order'[i]] = index'[order'[j]] => i = j
    BY <1>2, <1>3, <1>4, <1>5 DEF IInv, Linked
  <2>3. head' = index'[order'[1]] /\ tail' = index'[order'[top]]
    <3>1. CASE order = <<>>
      BY <1>2, <1>3, <1>5, <3>1, EmptySeq
    <3>2. CASE order # <<>>
      BY <1>2, <1>3, <1>4, <1>5, <1>6, <3>2 DEF IInv, Linked
    <3> QED
      BY <3>1, <3>2
  <2>4. ASSUME NEW i \in DOMAIN order'
        PROVE  /\ index'[order'[i]] \in Nodes'
               /\ data'[index'[order'[i]]] = task'[order'[i]]
               /\ next'[index'[order'[i]]] = IF i = top THEN NULL ELSE index'[order'[i + 1]]
               /\ prev'[index'[order'[i]]] = IF i = 1 THEN NULL ELSE index'[order'[i - 1]]
    <3>1. CASE i = top
      <4>1. data'[n] = t /\ next'[n] = NULL /\ n \in Nodes' /\ order'[i] = w /\ index'[order'[i]] = n
        BY <1>2, <1>3, <1>5, <3>1
      <4>2. CASE order = <<>>
        BY <1>2, <1>3, <1>5, <3>1, <4>1, <4>2, EmptySeq
      <4>3. CASE order # <<>>
        <5>1. i # 1 /\ i - 1 = Len(order) /\ Len(order) \in DOMAIN order
          BY <1>3, <1>6, <3>1, <4>3
        <5>2. index'[order'[i - 1]] = last
          BY <1>4, <5>1
        <5> QED
          BY <1>2, <1>5, <3>1, <4>1, <4>3, <5>1, <5>2
      <4> QED
        BY <4>2, <4>3
    <3>2. CASE i # top
      <4>1. i \in DOMAIN order /\ order # <<>> /\ At(i) # n
        BY <1>2, <1>3, <3>2, EmptySeq
      <4>2. /\ index'[order'[i]] = At(i) /\ At(i) \in Nodes /\ data'[At(i)] = data[At(i)]
            /\ prev'[At(i)] = prev[At(i)]
        BY <1>2, <1>4, <4>1
      <4>3. data'[index'[order'[i]]] = task'[order'[i]]
        BY <1>3, <1>4, <4>1, <4>2
      <4>4. prev[At(i)] = IF i = 1 THEN NULL ELSE At(i - 1)
        BY <1>t, <4>1 DEF IInv, Linked
      <4>5. i # 1 => i - 1 \in DOMAIN order
        BY <1>3, <4>1
      <4>6. prev'[index'[order'[i]]] = IF i = 1 THEN NULL ELSE index'[order'[i - 1]]
        BY <1>4, <4>2, <4>4, <4>5
      <4>7. CASE i = Len(order)
        BY <1>2, <1>3, <1>5, <3>2, <4>1, <4>2, <4>3, <4>6, <4>7
      <4>8. CASE i # Len(order)
        <5>1. i + 1 \in DOMAIN order
          BY <1>3, <4>1, <4>8
        <5>2. At(i) # last
          BY <1>6, <4>1, <4>8 DEF IInv, Linked
        <5>3. next[At(i)] = At(i + 1)
          BY <4>1, <4>8 DEF IInv, Linked
        <5> QED
          BY <1>2, <1>4, <3>2, <4>1, <4>2, <4>3, <4>6, <5>1, <5>2, <5>3
      <4> QED
        BY <4>7, <4>8
    <3> QED
      BY <3>1, <3>2
  <2> QED
    BY <1>3, <2>1, <2>2, <2>3, <2>4 DEF Linked
<1>9. Vacated'
  <2>1. CASE free = <<>>
    BY <1>2, <1>3, <2>1 DEF Vacated, FirstPoll
  <2>2. CASE free # <<>>
    <3>1. /\ free' = Tail(free)
          /\ \A i \in DOMAIN free' : i \in Nat /\ i + 1 \in DOMAIN free /\ free'[i] = free[i + 1]
          /\ Len(free') = Len(free) - 1 /\ Len(free) \in Nat
          /\ DOMAIN free' = 1..Len(free')
      BY <1>t, <2>2, TailFacts DEF FirstPoll, TypeOK
    <3>2. \A i, j \in DOMAIN free' : free'[i] = free'[j] => i = j
      BY <1>t, <3>1 DEF IInv, Vacated
    <3>3. ASSUME NEW i \in DOMAIN free'
          PROVE  /\ free'[i] \in Nodes'
                 /\ data'[free'[i]] = NULL
                 /\ next'[free'[i]] = IF i = Len(free') THEN NULL ELSE free'[i + 1]
      <4>1. /\ free'[i] \in Nodes /\ data[free'[i]] = NULL
            /\ next[free'[i]] = IF i + 1 = Len(free) THEN NULL ELSE free[i + 1 + 1]
        BY <1>t, <3>1 DEF IInv, Vacated
      <4>2. free'[i] # n /\ (order # <<>> => free'[i] # last)
        BY <1>2, <1>6, <4>1, NodesInUse
      <4>3. next'[free'[i]] = next[free'[i]] /\ data'[free'[i]] = NULL
        BY <1>2, <4>1, <4>2
      <4>4. i # Len(free') => i + 1 \in DOMAIN free'
        BY <3>1
      <4> QED
        BY <1>2, <3>1, <4>1, <4>3, <4>4
    <3> QED
      BY <1>2, <1>3, <3>2, <3>3 DEF Vacated
  <2> QED
    BY <2>1, <2>2
<1>10. Complete'
  <2>1. ASSUME NEW v \in Waiters, index'[v] # NULL
        PROVE  \E i \in DOMAIN order' : order'[i] = v
    <3>1. CASE v = w
      BY <1>3, <3>1
    <3>2. CASE v # w
      <4>1. PICK i \in DOMAIN order : order[i] = v
        BY <1>1, <1>t, <2>1, <3>2 DEF IInv, Complete, TypeOK
      <4> QED
        BY <1>3, <4>1
    <3> QED
      BY <3>1, <3>2
  <2>2. ASSUME NEW m \in Nodes'
        PROVE  \/ \E i \in DOMAIN free' : free'[i] = m
               \/ \E i \in DOMAIN order' : index'[order'[i]] = m
    <3>1. CASE m = n
      BY <1>3, <1>5, <3>1
    <3>2. CASE m # n
      <4>1. m \in Nodes
        BY <1>2, <3>2
      <4>2. CASE \E i \in DOMAIN order : At(i) = m
        BY <1>3, <1>4, <4>2
      <4>3. CASE \E i \in DOMAIN free : free[i] = m
        <5>1. PICK i \in DOMAIN free : free[i] = m
          BY <4>3
        <5>2. free # <<>> /\ i \in 1..Len(free) /\ Len(free) \in Nat
          BY <1>t, <5>1, EmptySeq DEF TypeOK
        <5>3. free' = Tail(free) /\ n = free[1]
          BY <1>1, <1>t, <5>2 DEF FirstPoll, PushBack, IInv, Vacated, TypeOK
        <5>4. i # 1 /\ i - 1 \in 1..(Len(free) - 1)
          BY <3>2, <5>1, <5>2, <5>3
        <5>5. i - 1 \in DOMAIN free' /\ free'[i - 1] = free[i - 1 + 1]
          BY <1>t, <5>2, <5>3, <5>4, TailFacts, HeadTailProperties DEF TypeOK
        <5> QED
          BY <5>1, <5>2, <5>5
      <4> QED
        BY <1>t, <4>1, <4>2, <4>3 DEF IInv, Complete
    <3> QED
      BY <3>1, <3>2
  <2> QED
    BY <2>1, <2>2 DEF Complete
<1> QED
  BY <1>7, <1>8, <1>9, <1>10, <1>t DEF IInv

-----------------------------------------------------------------------------
(* The list: removing from it.                                             *)

\* A sequence without its k-th element.
LEMMA RemoveAtFacts ==
  ASSUME NEW S, NEW s \in Seq(S), NEW k \in 1..Len(s)
  PROVE  /\ RemoveAt(s, k) \in Seq(S)
         /\ Len(RemoveAt(s, k)) = Len(s) - 1
         /\ \A i \in 1..(Len(s) - 1) :
              RemoveAt(s, k)[i] = IF i < k THEN s[i] ELSE s[i + 1]
<1> DEFINE a == SubSeq(s, 1, k - 1)
           b == SubSeq(s, k + 1, Len(s))
<1>1. a \in Seq(S) /\ Len(a) = k - 1 /\ \A i \in 1..(k - 1) : a[i] = s[i]
  OBVIOUS
<1>2. b \in Seq(S) /\ Len(b) = Len(s) - k /\ \A i \in 1..(Len(s) - k) : b[i] = s[k + i]
  OBVIOUS
<1>3. RemoveAt(s, k) = a \o b
  BY DEF RemoveAt
<1> HIDE DEF a, b
<1>4. /\ a \o b \in Seq(S) /\ Len(a \o b) = Len(a) + Len(b)
      /\ \A i \in 1..(Len(a) + Len(b)) :
           (a \o b)[i] = IF i <= Len(a) THEN a[i] ELSE b[i - Len(a)]
  BY <1>1, <1>2, ConcatProperties
<1>5. Len(s) \in Nat /\ Len(a) + Len(b) = Len(s) - 1
  BY <1>1, <1>2
<1>6. ASSUME NEW i \in 1..(Len(s) - 1)
      PROVE  (a \o b)[i] = IF i < k THEN s[i] ELSE s[i + 1]
  <2>1. CASE i < k
    BY <1>1, <1>4, <1>5, <2>1
  <2>2. CASE ~(i < k)
    <3>1. i - Len(a) \in 1..(Len(s) - k) /\ k + (i - Len(a)) = i + 1
      BY <1>1, <1>5, <2>2
    <3>2. b[i - Len(a)] = s[i + 1]
      BY <1>2, <3>1
    <3>3. ~(i <= Len(a)) /\ i \in 1..(Len(a) + Len(b))
      BY <1>1, <1>5, <2>2
    <3> QED
      BY <1>4, <2>2, <3>2, <3>3
  <2> QED
    BY <2>1, <2>2
<1> QED
  BY <1>3, <1>4, <1>5, <1>6

\* Somebody no longer waits.
LEMMA InvLeave ==
  ASSUME IInv, NEW w \in Waiters, phase = "open", DropWaiter(w)
  PROVE  IInv'
<1> USE NullAssumption DEF Nodes, At
<1>t. TypeOK /\ phase' = "open" /\ order \in Seq(Waiters) /\ free \in Seq(Nat)
  BY DEF DropWaiter, IInv, TypeOK
<1>1. PICK k \in DOMAIN order : order[k] = w /\ order' = RemoveAt(order, k)
  BY DEF DropWaiter
<1> DEFINE n == index[w]
           old(j) == IF j < k THEN j ELSE j + 1
<1>2. /\ Len(order) \in Nat /\ DOMAIN order = 1..Len(order) /\ k \in 1..Len(order)
      /\ order' \in Seq(Waiters) /\ Len(order') = Len(order) - 1
      /\ DOMAIN order' = 1..(Len(order) - 1)
      /\ \A j \in DOMAIN order' : order'[j] = order[old(j)]
      /\ \A j \in DOMAIN order' : old(j) \in DOMAIN order /\ old(j) # k
      /\ order' = <<>> <=> Len(order) = 1
  <2>1. Len(order) \in Nat /\ DOMAIN order = 1..Len(order) /\ k \in 1..Len(order)
    BY <1>t
  <2>2. /\ order' \in Seq(Waiters) /\ Len(order') = Len(order) - 1
        /\ \A j \in 1..(Len(order) - 1) : order'[j] = order[old(j)]
    BY <1>1, <1>t, <2>1, RemoveAtFacts
  <2>3. DOMAIN order' = 1..(Len(order) - 1) /\ (order' = <<>> <=> Len(order) = 1)
    BY <2>1, <2>2, EmptySeq
  <2> QED
    BY <2>1, <2>2, <2>3
<1>3. /\ n = index[order[k]] /\ n \in Nodes /\ n \in Nat /\ data[n] # NULL
      /\ prev[n] = IF k = 1 THEN NULL ELSE At(k - 1)
      /\ next[n] = IF k = Len(order) THEN NULL ELSE At(k + 1)
  BY <1>1, NodesInUse DEF IInv, Linked
<1>4. /\ head' = IF prev[n] = NULL THEN next[n] ELSE head
      /\ tail' = IF next[n] = NULL THEN prev[n] ELSE tail
      /\ next' = [j \in Nodes |-> IF j = n THEN vacancy
                                  ELSE IF j = prev[n] THEN next[n] ELSE next[j]]
      /\ prev' = [j \in Nodes |-> IF j = next[n] THEN prev[n] ELSE prev[j]]
      /\ data' = [data EXCEPT ![n] = NULL]
      /\ vacancy' = n /\ len' = len
      /\ free' = <<n>> \o free
      /\ index' = [index EXCEPT ![w] = NULL] /\ task' = task /\ woken' = woken
  BY <1>3 DEF DropWaiter, RemoveEntry, Occupied, Unlink
\* Who stays keeps its node.
<1>5. ASSUME NEW j \in DOMAIN order, j # k
      PROVE  /\ order[j] \in Waiters /\ order[j] # w
             /\ index'[order[j]] = At(j)
             /\ At(j) \in Nodes /\ At(j) \in Nat /\ At(j) # n
             /\ data'[At(j)] = task[order[j]]
  <2>1. /\ order[j] \in Waiters /\ At(j) \in Nodes /\ At(j) \in Nat
        /\ order[j] # w /\ At(j) # n
        /\ data[At(j)] = task[order[j]]
    BY <1>1, <1>3, <1>5, NodesInUse DEF IInv, Linked
  <2> QED
    BY <1>4, <1>t, <2>1 DEF TypeOK
<1>6. \A j \in DOMAIN order' : index'[order'[j]] = At(old(j))
  BY <1>2, <1>5
<1>f. /\ free' \in Seq(Nat) /\ Len(free') = Len(free) + 1 /\ Len(free) \in Nat
      /\ DOMAIN free' = 1..(Len(free) + 1) /\ DOMAIN free = 1..Len(free)
      /\ free'[1] = n /\ free' # <<>>
      /\ \A j \in DOMAIN free : free'[j + 1] = free[j]
      /\ \A j \in DOMAIN free' : j # 1 => j - 1 \in DOMAIN free /\ free'[j] = free[j - 1]
  <2>1. <<n>> \in Seq(Nat) /\ Len(<<n>>) = 1 /\ <<n>>[1] = n
    BY <1>3
  <2>2. free' \in Seq(Nat) /\ Len(free') = Len(free) + 1 /\ Len(free) \in Nat
    BY <1>4, <1>t, <2>1
  <2>3. DOMAIN free' = 1..(Len(free) + 1) /\ DOMAIN free = 1..Len(free)
    BY <1>t, <2>2
  <2>4. free'[1] = n
    BY <1>4, <1>t, <2>1, <2>2
  <2>5. \A j \in DOMAIN free : free'[j + 1] = free[j]
    BY <1>4, <1>t, <2>1, <2>3
  <2>6. \A j \in DOMAIN free' : j # 1 => j - 1 \in DOMAIN free /\ free'[j] = free[j - 1]
    BY <1>4, <1>t, <2>1, <2>2, <2>3
  <2> QED
    BY <2>2, <2>3, <2>4, <2>5, <2>6, EmptySeq
<1>7. TypeOK'
  <2>1. /\ prev[n] \in Nodes \cup {NULL} /\ next[n] \in Nodes \cup {NULL}
        /\ head \in Nodes \cup {NULL} /\ tail \in Nodes \cup {NULL}
        /\ vacancy \in Nodes \cup {NULL}
    BY <1>t, <1>3 DEF TypeOK
  <2>2. /\ prev' \in [Nodes -> Nodes \cup {NULL}]
        /\ next' \in [Nodes -> Nodes \cup {NULL}]
        /\ data' \in [Nodes -> Tasks \cup {NULL}]
    BY <1>t, <1>4, <2>1 DEF TypeOK
  <2>3. head' \in Nodes \cup {NULL} /\ tail' \in Nodes \cup {NULL} /\ vacancy' \in Nodes \cup {NULL}
    BY <1>3, <1>4, <2>1
  <2> QED
    BY <1>2, <1>4, <1>f, <1>t, <2>2, <2>3 DEF TypeOK
<1>8. Linked'
  <2>1. \A i, j \in DOMAIN order' : order'[i] = order'[j] => i = j
    BY <1>2 DEF IInv, Linked
  <2>2. \A i, j \in DOMAIN order' : index'[order'[i]] = index'[order'[j]] => i = j
    BY <1>2, <1>6 DEF IInv, Linked
  <2>3. head' = IF order' = <<>> THEN NULL ELSE index'[order'[1]]
    <3>1. head = At(1)
      BY <1>2, EmptySeq DEF IInv, Linked
    <3>2. CASE k = 1
      <4>1. head' = next[n]
        BY <1>3, <1>4, <3>2
      <4>2. CASE Len(order) = 1
        BY <1>2, <1>3, <3>2, <4>1, <4>2
      <4>3. CASE Len(order) # 1
        <5>1. 1 \in DOMAIN order' /\ old(1) = 2 /\ order' # <<>>
          BY <1>2, <3>2, <4>3
        <5>2. index'[order'[1]] = At(2)
          BY <1>6, <5>1
        <5>3. head' = At(2)
          BY <1>3, <3>2, <4>1, <4>3
        <5> QED
          BY <5>1, <5>2, <5>3
      <4> QED
        BY <4>2, <4>3
    <3>3. CASE k # 1
      <4>1. k - 1 \in DOMAIN order /\ k - 1 # k /\ 1 \in DOMAIN order' /\ order' # <<>>
        BY <1>2, <3>3
      <4>2. prev[n] # NULL
        BY <1>3, <1>5, <3>3, <4>1
      <4> QED
        BY <1>2, <1>4, <1>6, <3>1, <3>3, <4>1, <4>2
    <3> QED
      BY <3>2, <3>3
  <2>4. tail' = IF order' = <<>> THEN NULL ELSE index'[order'[Len(order')]]
    <3>1. tail = At(Len(order))
      BY <1>2, EmptySeq DEF IInv, Linked
    <3>2. CASE k = Len(order)
      <4>1. tail' = prev[n]
        BY <1>3, <1>4, <3>2
      <4>2. CASE k = 1
        BY <1>2, <1>3, <3>2, <4>1, <4>2
      <4>3. CASE k # 1
        <5>1. k - 1 \in DOMAIN order' /\ order' # <<>> /\ old(k - 1) = k - 1 /\ Len(order') = k - 1
          <6>1. k - 1 \in 1..(Len(order) - 1) /\ k - 1 < k
            BY <1>2, <3>2, <4>3
          <6>2. Len(order') = k - 1 /\ k - 1 \in DOMAIN order'
            BY <1>2, <3>2, <6>1
          <6>3. Len(order) # 1
            BY <1>2, <6>1
          <6> QED
            BY <1>2, <6>1, <6>2, <6>3
        <5>2. index'[order'[k - 1]] = At(k - 1)
          BY <1>6, <5>1
        <5> QED
          BY <1>3, <4>1, <4>3, <5>1, <5>2
      <4> QED
        BY <4>2, <4>3
    <3>3. CASE k # Len(order)
      <4>1. /\ k + 1 \in DOMAIN order /\ k + 1 # k /\ order' # <<>>
            /\ Len(order') \in DOMAIN order' /\ old(Len(order')) = Len(order)
        <5>1. k < Len(order) /\ Len(order) - 1 \in 1..(Len(order) - 1)
          BY <1>2, <3>3
        <5>2. k + 1 \in 1..Len(order) /\ k + 1 # k /\ Len(order) # 1
          BY <1>2, <5>1
        <5>3. Len(order') \in DOMAIN order' /\ ~(Len(order') < k) /\ Len(order') + 1 = Len(order)
          BY <1>2, <5>1
        <5> QED
          BY <1>2, <5>2, <5>3
      <4>2. next[n] # NULL
        BY <1>3, <1>5, <3>3, <4>1
      <4> QED
        BY <1>4, <1>6, <3>1, <4>1, <4>2
    <3> QED
      BY <3>2, <3>3
  <2>5. ASSUME NEW j \in DOMAIN order'
        PROVE  /\ index'[order'[j]] \in Nodes
               /\ data'[index'[order'[j]]] = task[order'[j]]
               /\ next'[index'[order'[j]]] =
                    IF j = Len(order') THEN NULL ELSE index'[order'[j + 1]]
               /\ prev'[index'[order'[j]]] =
                    IF j = 1 THEN NULL ELSE index'[order'[j - 1]]
    <3> DEFINE m == old(j)
    <3>1. /\ m \in DOMAIN order /\ m # k /\ order'[j] = order[m] /\ j \in 1..(Len(order) - 1)
          /\ index'[order'[j]] = At(m)
      BY <1>2, <1>6
    <3>2. /\ At(m) \in Nodes /\ At(m) # n /\ At(m) \in Nat
          /\ data'[At(m)] = task[order[m]]
      BY <1>5, <3>1
    <3>3. /\ next[At(m)] = IF m = Len(order) THEN NULL ELSE At(m + 1)
          /\ prev[At(m)] = IF m = 1 THEN NULL ELSE At(m - 1)
      BY <3>1 DEF IInv, Linked
    <3>4. /\ next'[At(m)] = IF At(m) = prev[n] THEN next[n] ELSE next[At(m)]
          /\ prev'[At(m)] = IF At(m) = next[n] THEN prev[n] ELSE prev[At(m)]
      BY <1>4, <3>2
    <3>5. \A i \in DOMAIN order : At(i) = At(m) => i = m
      BY <3>1 DEF IInv, Linked
    <3>6. next'[At(m)] = IF j = Len(order') THEN NULL ELSE index'[order'[j + 1]]
      <4>1. CASE m = k - 1
        <5>1. j = k - 1 /\ k # 1 /\ prev[n] = At(m)
          BY <1>2, <1>3, <3>1, <4>1
        <5>2. j = Len(order') <=> k = Len(order)
          BY <1>2, <5>1
        <5>3. k # Len(order) => j + 1 \in DOMAIN order' /\ old(j + 1) = k + 1
          BY <1>2, <5>1
        <5> QED
          BY <1>3, <1>6, <3>4, <5>1, <5>2, <5>3
      <4>2. CASE m # k - 1
        <5>1. At(m) # prev[n]
          <6>1. CASE k = 1
            BY <1>3, <3>2, <6>1
          <6>2. CASE k # 1
            BY <1>2, <1>3, <3>5, <4>2, <6>2
          <6> QED
            BY <6>1, <6>2
        <5>2. j = Len(order') <=> m = Len(order)
          BY <1>2, <3>1, <4>2
        <5>3. j # Len(order') => j + 1 \in DOMAIN order' /\ old(j + 1) = m + 1
          BY <1>2, <3>1, <4>2
        <5> QED
          BY <1>6, <3>3, <3>4, <5>1, <5>2, <5>3
      <4> QED
        BY <4>1, <4>2
    <3>7. prev'[At(m)] = IF j = 1 THEN NULL ELSE index'[order'[j - 1]]
      <4>1. CASE m = k + 1
        <5>1. j = k /\ k # Len(order) /\ next[n] = At(m)
          BY <1>2, <1>3, <3>1, <4>1
        <5>2. k # 1 => j - 1 \in DOMAIN order' /\ old(j - 1) = k - 1
          BY <1>2, <5>1
        <5> QED
          BY <1>3, <1>6, <3>4, <5>1, <5>2
      <4>2. CASE m # k + 1
        <5>1. At(m) # next[n]
          <6>1. CASE k = Len(order)
            BY <1>3, <3>2, <6>1
          <6>2. CASE k # Len(order)
            BY <1>2, <1>3, <3>5, <4>2, <6>2
          <6> QED
            BY <6>1, <6>2
        <5>2. j = 1 <=> m = 1
          BY <1>2, <3>1, <4>2
        <5>3. j # 1 => j - 1 \in DOMAIN order' /\ old(j - 1) = m - 1
          BY <1>2, <3>1, <4>2
        <5> QED
          BY <1>6, <3>3, <3>4, <5>1, <5>2, <5>3
      <4> QED
        BY <4>1, <4>2
    <3> QED
      BY <3>1, <3>2, <3>6, <3>7
  <2> QED
    BY <1>4, <2>1, <2>2, <2>3, <2>4, <2>5 DEF Linked
<1>9. Vacated'
  <2>1. /\ vacancy = IF free = <<>> THEN NULL ELSE free[1]
        /\ \A i, j \in DOMAIN free : free[i] = free[j] => i = j
        /\ \A i \in DOMAIN free :
             /\ free[i] \in Nodes /\ data[free[i]] = NULL
             /\ next[free[i]] = IF i = Len(free) THEN NULL ELSE free[i + 1]
    BY DEF IInv, Vacated
  <2>2. \A i \in DOMAIN free : free[i] # n
    BY <1>3, <2>1
  <2>3. \A i, j \in DOMAIN free' : free'[i] = free'[j] => i = j
    BY <1>f, <2>1, <2>2
  <2>4. ASSUME NEW i \in DOMAIN free'
        PROVE  /\ free'[i] \in Nodes
               /\ data'[free'[i]] = NULL
               /\ next'[free'[i]] = IF i = Len(free') THEN NULL ELSE free'[i + 1]
    <3>1. CASE i = 1
      <4>1. data'[n] = NULL /\ next'[n] = vacancy
        BY <1>3, <1>4, <1>t DEF TypeOK
      <4>2. vacancy = IF 1 = Len(free') THEN NULL ELSE free'[2]
        <5>1. CASE free = <<>>
          BY <1>f, <2>1, <5>1, EmptySeq
        <5>2. CASE free # <<>>
          <6>1. Len(free) # 0 /\ 1 \in DOMAIN free
            BY <1>f, <1>t, <5>2, EmptySeq
          <6> QED
            BY <1>f, <2>1, <5>2, <6>1
        <5> QED
          BY <5>1, <5>2
      <4> QED
        BY <1>3, <1>f, <3>1, <4>1, <4>2
    <3>2. CASE i # 1
      <4>1. i - 1 \in DOMAIN free /\ free'[i] = free[i - 1] /\ i - 1 + 1 = i
        BY <1>f, <3>2
      <4>2. /\ free[i - 1] \in Nodes /\ data[free[i - 1]] = NULL /\ free[i - 1] # n
            /\ next[free[i - 1]] = IF i - 1 = Len(free) THEN NULL ELSE free[i]
        BY <2>1, <2>2, <4>1
      <4>3. free[i - 1] # prev[n]
        <5>1. CASE k = 1
          BY <1>3, <4>2, <5>1
        <5>2. CASE k # 1
          <6>1. k - 1 \in DOMAIN order
            BY <1>2, <5>2
          <6> QED
            BY <1>3, <4>2, <5>2, <6>1, NodesInUse
        <5> QED
          BY <5>1, <5>2
      <4>4. data'[free[i - 1]] = NULL /\ next'[free[i - 1]] = next[free[i - 1]]
        BY <1>4, <1>t, <4>2, <4>3 DEF TypeOK
      <4>5. i - 1 # Len(free) => i \in DOMAIN free /\ free'[i + 1] = free[i]
        BY <1>f, <4>1
      <4> QED
        BY <1>f, <4>1, <4>2, <4>4, <4>5
    <3> QED
      BY <3>1, <3>2
  <2>5. order' = <<>> => prev'[free'[1]] = NULL
    <3> SUFFICES ASSUME order' = <<>> PROVE prev'[n] = NULL
      BY <1>f
    <3>1. k = 1 /\ Len(order) = 1
      BY <1>2
    <3> QED
      BY <1>3, <1>4, <3>1
  <2> QED
    BY <1>4, <1>f, <2>3, <2>4, <2>5 DEF Vacated
<1>10. Complete'
  <2>1. ASSUME NEW v \in Waiters, index'[v] # NULL
        PROVE  \E j \in DOMAIN order' : order'[j] = v
    <3>1. v # w /\ index[v] # NULL
      BY <1>4, <1>t, <2>1 DEF TypeOK
    <3>2. PICK i \in DOMAIN order : order[i] = v
      BY <3>1 DEF IInv, Complete
    <3>3. i # k
      BY <1>1, <3>1, <3>2
    <3>4. PICK j \in DOMAIN order' : old(j) = i
      <4>1. CASE i < k
        BY <1>2, <3>2, <4>1
      <4>2. CASE ~(i < k)
        <5>1. i - 1 \in DOMAIN order' /\ old(i - 1) = i
          BY <1>2, <3>2, <3>3, <4>2
        <5> QED
          BY <5>1
      <4> QED
        BY <4>1, <4>2
    <3> QED
      BY <1>2, <3>2, <3>4
  <2>2. ASSUME NEW m \in Nodes
        PROVE  \/ \E i \in DOMAIN free' : free'[i] = m
               \/ \E j \in DOMAIN order' : index'[order'[j]] = m
    <3>1. CASE m = n
      BY <1>f, <3>1
    <3>2. CASE \E i \in DOMAIN free : free[i] = m
      <4>1. PICK i \in DOMAIN free : free[i] = m
        BY <3>2
      <4>2. i + 1 \in DOMAIN free' /\ free'[i + 1] = m
        BY <1>f, <4>1
      <4> QED
        BY <4>2
    <3>3. CASE m # n /\ \E i \in DOMAIN order : At(i) = m
      <4>1. PICK i \in DOMAIN order : At(i) = m
        BY <3>3
      <4>2. i # k
        BY <1>3, <3>3, <4>1
      <4>3. CASE i < k
        <5>1. i \in DOMAIN order' /\ old(i) = i
          BY <1>2, <4>1, <4>3
        <5> QED
          BY <1>6, <4>1, <5>1
      <4>4. CASE ~(i < k)
        <5>1. i - 1 \in DOMAIN order' /\ old(i - 1) = i
          BY <1>2, <4>1, <4>2, <4>4
        <5> QED
          BY <1>6, <4>1, <5>1
      <4> QED
        BY <4>3, <4>4
    <3> QED
      BY <3>1, <3>2, <3>3 DEF IInv, Complete
  <2> QED
    BY <1>4, <2>1, <2>2 DEF Complete
<1> QED
  BY <1>7, <1>8, <1>9, <1>10, <1>t DEF IInv

-----------------------------------------------------------------------------
(* The other steps.                                                        *)

\* The list of a waiter that is polled again keeps its links.
LEMMA InvPollAgain ==
  ASSUME IInv, NEW w \in Waiters, NEW t \in Tasks, PollAgain(w, t)
  PROVE  IInv'
<1> USE NullAssumption DEF Nodes, At
<1>t. TypeOK /\ phase = "open" /\ phase' = "open" /\ Linked /\ Vacated /\ Complete
  BY DEF PollAgain, IInv
<1>1. /\ UNCHANGED <<head, tail, vacancy, len, prev, next, index, woken, order, free>>
      /\ data' = [data EXCEPT ![index[w]] = t]
      /\ task' = [task EXCEPT ![w] = t]
      /\ index[w] \in 1..len /\ data[index[w]] # NULL /\ index[w] # NULL
  BY DEF PollAgain, Occupied
<1>2. PICK k \in DOMAIN order : order[k] = w
  BY <1>1, <1>t DEF Complete
<1>3. TypeOK'
  BY <1>1, <1>t DEF TypeOK
<1>4. \A i \in DOMAIN order : data'[At(i)] = task'[order[i]]
  <2> SUFFICES ASSUME NEW i \in DOMAIN order PROVE data'[At(i)] = task'[order[i]]
    OBVIOUS
  <2>1. order[i] \in Waiters /\ At(i) \in Nodes /\ data[At(i)] = task[order[i]]
    BY NodesInUse, <1>t DEF Linked
  <2>2. CASE i = k
    BY <1>1, <1>2, <1>t, <2>1, <2>2 DEF TypeOK
  <2>3. CASE i # k
    <3>1. order[i] # w /\ At(i) # index[w]
      BY <1>2, <1>t, <2>3 DEF Linked
    <3> QED
      BY <1>1, <1>t, <2>1, <3>1 DEF TypeOK
  <2> QED
    BY <2>2, <2>3
<1>5. Linked'
  BY <1>1, <1>4, <1>t DEF Linked
<1>6. Vacated'
  <2>1. \A i \in DOMAIN free : free[i] # index[w]
    BY <1>1, <1>t DEF Vacated
  <2>2. \A i \in DOMAIN free : data'[free[i]] = NULL
    BY <1>1, <1>t, <2>1 DEF Vacated, TypeOK
  <2> QED
    BY <1>1, <1>t, <2>2 DEF Vacated
<1>7. Complete'
  BY <1>1, <1>t DEF Complete
<1> QED
  BY <1>3, <1>5, <1>6, <1>7, <1>t DEF IInv

\* A future dropped after the list has gone.
LEMMA InvLeaveLate ==
  ASSUME IInv, NEW w \in Waiters, phase # "open", DropWaiter(w)
  PROVE  IInv' /\ UNCHANGED <<phase, listVars, task, woken, order, free>>
<1> USE NullAssumption
<1>1. /\ phase \in {"cancelled", "gone"} /\ order = <<>>
      /\ UNCHANGED <<phase, listVars, task, woken, order, free>>
      /\ index' = [index EXCEPT ![w] = NULL]
  BY DEF DropWaiter, IInv, TypeOK
<1>2. TypeOK'
  BY <1>1 DEF IInv, TypeOK, Nodes, listVars, nodeVars
<1>3. Linked'
  BY <1>1 DEF IInv, Linked, Nodes, At, listVars, nodeVars
<1> QED
  BY <1>1, <1>2, <1>3 DEF IInv

\* The entry that is woken leaves the front of the list.
LEMMA InvWake ==
  ASSUME IInv, Wake
  PROVE  IInv' /\ order # <<>> /\ data[head] = task[order[1]]
<1> USE NullAssumption DEF Nodes, At
<1>t. /\ TypeOK /\ Linked /\ order \in Seq(Waiters)
      /\ phase = "waking" /\ phase' = "waking"
  BY DEF Wake, IInv, TypeOK
<1>1. order # <<>>
  BY <1>t DEF Wake, Linked
<1>2. /\ Len(order) \in Nat /\ Len(order) >= 1 /\ DOMAIN order = 1..Len(order)
      /\ order' \in Seq(Waiters) /\ Len(order') = Len(order) - 1
      /\ order' = <<>> <=> Len(order) = 1
      /\ DOMAIN order' = 1..(Len(order) - 1)
      /\ \A i \in DOMAIN order' : i \in Nat /\ i >= 1 /\ i + 1 \in DOMAIN order /\ order'[i] = order[i + 1]
  BY <1>1, <1>t, TailFacts DEF Wake
<1>3. head = At(1) /\ 1 \in DOMAIN order /\ head \in Nodes /\ data[head] = task[order[1]]
  BY <1>1, <1>2, <1>t DEF Linked
<1>4. /\ head' = next[head] /\ data' = [data EXCEPT ![head] = NULL]
      /\ woken' = woken \cup {data[head]}
      /\ UNCHANGED <<tail, vacancy, len, prev, next, index, task, free>>
  BY DEF Wake
<1>5. TypeOK'
  <2>1. data[head] \in Tasks
    BY <1>2, <1>3, NodesInUse
  <2> QED
    BY <1>2, <1>3, <1>4, <1>t, <2>1 DEF TypeOK
<1>6. \A i, j \in DOMAIN order' : order'[i] = order'[j] => i = j
  BY <1>2, <1>t DEF Linked
<1>7. \A i, j \in DOMAIN order' : index'[order'[i]] = index'[order'[j]] => i = j
  BY <1>2, <1>4, <1>t DEF Linked
<1>8. head' = IF order' = <<>> THEN NULL ELSE index'[order'[1]]
  <2>1. next[head] = IF 1 = Len(order) THEN NULL ELSE At(2)
    <3>1. next[At(1)] = IF 1 = Len(order) THEN NULL ELSE At(1 + 1)
      BY <1>3, <1>t DEF Linked
    <3> QED
      BY <1>3, <3>1
  <2>2. Len(order) # 1 => 1 \in DOMAIN order'
    BY <1>2
  <2> QED
    BY <1>2, <1>4, <2>1, <2>2
<1>9. ASSUME NEW i \in DOMAIN order'
      PROVE  /\ index'[order'[i]] \in Nodes'
             /\ data'[index'[order'[i]]] = task'[order'[i]]
             /\ next'[index'[order'[i]]] =
                  IF i = Len(order') THEN NULL ELSE index'[order'[i + 1]]
  <2>1. i \in Nat /\ i + 1 # 1 /\ i + 1 \in DOMAIN order /\ order'[i] = order[i + 1]
    BY <1>2
  <2>2. /\ At(i + 1) \in Nodes /\ data[At(i + 1)] = task[order[i + 1]]
        /\ next[At(i + 1)] = IF i + 1 = Len(order) THEN NULL ELSE At(i + 1 + 1)
        /\ At(i + 1) # head
    BY <1>3, <1>t, <2>1 DEF Linked
  <2>3. data'[At(i + 1)] = task[order[i + 1]]
    BY <1>3, <1>4, <1>t, <2>2 DEF TypeOK
  <2>4. i # Len(order') => i + 1 \in DOMAIN order' /\ order'[i + 1] = order[i + 1 + 1]
    BY <1>2, <2>1
  <2> QED
    BY <1>2, <1>4, <2>1, <2>2, <2>3, <2>4
<1>10. Linked'
  BY <1>6, <1>7, <1>8, <1>9, <1>t DEF Linked
<1> QED
  BY <1>1, <1>3, <1>5, <1>10, <1>t DEF IInv

\* The list is dropped, by cancel or with its canceller.
LEMMA InvNewList ==
  ASSUME IInv, NewList, phase' \in {"cancelled", "gone"}, order' = <<>>, free' = <<>>,
         UNCHANGED <<index, task, woken>>
  PROVE  IInv'
<1>1. /\ len' = 0 /\ prev' = <<>> /\ next' = <<>> /\ data' = <<>>
      /\ head' = NULL /\ tail' = NULL /\ vacancy' = NULL
  BY DEF NewList, NoNodes
<1>2. TypeOK'
  BY <1>1 DEF IInv, TypeOK, Nodes
<1>3. Linked'
  BY <1>1 DEF Linked
<1> QED
  BY <1>2, <1>3 DEF IInv

\* cancel ends when it has woken everybody.
LEMMA WalkEnds ==
  ASSUME IInv, CancelReturns
  PROVE  order = <<>>
<1> SUFFICES ASSUME order # <<>> PROVE FALSE
  OBVIOUS
<1>1. 1 \in DOMAIN order /\ head = At(1)
  BY EmptySeq DEF IInv, TypeOK, Linked
<1>2. head # NULL /\ Occupied(head)
  BY <1>1, NodesInUse, NullAssumption DEF Occupied
<1> QED
  BY <1>2 DEF CancelReturns

-----------------------------------------------------------------------------
(* The theorems.                                                           *)

LEMMA InvInit ==
  ASSUME Init
  PROVE  IInv
<1>1. TypeOK
  BY DEF Init, TypeOK, Nodes
<1>2. Linked /\ Vacated /\ Complete
  BY DEF Init, Linked, Vacated, Complete, Nodes
<1> QED
  BY <1>1, <1>2 DEF Init, IInv

LEMMA InvStep ==
  ASSUME IInv, [Next]_vars
  PROVE  IInv'
<1>1. CASE UNCHANGED vars
  BY <1>1 DEF vars, listVars, nodeVars, IInv, TypeOK, Linked, Vacated, Complete, Nodes, At
<1>2. CASE Cancel
  BY <1>2 DEF Cancel, listVars, nodeVars, IInv, TypeOK, Linked, Nodes, At
<1>3. CASE Wake
  BY <1>3, InvWake
<1>4. CASE CancelReturns
  BY <1>4, WalkEnds, InvNewList DEF CancelReturns
<1>5. CASE CancellerDropped
  BY <1>5, InvNewList DEF CancellerDropped
<1>6. ASSUME NEW w \in Waiters, DropWaiter(w)
      PROVE  IInv'
  BY <1>6, InvLeave, InvLeaveLate
<1>7. ASSUME NEW w \in Waiters, NEW t \in Tasks, FirstPoll(w, t) \/ PollAgain(w, t)
      PROVE  IInv'
  BY <1>7, InvFirstPoll, InvPollAgain
<1> QED
  BY <1>1, <1>2, <1>3, <1>4, <1>5, <1>6, <1>7 DEF Next, Waking, Over

\* The list is well linked, the vacant nodes are a stack, and nothing is lost.
THEOREM InvariantCorrect == Spec => []IInv
<1> QED
  BY InvInit, InvStep, PTL DEF Spec

\* The variables have their types: an index of the list is in bounds.
THEOREM TypeCorrect == Spec => []TypeOK
<1>1. IInv => TypeOK
  BY DEF IInv
<1> QED
  BY <1>1, InvariantCorrect, PTL

\* The waker of its last poll is at the index of a waiter, and at no other's.
THEOREM EntriesAreOwned == Spec => []EntriesOwned
<1>1. ASSUME IInv, phase = "open", NEW w \in Waiters, index[w] # NULL
      PROVE  /\ Occupied(index[w])
             /\ data[index[w]] = task[w]
             /\ \A v \in Waiters : index[v] = index[w] => v = w
  <2>1. PICK i \in DOMAIN order : order[i] = w
    BY <1>1 DEF IInv, Complete
  <2>2. Occupied(index[w]) /\ data[index[w]] = task[w]
    BY <1>1, <2>1, NodesInUse DEF IInv, Linked, At, Occupied
  <2>3. ASSUME NEW v \in Waiters, index[v] = index[w] PROVE v = w
    <3>1. PICK j \in DOMAIN order : order[j] = v
      BY <1>1, <2>3 DEF IInv, Complete
    <3>2. At(j) = At(i)
      BY <2>1, <2>3, <3>1 DEF At
    <3> QED
      BY <1>1, <2>1, <3>1, <3>2 DEF IInv, Linked
  <2> QED
    BY <2>2, <2>3
<1>2. IInv => EntriesOwned
  BY <1>1 DEF EntriesOwned
<1> QED
  BY <1>2, InvariantCorrect, PTL

\* The vector grows only when every node of it is in use.
THEOREM MemoryIsReused == Spec => VacanciesReused
<1>1. ASSUME IInv, [Next]_vars, len' > len, NEW n \in Nodes
      PROVE  Occupied(n)
  <2>0. len \in Nat
    BY <1>1 DEF IInv, TypeOK
  <2>1. PICK w \in Waiters, t \in Tasks : FirstPoll(w, t)
    <3>1. CASE CancelReturns \/ CancellerDropped
      BY <1>1, <2>0, <3>1 DEF CancelReturns, CancellerDropped, NewList, NoNodes
    <3>2. CASE Cancel \/ Wake \/ Over \/ UNCHANGED vars
      BY <1>1, <2>0, <3>2 DEF Cancel, Wake, Over, vars, listVars, nodeVars
    <3>3. ASSUME NEW v \in Waiters, DropWaiter(v) PROVE FALSE
      BY <1>1, <2>0, <3>3 DEF DropWaiter, RemoveEntry, Unlink, listVars, nodeVars
    <3>4. ASSUME NEW v \in Waiters, NEW u \in Tasks, PollAgain(v, u) PROVE FALSE
      BY <1>1, <2>0, <3>4 DEF PollAgain
    <3> QED
      BY <1>1, <3>1, <3>2, <3>3, <3>4 DEF Next, Waking
  <2>2. vacancy = NULL /\ phase = "open"
    BY <1>1, <2>0, <2>1 DEF FirstPoll, PushBack
  <2>3. free = <<>>
    BY <1>1, <2>2, NullAssumption DEF IInv, Vacated, TypeOK, Nodes
  <2>4. PICK i \in DOMAIN order : At(i) = n
    BY <1>1, <2>2, <2>3 DEF IInv, Complete
  <2> QED
    BY <1>1, <2>4, NodesInUse DEF Occupied
<1>2. IInv /\ [Next]_vars => [len' > len => \A i \in Nodes : Occupied(i)]_vars
  BY <1>1
<1> QED
  BY <1>2, InvariantCorrect, PTL DEF Spec, VacanciesReused

\* Every operation on the list is one on the queue it stands for.
LEMMA QueueStep ==
  ASSUME IInv, IInv', [Next]_vars
  PROVE  [Queue!Next]_(Queue!qvars)
<1> USE DEF Queue!qvars
<1>1. CASE UNCHANGED vars
  BY <1>1 DEF vars
<1>2. CASE Cancel
  BY <1>2 DEF Cancel, Queue!Cancel, Queue!Next
<1>3. CASE Wake
  <2>1. order # <<>> /\ data[head] = task[order[1]]
    BY <1>3, InvWake
  <2>2. Head(order) = order[1]
    BY <2>1 DEF IInv, TypeOK
  <2> QED
    BY <1>3, <2>1, <2>2 DEF Wake, Queue!Wake, Queue!Next
<1>4. CASE CancelReturns
  BY <1>4 DEF CancelReturns
<1>5. CASE CancellerDropped
  BY <1>5 DEF CancellerDropped, Queue!Gone, Queue!Next
<1>6. ASSUME NEW w \in Waiters, DropWaiter(w)
      PROVE  [Queue!Next]_(Queue!qvars)
  <2>1. CASE phase = "open"
    BY <1>6, <2>1 DEF DropWaiter, Queue!Leave, Queue!Next, Queue!RemoveAt, RemoveAt
  <2>2. CASE phase # "open"
    BY <1>6, <2>2, InvLeaveLate
  <2> QED
    BY <2>1, <2>2
<1>7. ASSUME NEW w \in Waiters, NEW t \in Tasks, FirstPoll(w, t)
      PROVE  Queue!Poll(w, t)
  <2>1. w \notin ToSet(order)
    BY <1>7, NodesInUse DEF FirstPoll, ToSet
  <2> QED
    BY <1>7, <2>1 DEF FirstPoll, Queue!Poll, Queue!Waiting, Queue!ToSet, ToSet
<1>8. ASSUME NEW w \in Waiters, NEW t \in Tasks, PollAgain(w, t)
      PROVE  Queue!Poll(w, t)
  <2>1. w \in ToSet(order)
    BY <1>8 DEF PollAgain, IInv, Complete, ToSet
  <2> QED
    BY <1>8, <2>1 DEF PollAgain, Queue!Poll, Queue!Waiting, Queue!ToSet, ToSet
<1>9. CASE Over
  BY <1>1, <1>9 DEF Over
<1> QED
  BY <1>1, <1>2, <1>3, <1>4, <1>5, <1>6, <1>7, <1>8, <1>9 DEF Next, Waking, Queue!Next

\* Whatever nodes are used again, the list is a queue: first come, first
\* woken, each by the waker of its last poll.
THEOREM WaitersRefineQueue == Spec => ImplementsQueue
<1>1. Init => Queue!Init
  BY DEF Init, Queue!Init
<1>2. IInv /\ IInv' /\ [Next]_vars => [Queue!Next]_(Queue!qvars)
  BY QueueStep
<1> QED
  BY <1>1, <1>2, InvariantCorrect, PTL DEF Spec, ImplementsQueue, Queue!Spec
==============================================================================
