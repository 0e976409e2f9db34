------------------------------ MODULE WaitQueue ------------------------------
(***************************************************************************)
(* What a Canceller promises its waiters: whoever waits is woken, once and *)
(* in the order of their registration, by the task that polled it last;    *)
(* whoever stops waiting is forgotten.                                     *)
(***************************************************************************)
EXTENDS Naturals, Sequences, SequencesExt

CONSTANTS Waiters, Tasks

VARIABLES
  phase,  \* "open", "cancelled" or, without a canceller, "gone"
  queue,  \* the waiters, in the order they came
  waker,  \* the task that polled each waiter last
  woken   \* the tasks woken

qvars == <<phase, queue, waker, woken>>

Waiting == ToSet(queue)

Init ==
  /\ phase = "open"
  /\ queue = <<>>
  /\ waker \in [Waiters -> Tasks]
  /\ woken = {}

Poll(w, t) ==
  /\ phase = "open"
  /\ queue' = IF w \in Waiting THEN queue ELSE Append(queue, w)
  /\ waker' = [waker EXCEPT ![w] = t]
  /\ UNCHANGED <<phase, woken>>

Leave(w) ==
  /\ phase = "open"
  /\ \E i \in DOMAIN queue : queue[i] = w /\ queue' = RemoveAt(queue, i)
  /\ UNCHANGED <<phase, waker, woken>>

Cancel ==
  /\ phase = "open"
  /\ phase' = "cancelled"
  /\ UNCHANGED <<queue, waker, woken>>

Wake ==
  /\ phase = "cancelled"
  /\ queue # <<>>
  /\ queue' = Tail(queue)
  /\ woken' = woken \cup {waker[Head(queue)]}
  /\ UNCHANGED <<phase, waker>>

Gone ==
  /\ phase = "open"
  /\ phase' = "gone"
  /\ queue' = <<>>
  /\ UNCHANGED <<waker, woken>>

Next ==
  \/ Cancel \/ Wake \/ Gone
  \/ \E w \in Waiters : Leave(w) \/ \E t \in Tasks : Poll(w, t)

Spec == Init /\ [][Next]_qvars
==============================================================================
