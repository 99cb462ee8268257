------------------------------- MODULE KQueue -------------------------------
(***************************************************************************)
(* kQueue: a queue, its mutex and the condition variable work_available.   *)
(* push_work notifies after it has unlocked, and only when the queue was   *)
(* empty before it; wait_and_pop waits while the queue is empty.           *)
(***************************************************************************)
EXTENDS Naturals, Sequences, FiniteSets

CONSTANTS
  Producers,    \* threads that call push_work
  Consumers,    \* threads that call wait_and_pop, again and again
  MaxPushes     \* bound: calls of push_work in all

ASSUME ThreadsAssumption ==
  /\ Producers \cap Consumers = {}
  /\ IsFiniteSet(Consumers)
  /\ MaxPushes \in Nat

VARIABLES
  work,        \* the queue
  lock,        \* the threads that hold work_mutex
  pc,
  wasEmpty,    \* local of push_work
  sent,        \* history: items in the order they were pushed
  got          \* history: items in the order wait_and_pop took them

vars == <<work, lock, pc, wasEmpty, sent, got>>

Threads == Producers \union Consumers

NoItem == 0    \* what front() of an empty queue yields

Waiting == {c \in Consumers : pc[c] = "waiting"}

Goto(t, from, to) ==
  /\ pc[t] = from
  /\ pc' = [pc EXCEPT ![t] = to]

\* Mutant: a lock guard that does not exclude.
AcquireShared(t) == lock' = lock \union {t}

Acquire(t) == lock = {} /\ lock' = {t}

Release(t) == lock' = lock \ {t}

Init ==
  /\ work = <<>> /\ sent = <<>> /\ got = <<>>
  /\ lock = {}
  /\ pc = [t \in Threads |-> "idle"]
  /\ wasEmpty = [p \in Producers |-> FALSE]

(***************************************************************************)
(* push_work                                                               *)
(***************************************************************************)
LockToPush(p) ==
  /\ Len(sent) < MaxPushes
  /\ Goto(p, "idle", "push")
  /\ Acquire(p)
  /\ UNCHANGED <<work, wasEmpty, sent, got>>

\* Mutant: the queue is looked at after the push.
PushThenTest(p) ==
  /\ Goto(p, "push", "unlock")
  /\ sent' = Append(sent, Len(sent) + 1)
  /\ work' = Append(work, Len(sent) + 1)
  /\ wasEmpty' = [wasEmpty EXCEPT ![p] = (work' = <<>>)]
  /\ UNCHANGED <<lock, got>>

Push(p) ==
  /\ Goto(p, "push", "unlock")
  /\ wasEmpty' = [wasEmpty EXCEPT ![p] = (work = <<>>)]
  /\ sent' = Append(sent, Len(sent) + 1)
  /\ work' = Append(work, Len(sent) + 1)
  /\ UNCHANGED <<lock, got>>

Unlock(p) ==
  /\ Goto(p, "unlock", IF wasEmpty[p] THEN "notify" ELSE "idle")
  /\ Release(p)
  /\ UNCHANGED <<work, wasEmpty, sent, got>>

\* notify_one wakes one waiting thread, if there is any.
NotifyOne(p) ==
  /\ pc[p] = "notify"
  /\ \/ Waiting = {} /\ pc' = [pc EXCEPT ![p] = "idle"]
     \/ \E c \in Waiting : pc' = [pc EXCEPT ![p] = "idle", ![c] = "woken"]
  /\ UNCHANGED <<work, lock, wasEmpty, sent, got>>

push_work(p) == LockToPush(p) \/ Push(p) \/ Unlock(p) \/ NotifyOne(p)

(***************************************************************************)
(* wait_and_pop                                                            *)
(***************************************************************************)
LockToPop(c) ==
  /\ Goto(c, "idle", "test")
  /\ Acquire(c)
  /\ UNCHANGED <<work, wasEmpty, sent, got>>

Test(c) ==
  /\ Goto(c, "test", IF work = <<>> THEN "wait" ELSE "pop")
  /\ UNCHANGED <<work, lock, wasEmpty, sent, got>>

\* wait releases the mutex and blocks in one step.
Wait(c) ==
  /\ Goto(c, "wait", "waiting")
  /\ Release(c)
  /\ UNCHANGED <<work, wasEmpty, sent, got>>

\* A condition variable may wake a thread nobody notified.
WakeSpuriously(c) ==
  /\ Goto(c, "waiting", "woken")
  /\ UNCHANGED <<work, lock, wasEmpty, sent, got>>

\* Mutant: "if" for "while".
LockAndPop(c) ==
  /\ Goto(c, "woken", "pop")
  /\ Acquire(c)
  /\ UNCHANGED <<work, wasEmpty, sent, got>>

LockAgain(c) ==
  /\ Goto(c, "woken", "test")
  /\ Acquire(c)
  /\ UNCHANGED <<work, wasEmpty, sent, got>>

Pop(c) ==
  /\ Goto(c, "pop", "idle")
  /\ got' = Append(got, IF work = <<>> THEN NoItem ELSE Head(work))
  /\ work' = IF work = <<>> THEN work ELSE Tail(work)
  /\ Release(c)
  /\ UNCHANGED <<wasEmpty, sent>>

wait_and_pop(c) == LockToPop(c) \/ Test(c) \/ Wait(c) \/ LockAgain(c) \/ Pop(c)

Next ==
  \/ \E p \in Producers : push_work(p)
  \/ \E c \in Consumers : wait_and_pop(c) \/ WakeSpuriously(c)

Spec == Init /\ [][Next]_vars

\* Threads keep running; nobody may count on a spurious wake-up.
Fairness ==
  /\ \A p \in Producers : WF_vars(push_work(p))
  /\ \A c \in Consumers : WF_vars(wait_and_pop(c))

FairSpec == Spec /\ Fairness

-----------------------------------------------------------------------------
\* Every variable stays in its domain, and one thread at most has the mutex.
TypeOK ==
  /\ work \in Seq(Nat) /\ sent \in Seq(Nat) /\ got \in Seq(Nat)
  /\ lock = {} \/ \E t \in Threads : lock = {t}
  /\ pc \in [Threads -> {"idle", "push", "unlock", "notify",
                         "test", "wait", "waiting", "woken", "pop"}]
  /\ wasEmpty \in [Producers -> BOOLEAN]

\* Items leave in the order they came, each once, and never one that was not
\* pushed, for any number of threads and with spurious wake-ups.
FifoOrder == got \o work = sent

\* push_work wakes nobody when the queue was not empty.  With one consumer that
\* loses no wake-up: while it waits beside a queue with items, a producer that
\* found the queue empty has pushed and is still to notify.
WakeupPending ==
  Cardinality(Consumers) = 1 =>
    (Waiting # {} /\ work # <<>> =>
       \E p \in Producers : pc[p] \in {"unlock", "notify"} /\ wasEmpty[p])

\* With one consumer every item pushed is taken.
EveryItemTaken ==
  Cardinality(Consumers) = 1 =>
    \A n \in 1..MaxPushes : Len(sent) >= n ~> Len(got) >= n
=============================================================================
