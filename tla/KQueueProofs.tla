---------------------------- MODULE KQueueProofs ----------------------------
(***************************************************************************)
(* Proofs about KQueue, for any number of producers, consumers and items.  *)
(***************************************************************************)
EXTENDS KQueue, TLAPS, FiniteSetTheorems, SequenceTheorems

ProducerPcs == {"idle", "push", "unlock", "notify"}
ConsumerPcs == {"idle", "test", "wait", "waiting", "woken", "pop"}
Holding == {"push", "unlock", "test", "wait", "pop"}

\* Where each kind of thread can stand.
PcsInv ==
  /\ \A p \in Producers : pc[p] \in ProducerPcs
  /\ \A c \in Consumers : pc[c] \in ConsumerPcs

\* The mutex is held exactly between lock and unlock.
LockInv == \A t \in Threads : pc[t] \in Holding <=> lock = {t}

\* What a consumer found out about the queue stays true while it has the mutex.
SeenInv ==
  \A c \in Consumers :
    /\ pc[c] = "pop" => work # <<>>
    /\ pc[c] = "wait" => work = <<>>

Inv == TypeOK /\ PcsInv /\ LockInv /\ SeenInv

(***************************************************************************)
(* Sequences.                                                              *)
(***************************************************************************)
LEMMA AppendConcat ==
  ASSUME NEW s \in Seq(Nat), NEW u \in Seq(Nat), NEW x \in Nat
  PROVE  s \o Append(u, x) = Append(s \o u, x)
OBVIOUS

\* With an item more a queue is still one, and not empty.
LEMMA AppendOne ==
  ASSUME NEW s \in Seq(Nat), NEW x \in Nat
  PROVE  Append(s, x) \in Seq(Nat) /\ Append(s, x) # <<>>
BY AppendProperties

\* Popping an item moves it from the queue to what was got.
LEMMA ShiftHead ==
  ASSUME NEW s \in Seq(Nat), NEW u \in Seq(Nat), u # <<>>
  PROVE  /\ Head(u) \in Nat /\ Tail(u) \in Seq(Nat)
         /\ Append(s, Head(u)) \o Tail(u) = s \o u
OBVIOUS

(***************************************************************************)
(* The invariant.                                                          *)
(***************************************************************************)
LEMMA InvInit == Init => Inv
BY ThreadsAssumption DEF Init, Inv, TypeOK, PcsInv, LockInv, SeenInv, Threads,
     ProducerPcs, ConsumerPcs, Holding

\* Inv survives the steps of push_work.
LEMMA PushStep ==
  ASSUME Inv, NEW p \in Producers, push_work(p)
  PROVE  Inv'
<1> USE ThreadsAssumption DEF Inv, TypeOK, PcsInv, LockInv, SeenInv, Threads,
          ProducerPcs, ConsumerPcs, Holding, Goto
<1>1. CASE LockToPush(p)
  BY <1>1 DEF LockToPush, Acquire
<1>2. CASE Push(p)
  <2>0. Len(sent) + 1 \in Nat
    OBVIOUS
  <2>1. /\ work' \in Seq(Nat) /\ work' # <<>>
        /\ sent' \in Seq(Nat) /\ got' \in Seq(Nat) /\ lock' = lock
    BY <1>2, <2>0, AppendOne DEF Push
  <2>2. /\ pc[p] = "push" /\ pc' = [pc EXCEPT ![p] = "unlock"]
        /\ wasEmpty' \in [Producers -> BOOLEAN]
    BY <1>2 DEF Push
  <2>3. TypeOK' /\ PcsInv' /\ LockInv'
    BY <2>1, <2>2
  <2>4. \A c \in Consumers : pc'[c] = pc[c] /\ pc[c] # "wait"
    BY <2>2
  <2> QED
    BY <2>1, <2>3, <2>4
<1>3. CASE Unlock(p)
  BY <1>3 DEF Unlock, Release
<1>4. CASE NotifyOne(p)
  BY <1>4 DEF NotifyOne, Waiting
<1> QED
  BY <1>1, <1>2, <1>3, <1>4 DEF push_work

\* Inv survives the steps of wait_and_pop.
LEMMA PopStep ==
  ASSUME Inv, NEW c \in Consumers, wait_and_pop(c) \/ WakeSpuriously(c)
  PROVE  Inv'
<1> USE ThreadsAssumption DEF Inv, TypeOK, PcsInv, LockInv, SeenInv, Threads,
          ProducerPcs, ConsumerPcs, Holding, Goto
<1>1. CASE LockToPop(c)
  BY <1>1 DEF LockToPop, Acquire
<1>2. CASE Test(c)
  BY <1>2 DEF Test
<1>3. CASE Wait(c)
  BY <1>3 DEF Wait, Release
<1>4. CASE LockAgain(c)
  BY <1>4 DEF LockAgain, Acquire
<1>5. CASE Pop(c)
  <2>1. work # <<>> /\ pc[c] = "pop" /\ pc' = [pc EXCEPT ![c] = "idle"] /\ lock' = lock \ {c}
    BY <1>5 DEF Pop, Release
  <2>2. work' \in Seq(Nat) /\ sent' \in Seq(Nat)
    BY <1>5, <2>1, ShiftHead DEF Pop
  <2>3. got' \in Seq(Nat)
    BY <1>5, <2>1, ShiftHead, AppendOne DEF Pop
  <2>4. TypeOK' /\ PcsInv' /\ LockInv'
    BY <1>5, <2>1, <2>2, <2>3 DEF Pop
  <2>5. \A d \in Consumers : pc'[d] \notin {"pop", "wait"}
    <3>1. lock = {c}
      BY <2>1
    <3>2. \A d \in Consumers : d # c => pc[d] \notin {"pop", "wait"}
      <4>1. \A d \in Consumers : d # c => lock # {d}
        BY <3>1
      <4> QED
        BY <4>1
    <3> QED
      BY <2>1, <3>2
  <2> QED
    BY <2>4, <2>5
<1>6. CASE WakeSpuriously(c)
  BY <1>6 DEF WakeSpuriously
<1> QED
  BY <1>1, <1>2, <1>3, <1>4, <1>5, <1>6 DEF wait_and_pop

\* Inv survives a step that changes nothing.
LEMMA InvStutter ==
  ASSUME Inv, UNCHANGED vars
  PROVE  Inv'
BY DEF Inv, TypeOK, PcsInv, LockInv, SeenInv, vars

\* Types, and the discipline of the mutex.
THEOREM QueueTypes == Spec => []TypeOK
<1>1. Inv /\ [Next]_vars => Inv'
  BY PushStep, PopStep, InvStutter DEF Next
<1>2. Inv => TypeOK
  BY DEF Inv
<1> QED
  BY InvInit, <1>1, <1>2, PTL DEF Spec

\* Inv is an invariant of the queue.
LEMMA SpecInv == Spec => []Inv
<1>1. Inv /\ [Next]_vars => Inv'
  BY PushStep, PopStep, InvStutter DEF Next
<1> QED
  BY InvInit, <1>1, PTL DEF Spec

(***************************************************************************)
(* First in, first out.                                                    *)
(***************************************************************************)
LEMMA FifoStep ==
  ASSUME Inv, FifoOrder, [Next]_vars
  PROVE  FifoOrder'
<1>1. CASE UNCHANGED <<work, sent, got>>
  BY <1>1 DEF FifoOrder
<1>2. ASSUME NEW p \in Producers, Push(p)
      PROVE  FifoOrder'
  <2>1. /\ Len(sent) + 1 \in Nat
        /\ work \in Seq(Nat) /\ got \in Seq(Nat)
    BY DEF Inv, TypeOK
  <2>2. got' \o work' = Append(got \o work, Len(sent) + 1)
    BY <1>2, <2>1, AppendConcat DEF Push
  <2> QED
    BY <1>2, <2>2 DEF Push, FifoOrder
<1>3. ASSUME NEW c \in Consumers, Pop(c)
      PROVE  FifoOrder'
  <2>1. work # <<>> /\ work \in Seq(Nat) /\ got \in Seq(Nat)
    BY <1>3 DEF Pop, Goto, Inv, TypeOK, SeenInv
  <2>2. got' \o work' = got \o work /\ sent' = sent
    BY <1>3, <2>1, ShiftHead DEF Pop
  <2> QED
    BY <2>2 DEF FifoOrder
<1> QED
  BY <1>1, <1>2, <1>3 DEF Next, push_work, wait_and_pop, LockToPush, Unlock, NotifyOne,
       LockToPop, Test, Wait, LockAgain, WakeSpuriously, vars

\* A consumer never takes from an empty queue, and items come out in order.
THEOREM QueueIsFifo == Spec => []FifoOrder
<1>1. Init => FifoOrder
  BY DEF Init, FifoOrder
<1> QED
  BY <1>1, FifoStep, SpecInv, PTL DEF Spec

(***************************************************************************)
(* One consumer loses no wake-up.                                          *)
(***************************************************************************)
LEMMA OnlyOne ==
  ASSUME Cardinality(Consumers) = 1
  PROVE  \E c \in Consumers : Consumers = {c}
BY ThreadsAssumption, FS_Singleton

\* WakeupPending survives every step while there is one consumer.
LEMMA WakeupStep ==
  ASSUME Inv, WakeupPending, [Next]_vars
  PROVE  WakeupPending'
<1> SUFFICES ASSUME NEW only \in Consumers, Consumers = {only},
                    Waiting' # {}, work' # <<>>
             PROVE  \E p \in Producers : pc'[p] \in {"unlock", "notify"} /\ wasEmpty'[p]
  BY OnlyOne DEF WakeupPending
<1> DEFINE Pending(p) == pc[p] \in {"unlock", "notify"} /\ wasEmpty[p]
<1>0. Cardinality(Consumers) = 1
  BY FS_Singleton
<1>1. Waiting # {} /\ work # <<>> => \E p \in Producers : Pending(p)
  BY <1>0 DEF WakeupPending
<1>2. pc'[only] = "waiting"
  BY DEF Waiting
<1> USE ThreadsAssumption DEF Inv, TypeOK, PcsInv, LockInv, SeenInv, Threads,
          ProducerPcs, ConsumerPcs, Holding, Goto
<1>3. ASSUME NEW p \in Producers, LockToPush(p)
      PROVE  \E q \in Producers : Pending(q)'
  BY <1>3, <1>1, <1>2 DEF LockToPush, Waiting
<1>4. ASSUME NEW p \in Producers, Push(p)
      PROVE  \E q \in Producers : Pending(q)'
  <2>1. CASE work = <<>>
    BY <1>4, <2>1 DEF Push
  <2>2. CASE work # <<>>
    BY <1>4, <2>2, <1>1, <1>2 DEF Push, Waiting
  <2> QED
    BY <2>1, <2>2
<1>5. ASSUME NEW p \in Producers, Unlock(p)
      PROVE  \E q \in Producers : Pending(q)'
  BY <1>5, <1>1, <1>2 DEF Unlock, Waiting
<1>6. ASSUME NEW p \in Producers, NotifyOne(p)
      PROVE  \E q \in Producers : Pending(q)'
  BY <1>6, <1>2 DEF NotifyOne, Waiting
<1>7. ASSUME NEW c \in Consumers, wait_and_pop(c) \/ WakeSpuriously(c)
      PROVE  \E q \in Producers : Pending(q)'
  BY <1>7, <1>2 DEF wait_and_pop, LockToPop, Test, Wait, LockAgain, Pop, WakeSpuriously
<1>8. CASE UNCHANGED vars
  BY <1>8, <1>1, <1>2 DEF vars, Waiting
<1> QED
  BY <1>3, <1>4, <1>5, <1>6, <1>7, <1>8 DEF Next, push_work

\* The notification push_work leaves out is never the one that was needed, as
\* long as one thread only calls wait_and_pop.
THEOREM NoLostWakeup == Spec => []WakeupPending
<1>1. Init => WakeupPending
  BY DEF Init, WakeupPending
<1> QED
  BY <1>1, WakeupStep, SpecInv, PTL DEF Spec
=============================================================================
