--------------------------- MODULE SpinQueueProofs ---------------------------
(***************************************************************************)
(* Proofs about SpinQueue for every set of threads, blocks and limits: its *)
(* inductive invariant, and that it implements the atomic queue IQQueue.   *)
(***************************************************************************)
EXTENDS SpinQueue, TLAPS

(* The inductive invariant.  MutualExclusion is what keeps what a thread   *)
(* saw in the deque true until it acts on it: Capacity and PopTakesHead    *)
(* are not inductive without it, and the types are not without InCall.     *)
Typed == TypeOK /\ InCall
View == PopTakesHead /\ Capacity
IInv == Typed /\ MutualExclusion /\ View

USE DEF Goto, Decide, Critical, PC

(* Every step of SpinQueue preserves the types of its variables, and the   *)
(* link between a thread's place and the call it is in.                    *)
LEMMA TypeStep ==
  IInv /\ [Next]_vars => Typed'
<1> SUFFICES ASSUME IInv, [Next]_vars PROVE Typed'
  OBVIOUS
<1> USE LimitAssumption DEF IInv, View, PopTakesHead, Typed, TypeOK,
                           InCall, Call, IQ!Call, IQ!NoCall,
                           IQ!Result, IQ!Answer, IQ!Done, IQ!Failed
<1>1. ASSUME NEW t \in Thread, NEW c \in Call, Invoke(t, c) PROVE Typed'
  BY <1>1 DEF Invoke
<1>2. ASSUME NEW t \in Thread, TestAndSet(t) PROVE Typed'
  BY <1>2 DEF TestAndSet
<1>3. ASSUME NEW t \in Thread, PushFull(t) PROVE Typed'
  BY <1>3 DEF PushFull
<1>4. ASSUME NEW t \in Thread, PushRoom(t) PROVE Typed'
  BY <1>4 DEF PushRoom
<1>5. ASSUME NEW t \in Thread, PushBack(t) PROVE Typed'
  BY <1>5 DEF PushBack
<1>6. ASSUME NEW t \in Thread, PopEmpty(t) PROVE Typed'
  BY <1>6 DEF PopEmpty
<1>7. ASSUME NEW t \in Thread, PopFront(t) PROVE Typed'
  BY <1>7 DEF PopFront
<1>8. ASSUME NEW t \in Thread, PopDrop(t) PROVE Typed'
  BY <1>8 DEF PopDrop
<1>9. ASSUME NEW t \in Thread, Flush(t) PROVE Typed'
  BY <1>9 DEF Flush
<1>10. ASSUME NEW t \in Thread, Size(t) PROVE Typed'
  BY <1>10 DEF Size
<1>11. ASSUME NEW t \in Thread, SetMaxItems(t) PROVE Typed'
  BY <1>11 DEF SetMaxItems
<1>12. ASSUME NEW t \in Thread, Unlock(t) PROVE Typed'
  BY <1>12 DEF Unlock
<1>13. CASE UNCHANGED vars
  BY <1>13 DEF vars
<1>14. QED
  BY <1>1, <1>2, <1>3, <1>4, <1>5, <1>6, <1>7, <1>8, <1>9, <1>10, <1>11,
     <1>12, <1>13 DEF Next, Body

(* At most one thread is between lock() and unlock(), and the flag says    *)
(* whether there is one.                                                   *)
LEMMA MutexStep ==
  TypeOK /\ MutualExclusion /\ [Next]_vars => MutualExclusion'
<1> SUFFICES ASSUME TypeOK, MutualExclusion, [Next]_vars
             PROVE MutualExclusion'
  OBVIOUS
<1> USE DEF TypeOK, MutualExclusion, Inside
<1>1. ASSUME NEW t \in Thread, NEW c \in Call, Invoke(t, c) PROVE MutualExclusion'
  BY <1>1 DEF Invoke
<1>2. ASSUME NEW t \in Thread, TestAndSet(t) PROVE MutualExclusion'
  BY <1>2 DEF TestAndSet
<1>3. ASSUME NEW t \in Thread, PushFull(t) PROVE MutualExclusion'
  BY <1>3 DEF PushFull
<1>4. ASSUME NEW t \in Thread, PushRoom(t) PROVE MutualExclusion'
  BY <1>4 DEF PushRoom
<1>5. ASSUME NEW t \in Thread, PushBack(t) PROVE MutualExclusion'
  BY <1>5 DEF PushBack
<1>6. ASSUME NEW t \in Thread, PopEmpty(t) PROVE MutualExclusion'
  BY <1>6 DEF PopEmpty
<1>7. ASSUME NEW t \in Thread, PopFront(t) PROVE MutualExclusion'
  BY <1>7 DEF PopFront
<1>8. ASSUME NEW t \in Thread, PopDrop(t) PROVE MutualExclusion'
  BY <1>8 DEF PopDrop
<1>9. ASSUME NEW t \in Thread, Flush(t) PROVE MutualExclusion'
  BY <1>9 DEF Flush
<1>10. ASSUME NEW t \in Thread, Size(t) PROVE MutualExclusion'
  BY <1>10 DEF Size
<1>11. ASSUME NEW t \in Thread, SetMaxItems(t) PROVE MutualExclusion'
  BY <1>11 DEF SetMaxItems
<1>12. ASSUME NEW t \in Thread, Unlock(t) PROVE MutualExclusion'
  BY <1>12 DEF Unlock
<1>13. CASE UNCHANGED vars
  BY <1>13 DEF vars
<1>14. QED
  BY <1>1, <1>2, <1>3, <1>4, <1>5, <1>6, <1>7, <1>8, <1>9, <1>10, <1>11,
     <1>12, <1>13 DEF Next, Body

(* What the thread that holds the mutex has seen of the deque stays true.  *)
LEMMA ViewStep ==
  IInv /\ [Next]_vars => View'
<1> SUFFICES ASSUME IInv, [Next]_vars PROVE View'
  OBVIOUS
<1> USE LimitAssumption DEF IInv, View, Typed, TypeOK, MutualExclusion,
                           Inside, InCall, PopTakesHead, Capacity, Call, IQ!Call
<1>1. ASSUME NEW t \in Thread, NEW c \in Call, Invoke(t, c) PROVE View'
  BY <1>1 DEF Invoke
<1>2. ASSUME NEW t \in Thread, TestAndSet(t) PROVE View'
  BY <1>2 DEF TestAndSet
<1>3. ASSUME NEW t \in Thread, PushFull(t) PROVE View'
  BY <1>3 DEF PushFull
<1>4. ASSUME NEW t \in Thread, PushRoom(t) PROVE View'
  BY <1>4 DEF PushRoom
<1>5. ASSUME NEW t \in Thread, PushBack(t) PROVE View'
  BY <1>5 DEF PushBack
<1>6. ASSUME NEW t \in Thread, PopEmpty(t) PROVE View'
  BY <1>6 DEF PopEmpty
<1>7. ASSUME NEW t \in Thread, PopFront(t) PROVE View'
  BY <1>7 DEF PopFront
<1>8. ASSUME NEW t \in Thread, PopDrop(t) PROVE View'
  BY <1>8 DEF PopDrop
<1>9. ASSUME NEW t \in Thread, Flush(t) PROVE View'
  BY <1>9 DEF Flush
<1>10. ASSUME NEW t \in Thread, Size(t) PROVE View'
  BY <1>10 DEF Size
<1>11. ASSUME NEW t \in Thread, SetMaxItems(t) PROVE View'
  <2>1. call[t] \in [op : {"set_max_items"}, n : Limit]
    BY <1>11 DEF SetMaxItems
  <2>2. m_max_items' \in Nat /\ m_max_items' >= m_max_items
    <3>1. call[t].n \in Nat /\ m_max_items \in Nat
      BY <2>1
    <3>2. m_max_items' = IF call[t].n > m_max_items THEN call[t].n
                                                    ELSE m_max_items
      BY <1>11 DEF SetMaxItems
    <3>3. QED
      BY ONLY <3>1, <3>2, SMT
  <2>3. iq_queue' = iq_queue /\ item' = item /\ pc'[t] = "unlock"
        /\ \A s \in Thread : s # t => pc'[s] = pc[s]
    BY <1>11 DEF SetMaxItems
  <2>4. QED
    BY <2>2, <2>3
<1>12. ASSUME NEW t \in Thread, Unlock(t) PROVE View'
  BY <1>12 DEF Unlock
<1>13. CASE UNCHANGED vars
  BY <1>13 DEF vars
<1>14. QED
  BY <1>1, <1>2, <1>3, <1>4, <1>5, <1>6, <1>7, <1>8, <1>9, <1>10, <1>11,
     <1>12, <1>13 DEF Next, Body

(* IInv holds in every reachable state of the queue.                       *)
THEOREM Invariance == SafeSpec => []IInv
<1>1. Init => IInv
  <2> SUFFICES ASSUME Init PROVE IInv
    OBVIOUS
  <2> USE DEF Init
  <2>1. TypeOK
    <3>1. IQ!Done \in IQ!Result
      BY DEF IQ!Result, IQ!Answer, IQ!Done
    <3>2. iq_queue \in Seq(Block) /\ m_max_items \in Nat
      BY DEF IQ!DefaultMaxItems
    <3>3. QED
      BY <3>1, <3>2 DEF TypeOK, PC
  <2>2. InCall /\ MutualExclusion /\ PopTakesHead
    BY DEF InCall, MutualExclusion, Inside, PopTakesHead
  <2>3. Capacity
    BY DEF Capacity, IQ!DefaultMaxItems
  <2>4. QED
    BY <2>1, <2>2, <2>3 DEF IInv, Typed, View
<1>2. IInv /\ [Next]_vars => IInv'
  BY TypeStep, MutexStep, ViewStep DEF IInv, Typed
<1>3. QED
  BY <1>1, <1>2, PTL DEF SafeSpec

(* Types, and the program counters of the threads: for any threads, blocks *)
(* and limits of the queue.                                                *)
THEOREM TypeCorrect == Spec => []TypeOK
<1>1. IInv => TypeOK
  BY DEF IInv, Typed
<1>2. QED
  BY <1>1, Invariance, PTL DEF Spec

(* At most one thread is between lock() and unlock(), whatever the         *)
(* operations of the others do meanwhile.                                  *)
THEOREM Exclusion == Spec => []MutualExclusion
<1>1. IInv => MutualExclusion
  BY DEF IInv
<1>2. QED
  BY <1>1, Invariance, PTL DEF Spec

(* What pop_front() removes is the block that pop() read in the statement  *)
(* before, whatever the other threads push, pop and flush.                 *)
THEOREM PopRemovesItsBlock == Spec => []PopTakesHead
<1>1. IInv => PopTakesHead
  BY DEF IInv, View
<1>2. QED
  BY <1>1, Invariance, PTL DEF Spec

(* No sequence of pushes outgrows the limit in force.                      *)
THEOREM Bounded == Spec => []Capacity
<1>1. IInv => Capacity
  BY DEF IInv, Typed, View
<1>2. QED
  BY <1>1, Invariance, PTL DEF Spec

(* Refinement.  A thread with the mutex does one step of IQQueue, when its *)
(* operation is decided; all its other steps inside the queue are stutters *)
(* of the atomic queue.                                                    *)
LEMMA StepSimulation == IInv /\ [Next]_vars => [IQ!Next]_(IQ!vars)
<1> SUFFICES ASSUME IInv, [Next]_vars PROVE [IQ!Next]_(IQ!vars)
  OBVIOUS
<1> USE DEF IInv, Typed, TypeOK, InCall, Status, IQ!vars
<1>1. ASSUME NEW t \in Thread, NEW c \in Call, Invoke(t, c)
      PROVE IQ!Invoke(t, c)
  BY <1>1 DEF Invoke, IQ!Invoke
<1>2. ASSUME NEW t \in Thread, TestAndSet(t) PROVE UNCHANGED IQ!vars
  BY <1>2 DEF TestAndSet
<1>3. ASSUME NEW t \in Thread, PushFull(t) PROVE IQ!PushRefused(t)
  BY <1>3 DEF PushFull, IQ!PushRefused, IQ!Called, IQ!TakesEffect
<1>4. ASSUME NEW t \in Thread, PushRoom(t) PROVE UNCHANGED IQ!vars
  BY <1>4 DEF PushRoom
<1>5. ASSUME NEW t \in Thread, PushBack(t) PROVE IQ!Push(t)
  BY <1>5 DEF PushBack, IQ!Push, IQ!Called, IQ!TakesEffect, View, Capacity
<1>6. ASSUME NEW t \in Thread, PopEmpty(t) PROVE IQ!PopRefused(t)
  BY <1>6 DEF PopEmpty, IQ!PopRefused, IQ!Called, IQ!TakesEffect
<1>7. ASSUME NEW t \in Thread, PopFront(t) PROVE UNCHANGED IQ!vars
  BY <1>7 DEF PopFront
<1>8. ASSUME NEW t \in Thread, PopDrop(t) PROVE IQ!Pop(t)
  BY <1>8 DEF PopDrop, IQ!Pop, IQ!Called, IQ!TakesEffect, View, PopTakesHead
<1>9. ASSUME NEW t \in Thread, Flush(t) PROVE IQ!Flush(t)
  BY <1>9 DEF Flush, IQ!Flush, IQ!Called, IQ!TakesEffect
<1>10. ASSUME NEW t \in Thread, Size(t) PROVE IQ!Size(t)
  BY <1>10 DEF Size, IQ!Size, IQ!Called, IQ!TakesEffect
<1>11. ASSUME NEW t \in Thread, SetMaxItems(t) PROVE IQ!SetMaxItems(t)
  BY <1>11 DEF SetMaxItems, IQ!SetMaxItems, IQ!Called, IQ!TakesEffect
<1>12. ASSUME NEW t \in Thread, Unlock(t) PROVE IQ!Return(t)
  BY <1>12 DEF Unlock, IQ!Return
<1>13. CASE UNCHANGED vars
  BY <1>13 DEF vars
<1>14. QED
  BY <1>1, <1>2, <1>3, <1>4, <1>5, <1>6, <1>7, <1>8, <1>9, <1>10, <1>11,
     <1>12, <1>13 DEF Next, Body, IQ!Next, Call

(* The spin-locked deque implements the atomic bounded queue, with the     *)
(* same answers to the same calls, for any number of threads.              *)
THEOREM Refinement == SafeSpec => Linearizable
<1>1. Init => IQ!Init
  BY DEF Init, IQ!Init, Status, IQ!DefaultMaxItems
<1>2. QED
  BY <1>1, StepSimulation, Invariance, PTL
     DEF SafeSpec, Linearizable, IQ!Spec
=============================================================================
