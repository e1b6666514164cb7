------------------------------ MODULE SpinQueue ------------------------------
(***************************************************************************)
(* RadioThreadIQDataQueue as it is written (src/phy/RadioThread.h): a      *)
(* std::deque guarded by a SpinMutex, whose lock() is a loop around        *)
(* atomic_flag::test_and_set.  Between two accesses to the deque or the    *)
(* flag another thread may run, so every such access is a step of its own. *)
(*                                                                         *)
(* pc[t] is where thread t stands:                                         *)
(*   "idle"    outside the queue                                           *)
(*   "spin"    in SpinMutex::lock()                                        *)
(*   "body"    holds the mutex, has not looked at the deque yet            *)
(*   "append"  push() saw room, push_back comes next                       *)
(*   "drop"    pop() copied front(), pop_front comes next                  *)
(*   "unlock"  the return value is computed, the guard's destructor is next*)
(***************************************************************************)
EXTENDS Naturals, Sequences, FiniteSets

CONSTANTS Thread,    \* the threads that hold a RadioThreadIQDataQueuePtr
          Block,     \* the shared_ptr values of type RadioThreadIQDataPtr
          Limit,     \* the arguments with which set_max_items is called
          NoBlock    \* the out parameter of a pop that returned false

ASSUME LimitAssumption == Limit \subseteq Nat

VARIABLES iq_queue, m_max_items,
          lock_state,    \* SpinMutex::lock_state, TRUE when set
          pc, call,
          item,          \* item[t]: pop()'s out parameter
          result

vars == <<iq_queue, m_max_items, lock_state, pc, call, item, result>>

(* The refinement mapping: a call has taken effect when the thread is left *)
(* with nothing but the release of the mutex.                              *)
Status(p) == CASE p = "idle"   -> "idle"
               [] p = "unlock" -> "done"
               [] OTHER        -> "called"

IQ == INSTANCE IQQueue WITH status <- [t \in Thread |-> Status(pc[t])]

Call == IQ!Call
PC   == {"idle", "spin", "body", "append", "drop", "unlock"}
Critical == {"body", "append", "drop", "unlock"}

TypeOK == /\ iq_queue \in Seq(Block)
          /\ m_max_items \in Nat
          /\ lock_state \in BOOLEAN
          /\ pc \in [Thread -> PC]
          /\ call \in [Thread -> Call \cup {IQ!NoCall}]
          /\ item \in [Thread -> Block \cup {NoBlock}]
          /\ result \in [Thread -> IQ!Result]

Init == /\ iq_queue = <<>>
        /\ m_max_items = IQ!DefaultMaxItems
        /\ lock_state = FALSE
        /\ pc = [t \in Thread |-> "idle"]
        /\ call = [t \in Thread |-> IQ!NoCall]
        /\ item = [t \in Thread |-> NoBlock]
        /\ result = [t \in Thread |-> IQ!Done]

Goto(t, here, there) ==
  /\ pc[t] = here
  /\ pc' = [pc EXCEPT ![t] = there]

Invoke(t, c) ==
  /\ Goto(t, "idle", "spin")
  /\ call' = [call EXCEPT ![t] = c]
  /\ UNCHANGED <<iq_queue, m_max_items, lock_state, item, result>>

(* Mutant: lock() tests the flag once and goes on, instead of looping.     *)
TestAndSetOnce(t) ==
  /\ Goto(t, "spin", "body")
  /\ lock_state' = TRUE
  /\ UNCHANGED <<iq_queue, m_max_items, call, item, result>>

(* One turn of SpinMutex::lock(): the flag is set whatever it was, and the *)
(* thread goes on only if it was clear.                                    *)
TestAndSet(t) ==
  /\ Goto(t, "spin", IF lock_state THEN "spin" ELSE "body")
  /\ lock_state' = TRUE
  /\ UNCHANGED <<iq_queue, m_max_items, call, item, result>>

(* Thread t's operation is decided: only the release of the mutex is left. *)
Decide(t, r) ==
  /\ result' = [result EXCEPT ![t] = r]
  /\ UNCHANGED <<lock_state, call>>

(* Mutant: the early return of push() reports the lost block as pushed.    *)
PushFullSilent(t) ==
  /\ Goto(t, "body", "unlock")
  /\ call[t].op = "push"
  /\ Len(iq_queue) >= m_max_items
  /\ Decide(t, IQ!Done)
  /\ UNCHANGED <<iq_queue, m_max_items, item>>

(* Mutant: the early return of push() leaves the mutex locked.             *)
PushFullKeepsLock(t) ==
  /\ Goto(t, "body", "idle")
  /\ call[t].op = "push"
  /\ Len(iq_queue) >= m_max_items
  /\ call' = [call EXCEPT ![t] = IQ!NoCall]
  /\ UNCHANGED <<iq_queue, m_max_items, lock_state, item, result>>

PushFull(t) ==
  /\ Goto(t, "body", "unlock")
  /\ call[t].op = "push"
  /\ Len(iq_queue) >= m_max_items
  /\ Decide(t, IQ!Failed)
  /\ UNCHANGED <<iq_queue, m_max_items, item>>

PushRoom(t) ==
  /\ Goto(t, "body", "append")
  /\ call[t].op = "push"
  /\ Len(iq_queue) < m_max_items
  /\ UNCHANGED <<iq_queue, m_max_items, lock_state, call, item, result>>

(* Mutant: push() stores an out parameter nobody has filled.               *)
PushBackItem(t) ==
  /\ Goto(t, "append", "unlock")
  /\ iq_queue' = Append(iq_queue, item[t])
  /\ Decide(t, IQ!Done)
  /\ UNCHANGED <<m_max_items, item>>

PushBack(t) ==
  /\ Goto(t, "append", "unlock")
  /\ iq_queue' = Append(iq_queue, call[t].block)
  /\ Decide(t, IQ!Done)
  /\ UNCHANGED <<m_max_items, item>>

PopEmpty(t) ==
  /\ Goto(t, "body", "unlock")
  /\ call[t].op = "pop"
  /\ iq_queue = <<>>
  /\ Decide(t, IQ!Failed)
  /\ UNCHANGED <<iq_queue, m_max_items, item>>

PopFront(t) ==
  /\ Goto(t, "body", "drop")
  /\ call[t].op = "pop"
  /\ iq_queue # <<>>
  /\ item' = [item EXCEPT ![t] = Head(iq_queue)]
  /\ UNCHANGED <<iq_queue, m_max_items, lock_state, call, result>>

PopDrop(t) ==
  /\ Goto(t, "drop", "unlock")
  /\ iq_queue' = Tail(iq_queue)
  /\ Decide(t, IQ!Answer(TRUE, item[t], 0))
  /\ UNCHANGED <<m_max_items, item>>

(* Mutant: flush() without its lock_guard.                                 *)
FlushUnguarded(t) ==
  /\ Goto(t, "spin", "idle")
  /\ call[t].op = "flush"
  /\ iq_queue' = <<>>
  /\ call' = [call EXCEPT ![t] = IQ!NoCall]
  /\ UNCHANGED <<lock_state, m_max_items, item, result>>

Flush(t) ==
  /\ Goto(t, "body", "unlock")
  /\ call[t].op = "flush"
  /\ iq_queue' = <<>>
  /\ Decide(t, IQ!Done)
  /\ UNCHANGED <<m_max_items, item>>

Size(t) ==
  /\ Goto(t, "body", "unlock")
  /\ call[t].op = "size"
  /\ Decide(t, IQ!Answer(TRUE, NoBlock, Len(iq_queue)))
  /\ UNCHANGED <<iq_queue, m_max_items, item>>

(* Mutant: set_max_items() without the test that lets it only grow.        *)
SetMaxItemsAnyway(t) ==
  /\ Goto(t, "body", "unlock")
  /\ call[t].op = "set_max_items"
  /\ m_max_items' = call[t].n
  /\ Decide(t, IQ!Done)
  /\ UNCHANGED <<iq_queue, item>>

SetMaxItems(t) ==
  /\ Goto(t, "body", "unlock")
  /\ call[t].op = "set_max_items"
  /\ m_max_items' = IF call[t].n > m_max_items THEN call[t].n ELSE m_max_items
  /\ Decide(t, IQ!Done)
  /\ UNCHANGED <<iq_queue, item>>

(* The lock guard is destroyed, the call returns and its frame is gone.    *)
Unlock(t) ==
  /\ Goto(t, "unlock", "idle")
  /\ lock_state' = FALSE
  /\ call' = [call EXCEPT ![t] = IQ!NoCall]
  /\ item' = [item EXCEPT ![t] = NoBlock]
  /\ result' = [result EXCEPT ![t] = IQ!Done]
  /\ UNCHANGED <<iq_queue, m_max_items>>

(* A step of a thread that holds the mutex.                                *)
Body(t) == \/ PushFull(t) \/ PushRoom(t) \/ PushBack(t)
           \/ PopEmpty(t) \/ PopFront(t) \/ PopDrop(t)
           \/ Flush(t) \/ Size(t) \/ SetMaxItems(t)
           \/ Unlock(t)

Next == \E t \in Thread : \/ \E c \in Call : Invoke(t, c)
                          \/ TestAndSet(t)
                          \/ Body(t)

SafeSpec == Init /\ [][Next]_vars

(* The operating system goes on scheduling every thread that is inside the *)
(* queue; no thread is obliged to call it.                                 *)
Fairness == \A t \in Thread : WF_vars(TestAndSet(t)) /\ WF_vars(Body(t))

Spec == SafeSpec /\ Fairness
-----------------------------------------------------------------------------
Inside == {t \in Thread : pc[t] \in Critical}

(* The mutex excludes: never two threads between lock() and unlock(), and  *)
(* the flag is set exactly while there is one (SpinMutex, lines 38 to 42). *)
MutualExclusion == /\ \A s, t \in Inside : s = t
                   /\ lock_state <=> Inside # {}

(* The block that pop() hands out is the one its pop_front then removes,   *)
(* and pop_front never meets an empty deque, whoever flushes in between.   *)
PopTakesHead == \A t \in Thread :
  pc[t] = "drop" => iq_queue # <<>> /\ item[t] = Head(iq_queue)

(* A thread about to append is in a push, one about to drop is in a pop.   *)
InCall == \A t \in Thread : /\ pc[t] # "idle" => call[t] \in Call
                            /\ pc[t] = "append" => call[t].op = "push"
                            /\ pc[t] = "drop" => call[t].op = "pop"

(* The deque never outgrows max_items, and a push that saw room still has  *)
(* it when it appends.                                                     *)
Capacity == /\ Len(iq_queue) <= m_max_items
            /\ \A t \in Thread : pc[t] = "append" => Len(iq_queue) < m_max_items

(* The queue is linearizable: it implements the atomic queue of IQQueue,   *)
(* return values included.                                                 *)
Linearizable == IQ!Spec

(* Threads spinning on the mutex do not block each other for ever: while   *)
(* one waits, calls go on completing.  (That each waiter gets its turn is  *)
(* not promised by a test-and-set lock, and is not claimed.)               *)
CallsComplete == \A t \in Thread :
  pc[t] = "spin" ~> (\E s \in Thread : pc[s] = "unlock")
=============================================================================
