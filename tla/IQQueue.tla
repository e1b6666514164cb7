------------------------------- MODULE IQQueue -------------------------------
(***************************************************************************)
(* What RadioThreadIQDataQueue promises to the threads that share it       *)
(* (src/phy/RadioThread.h): a bounded first-in first-out queue of blocks   *)
(* of IQ samples whose operations take effect one at a time.  Between the  *)
(* moment a thread calls an operation and the moment the call returns, the *)
(* operation takes effect exactly once, in a single step.                  *)
(*                                                                         *)
(* A push on a full queue is refused: it is the newest block that is lost. *)
(* The detailed SpinQueue is shown to implement this module.               *)
(***************************************************************************)
EXTENDS Naturals, Sequences

CONSTANTS Thread,    \* the threads that hold a RadioThreadIQDataQueuePtr
          Block,     \* the shared_ptr values of type RadioThreadIQDataPtr
          Limit,     \* the arguments with which set_max_items is called
          NoBlock    \* the out parameter of a pop that returned false

VARIABLES iq_queue,     \* the blocks in the queue, the oldest first
          m_max_items,  \* the size at which push() refuses a block
          call,         \* call[t]: the operation thread t called last
          status,       \* status[t]: where thread t is in that call
          result        \* result[t]: what the call gives back once "done"

vars == <<iq_queue, m_max_items, call, status, result>>

(* The calls of the public interface, with their argument.                 *)
Call == [op : {"push"}, block : Block]
        \cup [op : {"pop", "flush", "size"}]
        \cup [op : {"set_max_items"}, n : Limit]

(* What a call gives back: the Boolean, the block popped, and the size.    *)
Result == [ok : BOOLEAN, block : Block \cup {NoBlock}, n : Nat]

(* The frame of a call that has not been made, or has returned.             *)
NoCall == [op |-> "none"]

Answer(ok, b, n) == [ok |-> ok, block |-> b, n |-> n]
Done   == Answer(TRUE,  NoBlock, 0)
Failed == Answer(FALSE, NoBlock, 0)

DefaultMaxItems == 1

TypeOK == /\ iq_queue \in Seq(Block)
          /\ m_max_items \in Nat
          /\ call \in [Thread -> Call \cup {NoCall}]
          /\ status \in [Thread -> {"idle", "called", "done"}]
          /\ result \in [Thread -> Result]

Init == /\ iq_queue = <<>>
        /\ m_max_items = DefaultMaxItems
        /\ call = [t \in Thread |-> NoCall]
        /\ status = [t \in Thread |-> "idle"]
        /\ result = [t \in Thread |-> Done]

Invoke(t, c) ==
  /\ status[t] = "idle"
  /\ status' = [status EXCEPT ![t] = "called"]
  /\ call' = [call EXCEPT ![t] = c]
  /\ UNCHANGED <<iq_queue, m_max_items, result>>

Called(t, op) == status[t] = "called" /\ call[t].op = op

(* Thread t's call takes effect, and its answer is r.                      *)
TakesEffect(t, r) ==
  /\ status' = [status EXCEPT ![t] = "done"]
  /\ result' = [result EXCEPT ![t] = r]
  /\ UNCHANGED call

Push(t) ==
  /\ Called(t, "push")
  /\ Len(iq_queue) < m_max_items
  /\ iq_queue' = Append(iq_queue, call[t].block)
  /\ TakesEffect(t, Done)
  /\ UNCHANGED m_max_items

PushRefused(t) ==
  /\ Called(t, "push")
  /\ Len(iq_queue) >= m_max_items
  /\ TakesEffect(t, Failed)
  /\ UNCHANGED <<iq_queue, m_max_items>>

Pop(t) ==
  /\ Called(t, "pop")
  /\ iq_queue # <<>>
  /\ iq_queue' = Tail(iq_queue)
  /\ TakesEffect(t, Answer(TRUE, Head(iq_queue), 0))
  /\ UNCHANGED m_max_items

PopRefused(t) ==
  /\ Called(t, "pop")
  /\ iq_queue = <<>>
  /\ TakesEffect(t, Failed)
  /\ UNCHANGED <<iq_queue, m_max_items>>

Flush(t) ==
  /\ Called(t, "flush")
  /\ iq_queue' = <<>>
  /\ TakesEffect(t, Done)
  /\ UNCHANGED m_max_items

Size(t) ==
  /\ Called(t, "size")
  /\ TakesEffect(t, Answer(TRUE, NoBlock, Len(iq_queue)))
  /\ UNCHANGED <<iq_queue, m_max_items>>

SetMaxItems(t) ==
  /\ Called(t, "set_max_items")
  /\ m_max_items' = IF call[t].n > m_max_items THEN call[t].n ELSE m_max_items
  /\ TakesEffect(t, Done)
  /\ UNCHANGED iq_queue

Return(t) ==
  /\ status[t] = "done"
  /\ status' = [status EXCEPT ![t] = "idle"]
  /\ call' = [call EXCEPT ![t] = NoCall]
  /\ result' = [result EXCEPT ![t] = Done]
  /\ UNCHANGED <<iq_queue, m_max_items>>

Next == \E t \in Thread :
          \/ \E c \in Call : Invoke(t, c)
          \/ Push(t) \/ PushRefused(t)
          \/ Pop(t) \/ PopRefused(t)
          \/ Flush(t) \/ Size(t) \/ SetMaxItems(t)
          \/ Return(t)

Spec == Init /\ [][Next]_vars
=============================================================================
