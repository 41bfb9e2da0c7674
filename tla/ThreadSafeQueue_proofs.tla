----------------------- MODULE ThreadSafeQueue_proofs ------------------------
(***************************************************************************)
(* The blocking queue is correct for any number of producers, consumers    *)
(* and items.                                                              *)
(***************************************************************************)
EXTENDS ThreadSafeQueue, SequenceTheorems, TLAPS

------------------------------------------------------------------------------
(***************************************************************************)
(* Types.                                                                  *)
(***************************************************************************)
LEMMA InitType == Init => TypeOK
<1> SUFFICES ASSUME Init PROVE TypeOK
  OBVIOUS
<1>1. queue \in Seq(Item) /\ out \in [Consumer -> Item \cup {NoItem}]
  BY DEF Init
<1>2. QED
  BY <1>1, ThreadAssumption
     DEF Init, TypeOK, Thread, ProducerPlaces, ConsumerPlaces, DestructorPlaces, Awake

\* Popping an empty queue has no type: the step needs what PopsWhatItRead says.
LEMMA StepType == TypeOK /\ PopsWhatItRead /\ [Next]_vars => TypeOK'
<1> SUFFICES ASSUME TypeOK, PopsWhatItRead, [Next]_vars
             PROVE  TypeOK'
  OBVIOUS
<1> USE ThreadAssumption DEF TypeOK, Thread, Awake, Goto,
        ProducerPlaces, ConsumerPlaces, DestructorPlaces
<1>1. ASSUME NEW p \in Producer, enqueue_lock(p)
      PROVE  TypeOK'
  BY <1>1 DEF enqueue_lock, Lock
<1>2. ASSUME NEW p \in Producer, enqueue_push(p)
      PROVE  TypeOK'
  BY <1>2 DEF enqueue_push
<1>3. ASSUME NEW p \in Producer, notify_one(p)
      PROVE  TypeOK'
  BY <1>3 DEF notify_one, Sleepers
<1>4. ASSUME NEW c \in Consumer, wait_lock(c)
      PROVE  TypeOK'
  BY <1>4 DEF wait_lock, Lock
<1>5. ASSUME NEW c \in Consumer, wait_over(c) \/ wait_sleep(c)
      PROVE  TypeOK'
  BY <1>5 DEF wait_over, wait_sleep
<1>6. ASSUME NEW c \in Consumer, spurious_wakeup(c)
      PROVE  TypeOK'
  BY <1>6 DEF spurious_wakeup, Sleepers
<1>7. ASSUME NEW c \in Consumer, read_front(c)
      PROVE  TypeOK'
  BY <1>7 DEF read_front
<1>8. ASSUME NEW c \in Consumer, erase_front(c)
      PROVE  TypeOK'
  <2>1. Tail(queue) \in Seq(Item)
    BY <1>8 DEF erase_front, PopsWhatItRead
  <2>2. QED
    BY <1>8, <2>1 DEF erase_front
<1>9. ASSUME NEW c \in Consumer, return_false(c)
      PROVE  TypeOK'
  BY <1>9 DEF return_false
<1>10. CASE stop_lock \/ stop_set
  BY <1>10 DEF stop_lock, stop_set, Lock
<1>11. CASE notify_all
  BY <1>11 DEF notify_all, Sleepers
<1>12. CASE UNCHANGED vars
  BY <1>12 DEF vars
<1>13. QED
  BY <1>1, <1>2, <1>3, <1>4, <1>5, <1>6, <1>7, <1>8, <1>9, <1>10, <1>11, <1>12
     DEF Next, enqueue, wait_and_pop, stop

------------------------------------------------------------------------------
(***************************************************************************)
(* The mutex.  Whoever is in a critical section holds it, so a thread that *)
(* finds it free finds nobody there, and one that releases it leaves       *)
(* nobody there.                                                           *)
(***************************************************************************)
LEMMA StepMutex == TypeOK /\ MutualExclusion /\ [Next]_vars => MutualExclusion'
<1> SUFFICES ASSUME TypeOK, MutualExclusion, [Next]_vars, NEW t \in Thread,
                    pc'[t] \in Critical
             PROVE  mtx' = t
  BY DEF MutualExclusion
<1>1. pc \in [Thread -> ProducerPlaces \cup ConsumerPlaces \cup DestructorPlaces]
  BY DEF TypeOK
<1> USE ThreadAssumption DEF MutualExclusion, Thread, Critical, Goto
<1>2. ASSUME NEW s \in Thread, NEW from, NEW to, Lock(s, from, to)
      PROVE  mtx' = t
  BY <1>1, <1>2 DEF Lock
<1>3. ASSUME NEW p \in Producer, enqueue_push(p) \/ notify_one(p)
      PROVE  mtx' = t
  BY <1>1, <1>3 DEF enqueue_push, notify_one, Sleepers
<1>4. ASSUME NEW c \in Consumer,
             \/ wait_over(c) \/ wait_sleep(c) \/ spurious_wakeup(c)
             \/ read_front(c) \/ erase_front(c) \/ return_false(c)
      PROVE  mtx' = t
  BY <1>1, <1>4 DEF wait_over, wait_sleep, spurious_wakeup, read_front,
                    erase_front, return_false, Sleepers
<1>5. CASE stop_set \/ notify_all
  BY <1>1, <1>5 DEF stop_set, notify_all, Sleepers
<1>6. CASE UNCHANGED vars
  BY <1>6 DEF vars
<1>7. QED
  BY <1>2, <1>3, <1>4, <1>5, <1>6
     DEF Next, enqueue, wait_and_pop, stop, enqueue_lock, wait_lock, stop_lock

------------------------------------------------------------------------------
(***************************************************************************)
(* What a consumer knows while it holds the mutex.                         *)
(***************************************************************************)
WaitIsOver ==
  \A c \in Consumer : pc[c] = "popping" => queue # << >> \/ stopped

HolderInv == TypeOK /\ MutualExclusion /\ PopsWhatItRead /\ WaitIsOver

LEMMA StepPop ==
  HolderInv /\ [Next]_vars => PopsWhatItRead' /\ WaitIsOver'
<1> SUFFICES ASSUME HolderInv, [Next]_vars, NEW c \in Consumer
             PROVE  /\ pc'[c] = "erasing" => queue' # << >> /\ out'[c] = Head(queue')
                    /\ pc'[c] = "popping" => queue' # << >> \/ stopped'
  BY DEF PopsWhatItRead, WaitIsOver
<1>1. /\ pc \in [Thread -> ProducerPlaces \cup ConsumerPlaces \cup DestructorPlaces]
      /\ out \in [Consumer -> Item \cup {NoItem}]
      /\ queue \in Seq(Item)
      /\ pc[c] = "erasing" => queue # << >> /\ out[c] = Head(queue) /\ mtx = c
      /\ pc[c] = "popping" => (queue # << >> \/ stopped) /\ mtx = c
      /\ c \in Thread
  BY DEF HolderInv, TypeOK, PopsWhatItRead, WaitIsOver, MutualExclusion, Critical, Thread
<1> USE ThreadAssumption DEF Thread, Goto
<1>2. ASSUME NEW t \in Thread, NEW from, NEW to, to \notin {"erasing", "popping"},
             Lock(t, from, to)
      PROVE  /\ pc'[c] = "erasing" => queue' # << >> /\ out'[c] = Head(queue')
             /\ pc'[c] = "popping" => queue' # << >> \/ stopped'
  BY <1>1, <1>2 DEF Lock
<1>3. ASSUME NEW p \in Producer, enqueue_push(p)
      PROVE  pc'[c] # "erasing" /\ pc'[c] # "popping"
  <2>1. mtx = p
    BY <1>3 DEF enqueue_push, HolderInv, MutualExclusion, Critical
  <2>2. QED
    BY <1>1, <1>3, <2>1 DEF enqueue_push
<1>4. ASSUME NEW p \in Producer, notify_one(p)
      PROVE  /\ pc'[c] = "erasing" => queue' # << >> /\ out'[c] = Head(queue')
             /\ pc'[c] = "popping" => queue' # << >> \/ stopped'
  BY <1>1, <1>4 DEF notify_one, Sleepers
<1>5. ASSUME NEW b \in Consumer,
             wait_over(b) \/ wait_sleep(b) \/ spurious_wakeup(b) \/ read_front(b)
      PROVE  /\ pc'[c] = "erasing" => queue' # << >> /\ out'[c] = Head(queue')
             /\ pc'[c] = "popping" => queue' # << >> \/ stopped'
  BY <1>1, <1>5 DEF wait_over, wait_sleep, spurious_wakeup, read_front, Sleepers
<1>6. ASSUME NEW b \in Consumer, erase_front(b) \/ return_false(b)
      PROVE  pc'[c] # "erasing" /\ pc'[c] # "popping"
  <2>1. mtx = b
    BY <1>6 DEF erase_front, return_false, HolderInv, MutualExclusion, Critical
  <2>2. QED
    BY <1>1, <1>6, <2>1 DEF erase_front, return_false
<1>7. CASE stop_set \/ notify_all
  BY <1>1, <1>7 DEF stop_set, notify_all, Sleepers
<1>8. CASE UNCHANGED vars
  BY <1>1, <1>8 DEF vars
<1>9. QED
  BY <1>2, <1>3, <1>4, <1>5, <1>6, <1>7, <1>8
     DEF Next, enqueue, wait_and_pop, stop, enqueue_lock, wait_lock, stop_lock

LEMMA HolderInvariance == Spec => []HolderInv
<1>1. Init => HolderInv
  BY InitType, ThreadAssumption
     DEF Init, HolderInv, MutualExclusion, Critical, PopsWhatItRead, WaitIsOver, Thread
<1>2. HolderInv /\ [Next]_vars => HolderInv'
  BY StepType, StepMutex, StepPop DEF HolderInv
<1>3. QED
  BY <1>1, <1>2, PTL DEF Spec

------------------------------------------------------------------------------
(***************************************************************************)
(* The condition variable.                                                 *)
(***************************************************************************)
LEMMA StepWakeup == TypeOK /\ NoLostWakeup /\ [Next]_vars => NoLostWakeup'
<1> DEFINE Attended == \/ \E p \in Producer : pc[p] = "notifying"
                       \/ pc[Destructor] = "notifying"
                       \/ \E c \in Consumer : pc[c] \notin {"asleep", "finished"}
<1> SUFFICES ASSUME TypeOK, NoLostWakeup, [Next]_vars,
                    queue' # << >>, NEW s \in Consumer, pc'[s] = "asleep"
             PROVE  Attended'
  BY DEF NoLostWakeup, Sleepers
<1>1. /\ pc \in [Thread -> ProducerPlaces \cup ConsumerPlaces \cup DestructorPlaces]
      /\ queue # << >> /\ pc[s] = "asleep" => Attended
      /\ Destructor \in Thread /\ Producer \subseteq Thread /\ Consumer \subseteq Thread
      /\ Producer \cap Consumer = {}
      /\ Destructor \notin Producer \cup Consumer
  BY ThreadAssumption DEF TypeOK, NoLostWakeup, Sleepers, Thread
<1> USE DEF Goto
<1>2. ASSUME NEW p \in Producer, enqueue_lock(p)
      PROVE  Attended'
  BY <1>1, <1>2 DEF enqueue_lock, Lock
<1>3. ASSUME NEW p \in Producer, enqueue_push(p)
      PROVE  Attended'
  BY <1>1, <1>3 DEF enqueue_push
<1>4. ASSUME NEW p \in Producer, notify_one(p)
      PROVE  \E c \in Consumer : pc'[c] = "woken"
  BY <1>1, <1>4 DEF notify_one, Sleepers
<1>5. ASSUME NEW c \in Consumer, wait_lock(c)
      PROVE  pc'[c] = "testing"
  BY <1>1, <1>5 DEF wait_lock, Lock
<1>6. ASSUME NEW c \in Consumer,
             wait_over(c) \/ spurious_wakeup(c) \/ read_front(c) \/ erase_front(c)
      PROVE  pc'[c] \notin {"asleep", "finished"}
  BY <1>1, <1>6 DEF wait_over, spurious_wakeup, read_front, erase_front
<1>7. ASSUME NEW c \in Consumer, wait_sleep(c) \/ return_false(c)
      PROVE  FALSE
  BY <1>7 DEF wait_sleep, return_false
<1>8. CASE stop_lock
  BY <1>1, <1>8 DEF stop_lock, Lock
<1>9. CASE stop_set
  BY <1>1, <1>9 DEF stop_set
<1>10. ~notify_all
  BY <1>1 DEF notify_all, Sleepers
<1>11. CASE UNCHANGED vars
  BY <1>1, <1>11 DEF vars
<1>12. QED
  BY <1>2, <1>3, <1>4, <1>5, <1>6, <1>7, <1>8, <1>9, <1>10, <1>11
     DEF Next, enqueue, wait_and_pop, stop

LEMMA StepStop ==
  TypeOK /\ NobodySleepsThroughStop /\ [Next]_vars => NobodySleepsThroughStop'
<1> SUFFICES ASSUME TypeOK, NobodySleepsThroughStop, [Next]_vars,
                    stopped', NEW s \in Consumer, pc'[s] = "asleep"
             PROVE  pc'[Destructor] = "notifying"
  BY DEF NobodySleepsThroughStop, Sleepers
<1>1. /\ pc \in [Thread -> ProducerPlaces \cup ConsumerPlaces \cup DestructorPlaces]
      /\ stopped /\ pc[s] = "asleep" => pc[Destructor] = "notifying"
      /\ Destructor \in Thread /\ Producer \subseteq Thread /\ Consumer \subseteq Thread
      /\ Producer \cap Consumer = {}
      /\ Destructor \notin Producer \cup Consumer
  BY ThreadAssumption DEF TypeOK, NobodySleepsThroughStop, Sleepers, Thread
<1> USE <1>1 DEF Goto
<1>2. ASSUME NEW p \in Producer, enqueue(p)
      PROVE  pc'[Destructor] = "notifying"
  BY <1>2 DEF enqueue, enqueue_lock, enqueue_push, notify_one, Lock, Sleepers
<1>3. ASSUME NEW c \in Consumer, wait_and_pop(c) \/ spurious_wakeup(c)
      PROVE  pc'[Destructor] = "notifying"
  BY <1>3 DEF wait_and_pop, wait_lock, wait_over, wait_sleep, spurious_wakeup,
              read_front, erase_front, return_false, Lock
<1>4. CASE stop
  BY <1>4 DEF stop, stop_lock, stop_set, notify_all, Lock, Sleepers
<1>5. CASE UNCHANGED vars
  BY <1>5 DEF vars
<1>6. QED
  BY <1>2, <1>3, <1>4, <1>5 DEF Next

------------------------------------------------------------------------------
\* Threads stay at places of their own calls, whatever their number.
THEOREM TypeCorrect == Spec => []TypeOK
<1>1. HolderInv => TypeOK
  BY DEF HolderInv
<1>2. QED
  BY <1>1, HolderInvariance, PTL

\* At most one thread is in a critical section: the one that holds _mtx.
THEOREM Mutex == Spec => []MutualExclusion
<1>1. HolderInv => MutualExclusion
  BY DEF HolderInv
<1>2. QED
  BY <1>1, HolderInvariance, PTL

\* What a consumer read at the front is what it pops: the safety "for more than
\* one consumer" that the comment of thread_safe_queue.h claims.
THEOREM PopIsAtomic == Spec => []PopsWhatItRead
<1>1. HolderInv => PopsWhatItRead
  BY DEF HolderInv
<1>2. QED
  BY <1>1, HolderInvariance, PTL

\* No item stays in the queue with every consumer asleep and nobody to wake one.
THEOREM WakeupsReach == Spec => []NoLostWakeup
<1>1. Init => NoLostWakeup
  BY DEF Init, NoLostWakeup
<1>2. TypeOK /\ NoLostWakeup /\ [Next]_vars => NoLostWakeup'
  BY StepWakeup
<1>3. QED
  BY <1>1, <1>2, TypeCorrect, PTL DEF Spec

\* After stop, a consumer is asleep only while notify_all is on its way.
THEOREM StopReaches == Spec => []NobodySleepsThroughStop
<1>1. Init => NobodySleepsThroughStop
  BY DEF Init, NobodySleepsThroughStop
<1>2. TypeOK /\ NobodySleepsThroughStop /\ [Next]_vars => NobodySleepsThroughStop'
  BY StepStop
<1>3. QED
  BY <1>1, <1>2, TypeCorrect, PTL DEF Spec

------------------------------------------------------------------------------
(***************************************************************************)
(* The refinement.  A step is visible to WorkQueue when it appends an      *)
(* item, reads the front, sets the flag or returns false; in all of them   *)
(* the thread holds the mutex, so no other consumer is between its read    *)
(* and its pop.  Every other step leaves what WorkQueue sees unchanged.    *)
(***************************************************************************)
erasing == \E c \in Consumer : pc[c] = "erasing"
items == IF erasing THEN Tail(queue) ELSE queue
finished == {c \in Consumer : pc[c] = "finished"}
visible == <<items, stopped, out, finished>>

LEMMA InitRefines == Init => Work!QueueInit
  BY ThreadAssumption DEF Init, Work!QueueInit, Thread

LEMMA NobodyErasing ==
  ASSUME HolderInv, NEW t \in Thread, pc[t] \in Critical, pc[t] # "erasing"
  PROVE  ~erasing
  BY DEF HolderInv, MutualExclusion, Critical, erasing, Thread

\* Steps that move one thread between places WorkQueue does not tell apart.
LEMMA QuietStep ==
  ASSUME TypeOK, UNCHANGED <<queue, stopped, out>>,
         \A c \in Consumer : \A place \in {"erasing", "finished"} :
           (pc'[c] = place) <=> (pc[c] = place)
  PROVE  UNCHANGED visible
<1>1. erasing' <=> erasing
  BY DEF erasing
<1>2. items' = items
  BY <1>1 DEF items
<1>3. finished' = finished
  BY DEF finished
<1>4. QED
  BY <1>2, <1>3 DEF visible

LEMMA StepRefines ==
  ASSUME HolderInv, [Next]_vars
  PROVE  [Work!QueueNext]_visible
<1>1. /\ TypeOK
      /\ pc \in [Thread -> ProducerPlaces \cup ConsumerPlaces \cup DestructorPlaces]
      /\ Destructor \in Thread /\ Producer \subseteq Thread /\ Consumer \subseteq Thread
      /\ Producer \cap Consumer = {}
      /\ Destructor \notin Producer \cup Consumer
  BY ThreadAssumption DEF HolderInv, TypeOK, Thread
<1> USE <1>1 DEF Goto
<1>2. ASSUME NEW p \in Producer, enqueue_lock(p) \/ notify_one(p)
      PROVE  UNCHANGED visible
  BY <1>2, QuietStep DEF enqueue_lock, notify_one, Lock, Sleepers
<1>3. ASSUME NEW p \in Producer, enqueue_push(p)
      PROVE  Work!QueueNext
  <2>1. ~erasing
    BY <1>3, NobodyErasing DEF enqueue_push, Critical
  <2>2. ~erasing' /\ finished' = finished
    BY <1>3, <2>1 DEF enqueue_push, erasing, finished
  <2>3. PICK i \in unsent : queue' = Append(queue, i)
    BY <1>3 DEF enqueue_push
  <2>4. i \in Item
    BY <2>3 DEF TypeOK
  <2>5. items' = Append(items, i)
    BY <2>1, <2>2, <2>3 DEF items
  <2>6. Work!Enqueue(i)
    BY <1>3, <2>2, <2>5 DEF enqueue_push, items, erasing, finished, Work!Enqueue
  <2>7. QED
    BY <2>4, <2>6 DEF Work!QueueNext
<1>4. ASSUME NEW c \in Consumer,
             wait_lock(c) \/ wait_over(c) \/ wait_sleep(c) \/ spurious_wakeup(c)
      PROVE  UNCHANGED visible
  BY <1>4, QuietStep DEF wait_lock, wait_over, wait_sleep, spurious_wakeup,
                         Lock, Sleepers, Awake
<1>5. ASSUME NEW c \in Consumer, read_front(c)
      PROVE  Work!QueueNext
  <2>1. ~erasing
    BY <1>5, NobodyErasing DEF read_front, Critical
  <2>2. erasing' /\ finished' = finished /\ c \notin finished
    BY <1>5 DEF read_front, erasing, finished
  <2>3. /\ items = queue
        /\ items' = Tail(items)
        /\ items # << >>
        /\ out' = [out EXCEPT ![c] = Head(items)]
    BY <1>5, <2>1, <2>2 DEF read_front, items
  <2>4. Work!Take(c)
    BY <1>5, <2>2, <2>3 DEF read_front, items, erasing, finished, Work!Take
  <2>5. QED
    BY <2>4 DEF Work!QueueNext
<1>6. ASSUME NEW c \in Consumer, erase_front(c)
      PROVE  UNCHANGED visible
  <2>1. erasing
    BY <1>6 DEF erase_front, erasing
  <2>2. \A b \in Consumer : pc[b] = "erasing" => b = c
    BY <1>6 DEF erase_front, HolderInv, MutualExclusion, Critical
  <2>3. ~erasing' /\ finished' = finished
    BY <1>6, <2>2 DEF erase_front, erasing, finished
  <2>4. items' = items
    BY <1>6, <2>1, <2>3 DEF erase_front, items
  <2>5. QED
    BY <1>6, <2>3, <2>4 DEF erase_front, visible
<1>7. ASSUME NEW c \in Consumer, return_false(c)
      PROVE  Work!QueueNext
  <2>1. ~erasing /\ stopped
    BY <1>7, NobodyErasing DEF return_false, Critical, HolderInv, WaitIsOver
  <2>2. ~erasing' /\ finished' = finished \cup {c}
    BY <1>7, <2>1 DEF return_false, erasing, finished
  <2>3. items = << >> /\ items' = items
    BY <1>7, <2>1, <2>2 DEF return_false, items
  <2>4. Work!Finish(c)
    BY <1>7, <2>1, <2>2, <2>3
       DEF return_false, items, erasing, finished, Work!Finish
  <2>5. QED
    BY <2>4 DEF Work!QueueNext
<1>8. CASE stop_lock \/ notify_all
  BY <1>8, QuietStep DEF stop_lock, notify_all, Lock, Sleepers
<1>9. CASE stop_set
  <2>1. items' = items /\ finished' = finished
    BY <1>9 DEF stop_set, items, erasing, finished
  <2>2. Work!Close
    BY <1>9, <2>1 DEF stop_set, items, erasing, finished, Work!Close
  <2>3. QED
    BY <2>2 DEF Work!QueueNext
<1>10. CASE UNCHANGED vars
  BY <1>10, QuietStep DEF vars
<1>11. QED
  BY <1>2, <1>3, <1>4, <1>5, <1>6, <1>7, <1>8, <1>9, <1>10
     DEF Next, enqueue, wait_and_pop, stop

\* For any number of producers and consumers the locked, sleeping queue is a
\* plain first-in first-out queue: each item is handed to one consumer, and a
\* consumer is told to stop only when the queue is stopped and drained.
THEOREM WorkQueueImplemented == Spec => ImplementsWorkQueue
<1>1. HolderInv /\ [Next]_vars => [Work!QueueNext]_visible
  BY StepRefines
<1>2. QED
  BY <1>1, InitRefines, HolderInvariance, PTL
     DEF Spec, ImplementsWorkQueue, Work!QueueSpec, Work!queueVars, visible,
         items, erasing, finished
==============================================================================
