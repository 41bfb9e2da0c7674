--------------------------- MODULE ThreadSafeQueue ---------------------------
(***************************************************************************)
(* The blocking queue between the event loop and a worker thread,          *)
(* include/thread_safe_queue.h, at the grain of its mutex: acquiring _mtx, *)
(* each access made under it, releasing it, sleeping on _cv and notifying  *)
(* _cv are separate steps of the threads that call the queue.              *)
(*                                                                         *)
(* Sleeping is what std::condition_variable::wait does: it releases _mtx   *)
(* and joins the sleepers in one step, and a thread that wakes, for a      *)
(* notification or for no reason, takes _mtx again and tests the predicate *)
(* again.  The class promises to serve several producers and several       *)
(* consumers; the server has one of each per queue.                        *)
(***************************************************************************)
EXTENDS Naturals, Sequences

CONSTANTS
  Producer,     \* threads that call enqueue
  Consumer,     \* threads that call wait_and_pop until it returns false
  Destructor,   \* the thread that calls stop, once
  Item,         \* what is enqueued, each item once
  NoItem,       \* the value of `out` before anything is popped
  NoThread      \* the owner of a free mutex

Thread == Producer \cup Consumer \cup {Destructor}

ASSUME ThreadAssumption ==
  /\ Producer \cap Consumer = {}
  /\ Destructor \notin Producer \cup Consumer
  /\ NoThread \notin Thread

VARIABLES
  mtx,       \* _mtx: the thread that holds it, or NoThread
  queue,     \* _queue
  stopped,   \* _stopped
  pc,        \* where each thread is
  out,       \* the item each consumer got last
  unsent     \* the items no producer has enqueued yet (bounds the model)

vars == <<mtx, queue, stopped, pc, out, unsent>>

\* Consumers outside the critical section that take _mtx next.
Awake == {"called", "woken"}

Init ==
  /\ mtx = NoThread
  /\ queue = << >>
  /\ stopped = FALSE
  /\ pc = [t \in Thread |-> IF t \in Consumer THEN "called" ELSE "idle"]
  /\ out = [c \in Consumer |-> NoItem]
  /\ unsent = Item

Goto(t, place) == pc' = [pc EXCEPT ![t] = place]

\* Thread t, at one of the places `from`, takes the mutex.
Lock(t, from, to) ==
  /\ pc[t] \in from
  /\ mtx = NoThread
  /\ mtx' = t
  /\ Goto(t, to)
  /\ UNCHANGED <<queue, stopped, out, unsent>>

Sleepers == {c \in Consumer : pc[c] = "asleep"}

------------------------------------------------------------------------------
(* enqueue *)

enqueue_lock(p) ==
  /\ unsent # {}
  /\ Lock(p, {"idle"}, "pushing")

\* Mutant: a producer that forgets to notify.
enqueue_push_Silent(p) ==
  /\ pc[p] = "pushing"
  /\ \E i \in unsent :
       /\ queue' = Append(queue, i)
       /\ unsent' = unsent \ {i}
  /\ mtx' = NoThread
  /\ Goto(p, "idle")
  /\ UNCHANGED <<stopped, out>>

enqueue_push(p) ==
  /\ pc[p] = "pushing"
  /\ \E i \in unsent :
       /\ queue' = Append(queue, i)
       /\ unsent' = unsent \ {i}
  /\ mtx' = NoThread
  /\ Goto(p, "notifying")
  /\ UNCHANGED <<stopped, out>>

\* One sleeper is woken if there is one; otherwise the notification is lost.
notify_one(p) ==
  /\ pc[p] = "notifying"
  /\ \/ \E c \in Sleepers : pc' = [pc EXCEPT ![p] = "idle", ![c] = "woken"]
     \/ Sleepers = {} /\ Goto(p, "idle")
  /\ UNCHANGED <<mtx, queue, stopped, out, unsent>>

------------------------------------------------------------------------------
(* wait_and_pop *)

wait_lock(c) == Lock(c, Awake, "testing")

\* Mutant: the mutex is given up between the wait and the pop.
wait_over_Unlocked(c) ==
  /\ pc[c] = "testing"
  /\ queue # << >> \/ stopped
  /\ Goto(c, "popping")
  /\ mtx' = NoThread
  /\ UNCHANGED <<queue, stopped, out, unsent>>

\* The predicate of _cv.wait holds: the thread goes on with the mutex held.
wait_over(c) ==
  /\ pc[c] = "testing"
  /\ queue # << >> \/ stopped
  /\ Goto(c, "popping")
  /\ UNCHANGED <<mtx, queue, stopped, out, unsent>>

\* The predicate does not hold: the mutex is released and the thread sleeps.
wait_sleep(c) ==
  /\ pc[c] = "testing"
  /\ queue = << >>
  /\ ~stopped
  /\ mtx' = NoThread
  /\ Goto(c, "asleep")
  /\ UNCHANGED <<queue, stopped, out, unsent>>

spurious_wakeup(c) ==
  /\ c \in Sleepers
  /\ Goto(c, "woken")
  /\ UNCHANGED <<mtx, queue, stopped, out, unsent>>

\* out = _queue.front(): the item is read and stays in the queue.
read_front(c) ==
  /\ pc[c] = "popping"
  /\ queue # << >>
  /\ out' = [out EXCEPT ![c] = Head(queue)]
  /\ Goto(c, "erasing")
  /\ UNCHANGED <<mtx, queue, stopped, unsent>>

\* Mutant: a consumer that leaves its loop after one item.
erase_front_Once(c) ==
  /\ pc[c] = "erasing"
  /\ queue' = Tail(queue)
  /\ mtx' = NoThread
  /\ Goto(c, "idle")
  /\ UNCHANGED <<stopped, out, unsent>>

\* _queue.pop(), the release of the mutex, and the next call.
erase_front(c) ==
  /\ pc[c] = "erasing"
  /\ queue' = Tail(queue)
  /\ mtx' = NoThread
  /\ Goto(c, "called")
  /\ UNCHANGED <<stopped, out, unsent>>

\* Mutant: a stopped queue that is not drained.
return_false_Undrained(c) ==
  /\ pc[c] = "popping"
  /\ stopped
  /\ mtx' = NoThread
  /\ Goto(c, "finished")
  /\ UNCHANGED <<queue, stopped, out, unsent>>

\* Stopped and drained: wait_and_pop returns false and the caller's loop ends.
return_false(c) ==
  /\ pc[c] = "popping"
  /\ queue = << >>
  /\ mtx' = NoThread
  /\ Goto(c, "finished")
  /\ UNCHANGED <<queue, stopped, out, unsent>>

------------------------------------------------------------------------------
(* stop *)

stop_lock == Lock(Destructor, {"idle"}, "stopping")

stop_set ==
  /\ pc[Destructor] = "stopping"
  /\ stopped' = TRUE
  /\ mtx' = NoThread
  /\ Goto(Destructor, "notifying")
  /\ UNCHANGED <<queue, out, unsent>>

\* Mutant: stop wakes one sleeper only.
notify_all_One ==
  /\ pc[Destructor] = "notifying"
  /\ \/ \E c \in Sleepers :
          pc' = [pc EXCEPT ![Destructor] = "finished", ![c] = "woken"]
     \/ Sleepers = {} /\ Goto(Destructor, "finished")
  /\ UNCHANGED <<mtx, queue, stopped, out, unsent>>

notify_all ==
  /\ pc[Destructor] = "notifying"
  /\ pc' = [t \in Thread |-> IF t \in Sleepers THEN "woken"
                             ELSE IF t = Destructor THEN "finished"
                             ELSE pc[t]]
  /\ UNCHANGED <<mtx, queue, stopped, out, unsent>>

------------------------------------------------------------------------------
enqueue(p) == enqueue_lock(p) \/ enqueue_push(p) \/ notify_one(p)

wait_and_pop(c) ==
  \/ wait_lock(c)
  \/ wait_over(c)
  \/ wait_sleep(c)
  \/ read_front(c)
  \/ erase_front(c)
  \/ return_false(c)

stop == stop_lock \/ stop_set \/ notify_all

Next ==
  \/ \E p \in Producer : enqueue(p)
  \/ \E c \in Consumer : wait_and_pop(c) \/ spurious_wakeup(c)
  \/ stop

Spec == Init /\ [][Next]_vars

\* A thread that can run does run, and a thread that waits for the mutex gets
\* it: it is held for a few instructions at a time.  Nothing obliges a producer
\* to call enqueue, the destructor to call stop, or a sleeper to wake by itself.
Fairness ==
  /\ \A p \in Producer : WF_vars(enqueue_push(p)) /\ WF_vars(notify_one(p))
  /\ \A c \in Consumer : SF_vars(wait_lock(c)) /\ WF_vars(wait_and_pop(c))
  /\ WF_vars(stop_set \/ notify_all)

FairSpec == Spec /\ Fairness

------------------------------------------------------------------------------
ProducerPlaces == {"idle", "pushing", "notifying"}
ConsumerPlaces == Awake \cup {"testing", "asleep", "popping", "erasing", "finished"}
DestructorPlaces == {"idle", "stopping", "notifying", "finished"}

\* Every thread is at a place of its own kind of call: a consumer leaves its
\* loop only when wait_and_pop has told it to.
TypeOK ==
  /\ mtx \in Thread \cup {NoThread}
  /\ queue \in Seq(Item)
  /\ stopped \in BOOLEAN
  /\ pc \in [Thread -> ProducerPlaces \cup ConsumerPlaces \cup DestructorPlaces]
  /\ \A p \in Producer : pc[p] \in ProducerPlaces
  /\ \A c \in Consumer : pc[c] \in ConsumerPlaces
  /\ pc[Destructor] \in DestructorPlaces
  /\ out \in [Consumer -> Item \cup {NoItem}]
  /\ unsent \subseteq Item

\* The places inside the critical sections.
Critical == {"pushing", "testing", "popping", "erasing", "stopping"}

\* The queue and the flag are touched by one thread at a time: whoever is in a
\* critical section holds the mutex, so there is at most one.
MutualExclusion == \A t \in Thread : pc[t] \in Critical => mtx = t

\* No wakeup is lost: while there is work and somebody sleeps, either a
\* notification is on its way or a consumer is awake that will look at the
\* queue before it sleeps.  (Testing the queue before taking the mutex, or
\* notifying before pushing, would break this.)
NoLostWakeup ==
  queue # << >> /\ Sleepers # {} =>
    \/ \E p \in Producer : pc[p] = "notifying"
    \/ pc[Destructor] = "notifying"
    \/ \E c \in Consumer : pc[c] \notin {"asleep", "finished"}

\* Nobody sleeps through stop: once the flag is set, a consumer is asleep only
\* until notify_all, which is on its way.
NobodySleepsThroughStop ==
  stopped /\ Sleepers # {} => pc[Destructor] = "notifying"

\* The comment at include/thread_safe_queue.h:12: the predicate of the wait and
\* the pop happen under the same lock.  What a consumer saw at the front is
\* still there when it pops, so no item is handed out twice or skipped.
PopsWhatItRead ==
  \A c \in Consumer : pc[c] = "erasing" => queue # << >> /\ out[c] = Head(queue)

------------------------------------------------------------------------------
\* The queue seen from outside: an item has left once a consumer has read it.
Work == INSTANCE WorkQueue WITH
  items    <- IF \E c \in Consumer : pc[c] = "erasing" THEN Tail(queue) ELSE queue,
  closed   <- stopped,
  held     <- out,
  finished <- {c \in Consumer : pc[c] = "finished"}

\* The locked, sleeping queue is the plain queue of WorkQueue: first in, first
\* out, each item to one consumer, and no consumer told to stop before the
\* queue is stopped and drained, however many producers and consumers there are.
ImplementsWorkQueue == Work!QueueSpec

------------------------------------------------------------------------------
Queued(i) == \E n \in DOMAIN queue : queue[n] = i

\* What is enqueued before stop is handed to a consumer, even if every consumer
\* is asleep when it arrives and even if stop comes before anyone takes it.
EveryItemTaken == \A i \in Item : (Queued(i) /\ ~stopped) ~> ~Queued(i)

\* The join in ~MessageProcessor returns: after stop every consumer drains the
\* queue and ends, also the ones that were asleep.
StopEndsConsumers ==
  stopped ~> \A c \in Consumer : pc[c] = "finished"
==============================================================================
