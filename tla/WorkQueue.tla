------------------------------ MODULE WorkQueue ------------------------------
(***************************************************************************)
(* What a worker's inbound queue promises: items leave in the order they   *)
(* were enqueued, each of them is handed to one consumer, and a consumer   *)
(* is told to stop only when the queue is closed and drained.  Nothing is  *)
(* said of locks or of sleeping; ThreadSafeQueue implements it.            *)
(***************************************************************************)
EXTENDS Sequences

CONSTANTS Consumer, Item, NoItem

VARIABLES
  items,     \* what is enqueued and not yet handed out
  closed,    \* stop() has taken effect
  held,      \* the item each consumer was handed last
  finished   \* the consumers that were told to stop

queueVars == <<items, closed, held, finished>>

QueueInit ==
  /\ items = << >>
  /\ closed = FALSE
  /\ held = [c \in Consumer |-> NoItem]
  /\ finished = {}

Enqueue(i) ==
  /\ items' = Append(items, i)
  /\ UNCHANGED <<closed, held, finished>>

Take(c) ==
  /\ c \notin finished
  /\ items # << >>
  /\ held' = [held EXCEPT ![c] = Head(items)]
  /\ items' = Tail(items)
  /\ UNCHANGED <<closed, finished>>

Close ==
  /\ closed' = TRUE
  /\ UNCHANGED <<items, held, finished>>

Finish(c) ==
  /\ closed
  /\ items = << >>
  /\ finished' = finished \cup {c}
  /\ UNCHANGED <<items, closed, held>>

QueueNext ==
  \/ \E i \in Item : Enqueue(i)
  \/ \E c \in Consumer : Take(c) \/ Finish(c)
  \/ Close

QueueSpec == QueueInit /\ [][QueueNext]_queueVars
==============================================================================
