# Bingo-Server: TLA+ models and proofs

Bingo-Server is a chat server: clients connect over WebSocket, sign up, log in,
exchange friend requests and chat messages; the data is kept in MySQL. One event
loop (uWebSockets) reads the sockets and hands each packet to one of N worker
threads, which parse it, query the database, touch the shared registry of online
users and send the answers. This directory models the parts of it where the order
of steps matters, checks them with TLC on small instances and proves with TLAPS, for
every size, each safety property the passing runs check; what the violated runs check
is proved under conditions that exclude what they show, for three of the four by
keeping a second worker away.

Paths below are relative to the repository.

## The system

| component | state | operations | interacts with |
|---|---|---|---|
| `Server` (src/server.cpp) | the workers; the sockets, kept by uWebSockets | `connection_opened`, `connection_closed`, `message_received`, `worker_index_for`, `run` | registry (a close), workers (a packet) |
| `MessageProcessor` (src/message_processor.cpp) | its queue, its thread, its `MessageHandler` with its own database connection | `start`, `enqueue`, `process`, destructor | queue, handlers |
| `ThreadSafeQueue` (include/thread_safe_queue.h) | `_queue`, `_stopped`, `_mtx`, `_cv` | `enqueue`, `wait_and_pop`, `stop` | event loop and one worker |
| `UserSessionManager` (src/user_session_manager.cpp) | `_sessions`: user to socket and reference count; `_ws_index`: socket to user; `_mtx` | `attach_session`, `send_to_user`, `remove_session`, `remove_session_by_ws`, `is_online` | event loop and all workers, under one mutex |
| login, reconnect, logout (src/handlers) | none | `handle` | database, registry, sockets |
| chat and history (`ChatMessageHandler`, `HandlerUtils`) | table `chat_history` | `chat_message`, `get_chat_messages` | database, registry, sockets |
| message identifiers (`get_message_id_request`) | the row of `message_id_counter`; `LAST_INSERT_ID()` of each connection | one UPDATE and one SELECT | database |
| accounts (`signup_request`, tokens, `change_password_request`, `update_profile_request`) | tables `user_credentials`, `auth_tokens` | check-then-write on several workers | database |
| friendship (`friend_req_request`, `friend_req_response`, `search_user_request`) | tables `friend_request`, `friendship` | several statements without a transaction | database, registry |
| parsing, responses, configuration, log, time, debug printing | none that other parts depend on | conversions and output | |

What is hard about it:

* **Interleaving.** A handler runs in steps: a query, a call of the registry, a
  send. Between two of them the event loop and the other workers run theirs. Only
  single calls of the registry are atomic.
* **Stale sockets.** A packet holds the address of a socket. The connection may be
  closed, and the address given to another, before the worker uses it.
* **Sleeping.** The queue must not lose a wakeup, and its destructor must wake and
  join a consumer that sleeps.
* **Two statements instead of a transaction**, for message identifiers, tokens,
  signups, friend requests and friendships.
* **Restarts.** The process ends in `exit(signum)`; tables survive, queues,
  sessions and half-run handlers do not.

What makes each part correct:

* registry: the index and the table agree, so that a disconnect removes the session
  of the socket that closed, and no other;
* queue: first in, first out, each item to one consumer, drained before a consumer
  ends, nobody left asleep;
* server: a user is online where the user's client is connected and is told so; a
  user goes offline only for a reason that concerns that user; every packet is
  handled; messages arrive in order, at the right client, and none that was stored
  is missed;
* identifiers: never issued twice, and in the order in which they are requested;
* accounts: what is stored is what the answers promise, a token that was handed out
  goes on working, no signup takes what another account holds;
* friendship: nobody is befriended without consent, both sides know it, and no
  request goes unseen.

`PROJECT.json` lists the hazards line by line.

## The modules

| module | models | refines / uses |
|---|---|---|
| `Maps` | insertion and erasure of `std::unordered_map` on functions | |
| `SessionRegistry` | what the registry promises: one table, user to socket, and the answer of every call | |
| `UserSessionManager` | the registry with reverse index and reference counts | |
| `SessionCalls` | the calls of its methods, with what they return and whom they send to | extends `UserSessionManager`, refines `SessionRegistry` |
| `WorkQueue` | what a worker's queue promises: a closable FIFO | |
| `ThreadSafeQueue` | the queue at the grain of its mutex and condition variable | refines `WorkQueue` |
| `Messenger` | what the server is to clients that behave: each user at one connection, an inbox for each connection | |
| `BingoServer`, `MCBingoServer` | event loop, workers, handlers of sessions and chat, table of messages | extends `UserSessionManager`, refines `Messenger`; its queues are those of `WorkQueue` |
| `MessageIdService` | what a client is promised of an identifier: one answer, fresh and larger than those given before it asked | |
| `MessageIdCounter` | the counter of message identifiers | refines `MessageIdService` |
| `MutualConsent` | what befriending promises: one has asked, the other has agreed, both become friends, the one who agreed first | |
| `Friendship`, `MCFriendship` | the tables of requests and friendships, and the handlers that change them | refines `MutualConsent` |
| `Accounts`, `MCAccounts` | the tables of users and tokens, and the handlers that change them | |
| `UserSessionManager_proofs`, `SessionCalls_proofs`, `ThreadSafeQueue_proofs`, `MessageIdCounter_proofs`, `Friendship_proofs`, `Accounts_proofs` | the theorems about the module named | |
| `BingoServer_proofs` | the theorems about the server that need no condition on its clients | extends `UserSessionManager_proofs` |
| `OrderlyClients_proofs` | the theorems about the server with clients that wait for their answers and log in as one user | extends `BingoServer_proofs` |

Definitions have the names of the code where there is one: `attach_session`,
`remove_session_by_ws`, `wait_and_pop`, `process`, `login_request`. Where a function
is several steps, each step is an action. Definitions with a suffix
(`TakeOver_StaleIndex`) are mutants: plausible bugs no specification uses, each
defined beside the action it would replace, to show which property notices it.

**`UserSessionManager`.** `sessions` is `_sessions` without the user name (only
printed); `ws_index` is `_ws_index`. Every method holds `_mtx` from its first line
to its last, so it is one action. `attach_session` is `NewSession` or `TakeOver`, the
two branches of the code. Sockets are addresses: the class never looks behind one
except to send, and `Kicked` and `DeliveredTo` say which addresses it sends to. The
constant `SharedSocket` says whether clients log a second user in on a socket that
still serves a first one. The code does not forbid it; several facts hold only when
it does not happen.

**`ThreadSafeQueue`.** `pc` says where each thread is; taking the mutex, each access
to `_queue` under it, releasing it, sleeping and notifying are separate steps.
`wait_sleep` releases the mutex and joins the sleepers in one step, which is what
`std::condition_variable::wait` guarantees, and `spurious_wakeup` is what it does
not exclude. `read_front` and `erase_front` are two steps, so that the lock, and not
the grain of the model, keeps them together. A notification wakes any sleeper.

**`BingoServer`.** The places a worker can be at (`Place`) are the calls between
which a handler can be overtaken:

| packet | steps |
|---|---|
| login, reconnect | `login_request` or `reconnect_request` (query), `login_attach` (registry, kick), `login_response` (send), `get_chat_messages` (query), `send_history` (send) |
| logout | `logout_request` (registry: online?), `logout_remove` (registry), `logout_response` (send) |
| chat | `chat_message` (insert), `send_to_user` (registry, send) |
| unknown | none: logged by `process` |

Every query may fail, with what the handler does then. `conn_at` gives the connection
at each address now; `Reached` turns addresses into the connections a send reaches.
The clients' side (`told`, `live`, `hist`, `synced`) records what they were sent, so
that properties can speak of what a client knows. `exit` ends the process at any
point, with everything in memory, and starts it again. `Clients` maps this to
`Messenger`: the open connections are `present`, the connection at the address of a
user's session is the user's `place`, and `live` is the `inbox`; addresses, queues,
workers and handlers are gone.

**`MessageIdCounter`.** The UPDATE and the SELECT are two actions of a worker; either
may fail, the UPDATE also after it took effect. `last_insert_id` belongs to the
connection of a worker. Identifiers above `MaxMessageID` fail as the conversion to
`unsigned int` does, and `FailedID` is `-1` as an `unsigned int`.

**`Friendship`.** `friend_request` is the table in the order of its identifiers,
`friendship` the other table as a set of rows (a row stored twice is one element).
Each statement is an action, and each may fail, with what its handler does then: a
request is pushed in any case, a response stops. `fail_response` is the `catch` of
`friend_req_response`. The registry is reduced to the device a user is reached at,
for `UserSessionManager` models the rest of it, and the login to its list of pending
requests. A packet may be handled after its connection has closed; that a login is not
over when the same device connects again is left to `BingoServer`. Two variables are
history: `accepted` holds who accepted whom, `cut` which acceptances were stopped by an
error or by the end of the process.

| packet | steps |
|---|---|
| request | `has_pending_friend_request` (query), `insert_request` (insert), `send_to_user` (registry, send) |
| response | `update_request` (update), `select_request` (query), `insert_friend`, `insert_mirror` (inserts) |
| login | `attach_session` (registry), `get_pending_friend_requests` (query), `send_pending` (send) |

* `BefriendedByConsent`: a row of `friendship` names a request between the two users
  whose receiver has accepted.
* `AcceptedMeansFriends`: an accepted request has both rows, under one identifier,
  unless its handler is at work or was cut short. Then it never gets them by itself:
  the code has no transaction and nothing looks for what is missing.
* `NoRequestMissed`: once a login is done, the device has seen every request that is
  pending, in the list or by a push.

A request stored between the UPDATE and the SELECT of an answer is fetched by it and
stays pending: two users can be friends with a request still pending between them.
The model has this state; it contradicts no promise of the code.

**`Accounts`.** `user_credentials` is the table in the order of `user_id`,
`auth_tokens` the other table as a set of rows. A worker's handler is one record:
where it is, the request, and its locals (the user found, the checks a signup has
passed, the profile an update has read).

| request | steps |
|---|---|
| signup | `check_exists` (a query for each of username, email, phone), `insert_user` (insert) |
| login | `select_user`, `select_token` (queries), `insert_token` (insert) |
| change of password | `select_password` (query), `update_password` (update), `change_password_response` (success, or that the password must be different) |
| update of profile | `select_profile` (query), `update_profile` (an UPDATE for the columns that differ), `update_profile_response` (success), `get_user_profile` (query, after the answer) |
| either, after an error | `error_response` |

The schema is not in the repository, so the columns with a unique key (`Keyed`) are a
constant: the theorems hold for every choice. `fail` is a statement that fails before
its effect; the actions of writing statements also have the outcome that it took
effect and its result was lost. `change_password_request` and
`update_profile_request` catch what a statement throws and go on to `error_response`;
`signup_request` and `login_request` do not, and `process` only logs: `NoAnswer`.

The answer to a change or an update is a step of its own: the handler returns from the
last statement before the answer is sent, and another worker may store something in
between. The histories say what the answers sent so far have told the clients.
`passwords` and `profiles` hold, for each user, an entry for every request that is over
and whose value may still be stored. The entry remembers the workers that have taken a
request of its kind since it was over and are still at it (`since`). When one of those
succeeds, the entry goes: its value was gone before that answer, whatever is stored
now. An entry of a request that ran beside it stays, because the other UPDATE may have
been the later one although its answer was the earlier. An error tells nothing, so it
only adds an entry. A restart makes entries of all that was open. `given` holds the
tokens that were sent, `overlapped` the users of whom two workers handled logins at
once, `silent` the requests that were never answered.

* `ClientKnows`: the stored password is that of an entry or of an open request, and
  every field of the stored profile is. There is no exception for requests that run
  side by side. An update sets the columns that differ from the row *it* read, so two
  of them can store a mixture of both; the property allows that mixture, and nothing
  that either was sent to replace. A simpler history, which a success narrows to its
  own value, is wrong, and TLC shows it: one worker updates, a second updates and
  answers, then the first answers.
* `GivenTokenWorks`: a token that was sent is the only one of its user.
  `reconnect_request` fetches any row of the user, so with two rows a valid token may
  be refused. Two first logins that overlap store two, and the property exempts them.
* `SignupTakesFree`: a signup takes no username, email or phone of an account that
  was there when it was taken, except of one whose profile was updated since: an
  update looks for no other holder. Two signups side by side are no exception, for
  neither was there before the other; that both may take one name is what
  `account_race` shows the consequence of.

## The runs

`tlc -config X.cfg M` with the pairs below; all states are explored.

| run | module, config | question | distinct states |
|---|---|---|---|
| `registry_calls` | `SessionCalls`, `_refines` | three users, three sockets, no shared socket: is every active socket indexed, does every call answer as the plain table would? | 478 |
| `queue` | `ThreadSafeQueue`, `_fair` | two producers, three consumers, two items: no lost wakeup, atomic pop, refinement; every item is taken, stop ends every consumer | 41 948 |
| `server_sessions` | `MCBingoServer`, `_sessions` | who is online, where, and what the clients know; refinement of `Messenger` | 252 288 |
| `server_chat` | `MCBingoServer`, `_chat` | messages and history; refinement of `Messenger` | 968 808 |
| `server_live` | `MCBingoServer`, `_live` | clients that log in as anybody on one socket, send malformed packets and leave early: types, `IndexSound`, `StaysOnline`; every packet is handled | 222 830 |
| `server_ghost` | `MCBingoServer`, `_ghost` | does a disconnect end the session? **violated** | |
| `server_kick` | `MCBingoServer`, `_kick` | does a replaced client know it? **violated** | |
| `id_counter` | `MessageIdCounter`, `_counter` | identifiers unique and ordered; refinement of `MessageIdService` | 230 868 |
| `friendship` | `MCFriendship`, `_tables` | consent, both sides of a friendship, no request missed; refinement of `MutualConsent` | 1 021 298 |
| `friend_twice` | `MCFriendship`, `_twice` | is a pending request stored once? **violated** | |
| `accounts` | `MCAccounts`, `_tables` | what is stored and what clients were told, tokens, fields that are looked for | 2 102 976 |
| `account_race` | `MCAccounts`, `_race` | is every signup answered? **violated** | |

`CHECK_DEADLOCK FALSE` is set where the system really may stop: every item has been
handled and every consumer has ended, or every client has sent and closed all that
the bounds allow.

### Conditions under which they hold

Two constants state how clients behave, and the difference between runs is part of
the result.

* `ClosesEarly = FALSE`: a client waits for the answers to its packets before it
  goes away (the process may still end at any time). `NoGhostSession`,
  `HolderIsTold`, `NothingMissed` and `SeenByOwnerOnly` hold for such clients. For
  others, `server_ghost` shows the session that is left behind, and a message may go
  to the next connection at the same address. `IndexSound`, `StaysOnline`,
  `EveryPacketHandled` are checked with `ClosesEarly = TRUE`.
* `Account`: the users a client logs in as. With one account for each client
  (`TwoDevices`: one user on two devices, another user on a third), no socket is
  ever shared, and `IndexComplete` holds in the composition. With `SharedDevice`,
  where one client logs in as any user, it does not: a second login on a socket
  overwrites the entry of the first user, whose session stays, and the close of the
  socket then removes the second user only. `IndexSound` and `StaysOnline` hold all
  the same.

`OrderlyClients_proofs` names the two together `Orderly` and proves what needs them;
`BingoServer_proofs` proves the rest without them.

### What the violated runs say of the code

1. `server_ghost`: *"if user disconnects, destroy the session"* (src/server.cpp:90).
   If the connection closes while its login is queued or waiting for the database,
   there is no session to destroy yet; the worker then attaches the closed socket.
   The user stays online there until a logout or another login.
2. `server_kick`: *"it is forcibly logged out and replaced, atomically"*
   (src/handlers/LoginRequestHandler.cpp:40). The kick is sent under the lock, the
   login response is not. The response to the login that was replaced can follow the
   kick: in the end both clients were told that they are logged in.
3. `friend_twice`: *"already have pending friend request"*
   (src/message_handler.cpp:421). The query and the insert are two statements: two
   devices of one user, on two workers, store the same request twice.
4. `account_race`: *"if successful returns user id else returns error code"*
   (src/message_handler.cpp:243). Two signups for one username both pass the look for
   it. If the column has a unique key, the second insert (line 296) throws;
   `signup_request` has no `try`, `process` logs what it throws, and the client is
   never answered. Without a key two accounts have the name.

### Bounds

* Registry: a step involves at most two users and two sockets (the one attached and
  the one kicked); three of each leave room for a bystander.
* Queue: two producers, three consumers: a notification can go to any of several
  sleepers, a consumer that is awake can take what another was woken for, and `stop`
  has several to wake. Two items can be in the queue together.
* Server: two addresses and three connections, so that addresses are used again; two
  workers, one for each address, so that two devices of one user are served side by
  side; `MaxPackets` packets for each connection, two where a client logs in and then
  logs out or chats; `MaxExits` restarts, one, after which the third connection is
  new. The remaining counters (`sent`, `exits`) exist for these bounds. `server_chat`
  uses that the two devices of one user, and the two addresses together with their
  workers, can be swapped: nothing in the model orders them.
* Identifiers: two workers and twice as many requests; `MaxMessageID` small,
  so that the counter runs over it.

* Friendship: two users, one of them with two devices on two workers, so that a
  request or an answer comes from both at once; four packets are two requests and two
  answers, or a request, a rejection, a request again and an acceptance, with logins
  in place of any; one restart. Two packets suffice for `friend_twice`.

* Accounts: two workers, so that any two handlers interleave at each statement; two
  values for each of two fields, so that a field is free, taken, or freed by an
  update; two users; four requests, enough for two signups followed by two requests
  for the same account, or for a signup that meets an update; one restart.
  `accounts` has the key on the field that is not the username, so that names can be
  taken twice; `account_race` has it on the username and no other failure of the
  database. Workers, values, passwords and tokens are symmetric: no property or
  action tells two of them apart.

### Fairness

* Queue: a thread that can step does (`WF`), and a consumer that waits for the mutex
  gets it (`SF`): critical sections are a few instructions, and the mutex of the
  platform does not starve a waiter for ever. Producers need not call `enqueue`, nor
  the destructor `stop`; once called, both finish. No sleeper is assumed to wake by
  itself.
* Server: each worker steps if it can (`WF` for each worker): threads are scheduled
  and a query returns, with a result or an error. No client is obliged to anything.

## The theorems

Each is proved for any constants that satisfy the named assumptions.

| theorem | property | from |
|---|---|---|
| `UserSessionManager_proofs!TypeCorrect`, `IndexNeverMisleads` | `ManagerTypeOK`, `IndexSound` | `SharedSocketAssumption` |
| `UserSessionManager_proofs!ActiveSocketsIndexed`, `SessionCalls_proofs!RegistryImplemented` | `IndexComplete`, `ImplementsRegistry` | `SharedSocket = FALSE` |
| `ThreadSafeQueue_proofs!TypeCorrect`, `Mutex`, `PopIsAtomic`, `WakeupsReach`, `StopReaches`, `WorkQueueImplemented` | `TypeOK`, `MutualExclusion`, `PopsWhatItRead`, `NoLostWakeup`, `NobodySleepsThroughStop`, `ImplementsWorkQueue` | `ThreadAssumption` |
| `MessageIdCounter_proofs!TypeCorrect`, `UniqueIds`, `OrderedIds`, `ServiceImplemented` | `TypeOK`, `NeverIssuedTwice`, `IssuedInOrder`, `ImplementsService` | `CounterAssumption` |
| `Friendship_proofs!TypeCorrect`, `ByConsent`, `AcceptancesTakeEffect`, `RequestsShown`, `ConsentImplemented` | `TypeOK`, `BefriendedByConsent`, `AcceptedMeansFriends`, `NoRequestMissed`, `ImplementsConsent` | `FriendshipAssumption` |
| `Friendship_proofs!OncePinned` | `OnePendingRequest` | and `UserPinned` |
| `Accounts_proofs!TypeCorrect`, `ClientsKnow`, `TokensWork`, `SignupsTakeFree` | `TypeOK`, `ClientKnows`, `GivenTokenWorks`, `SignupTakesFree` | `AccountsAssumption` |
| `Accounts_proofs!SilentWhenOvertaken` | `OvertakenOnly` | and `KeysLookedFor` |
| `Accounts_proofs!AnsweredAlone` | `SignupAnswered` | and `KeysLookedFor`, `OneWorker` |
| `BingoServer_proofs!ServerTypes`, `RegistryTypes`, `RegistryIndexSound`, `OnlineUntilOwnEnd`, `MessagesInOrder` | `ServerTypeOK`, `ManagerTypeOK`, `IndexSound`, `StaysOnline`, `PushedInOrder` | `ServerAssumption` |
| `BingoServer_proofs!ImplementsManager` | `ManagerSpec` | `ServerAssumption` |
| `OrderlyClients_proofs!NoGhosts`, `ServerIndexComplete`, `HoldersTold`, `OwnersOnly`, `MessagesSeen`, `MessengerImplemented` | `NoGhostSession`, `IndexComplete`, `HolderIsTold`, `SeenByOwnerOnly`, `NothingMissed`, `ImplementsMessenger` | `ServerAssumption`, `Orderly` |
| `OrderlyClients_proofs!OneClientAlone` | `OneClientPerUser` | and `SingleWorker`, `NoLogouts` |

**Registry.** `ManagerInv` is the types with `IndexSound`: neither is inductive
without the other, for a disconnect looks up the session of an indexed user, and a
reference count above one would keep a session whose entry is gone. If no socket is
shared, `ExactInv` adds `IndexComplete` and that no two users have one socket, which
is what makes the removal of one user the removal of all users at that socket: the
step the refinement needs. The refinement compares answers too (`reply`): without
them a table that forgot a user for no reason would look like one that handled a
logout.

**Queue.** The invariant adds to the types that whoever is in a critical section
holds the mutex, which gives `PopsWhatItRead`; that a consumer that pops sees a
queue that is not empty or stopped; and, for the wakeups, that a non-empty queue
with a sleeper has somebody on the way. The refinement maps a queue whose front has
been read to its tail: an item leaves the abstract queue when `read_front` copies
it, and `erase_front` is a stutter.

**Identifiers.** The inductive invariant says that what a worker read is at most
`value`, that no two workers between their two statements hold one number, that
no answer equals a number still held, and that a held number is above all answers
given before its request was begun. With it every `select` or `fail` that answers is
the `Reply` of the service, `begin` is `Ask`, and what is between the two, restarts
too, is a stutter.

**Friendship.** `ByConsent` adds to the property that a worker about to insert holds
an identifier of an accepted request. `AcceptancesTakeEffect` needs to know who is
responsible for each accepted request that lacks a row: a handler at
`select_request`, `insert_friend` or `insert_mirror` for it, or an entry of `cut`; and
that the second insert finds the first row there. `RequestsShown` speaks of the list a
worker has read and not yet sent: while a user is reached at a device, the list, what
the device was shown, and the pushes on their way cover the pending requests. A
login, the only step that changes where a user is reached, discards what was known.
`ConsentImplemented` needs that the two users of a request at work differ
(`Strangers`); an insert of `friendship` is then a `Befriend`: the request behind it
was accepted, by the invariant of `ByConsent`, and the second insert finds the first
row, by that of `AcceptancesTakeEffect`.

**Accounts.** `ClientKnows` is not inductive: a success that is about to be answered
will take entries away, and the property does not say that the stored value is not
among them. `PasswordStands` does: the stored password is asked for by an open
request, or has an entry that no worker at `change_password_response` has in its
reach (`since`). A worker gets there by finding or storing its own password, which
then is that of an open request; all entries are safe from its answer but for what
came before it. `FieldStands` says the same of each field of a profile. There a worker
threatens entries as soon as it has read the field as what it asks for, for then it
will not set it (`UpdatedField`). With these two, `ClientsKnow` needs no condition on
how requests overlap. `TokensWork` keeps that a user without overlapping
logins has at most one token, and none while a login is at `insert_token`.
`SignupsTakeFree` keeps, for each signup on its way, that the fields it has checked
are not held by any account that was there when it was taken and was not updated; the
part of the check that is done grows with `checks`.

**Server, any clients.** `AddressOK` says that an open connection is at exactly one
address. With it every step of the server is an operation of the registry or leaves
it alone (`ImplementsManager`), so the registry's invariant holds in the server, and
`StaysOnline` follows: the close of a socket ends the session of the user the index
names, who by `IndexSound` is reached there. `MessagesInOrder` follows the packets of
a connection: all that are still on their way are with one worker (`OneWorker`, for
the connection never changes its address), in the order they were sent
(`QueueOrdered`, `HeldFirst`), and what was pushed was sent before them
(`PushedBefore`).

**Server, orderly clients.** `OwnersInv` is three facts that need each other: a packet
on its way belongs to an open connection; a session is held at the address of an open
connection of its user; the index is complete. A close finds the session at its
socket by the last, and leaves none behind; a login attaches at an address that is
still its own by the first, where by the second nobody else is online, which keeps
the last. On it rest the other theorems: a worker knows that what it sends reaches
the client that asked. `HoldersTold` adds that between the removal of a session and
the logout response nobody is attached at that address, since its worker is the one
busy with the logout. `MessagesSeen` is the argument of `RequestsShown` for messages.

`MessengerImplemented` uses most of what is above it. A close is `Leave` of one
connection and of the user there alone: the registry forgets whom the index names, who
is the owner. A login is `LogIn` at a connection of that user which is still open. A
push is `Deliver` to the one connection at the address of the receiver's session
(`AddressOK`), in line by `MessagesInOrder`. A restart is `Leave` of all. Everything
else a worker or the event loop does, queries, waits, answers and histories, is a
stutter.

### What the violated runs depend on

Three of the four violated runs show a race of two workers. A theorem for each says
under which conditions the race is the whole cause. The pool has as many workers as the machine has
hardware threads, at least one (src/server.cpp:15-18), so a server with one worker
is a server of this code; there the checks of the code are enough.

* `OncePinned`: if one worker serves all devices of a user (`UserPinned`), no request
  is pending twice. What the query found free stays free until the insert
  (`FreeWhenInserted`), because only requests of that sender could change it and they
  wait in the same queue. Other users may be served by any worker.
* `SilentWhenOvertaken`: for any number of workers, the first signup without an answer
  found, between its look for a value and its insert, that a later signup or a profile
  update had taken it. `AnsweredAlone`: with one worker there is none.
  `KeysLookedFor` says that no statement fails but for a key and that every key is on
  a field `signup_request` looks for. Without the first half any failing statement
  leaves a signup unanswered, and without the second a key it never looked at does.
* `OneClientAlone`: with orderly clients and one worker, a client that is replaced
  knows it. The kick and the login response of one login are both sent before the next
  login attaches; so a client that believes it is logged in is where its user is
  reached (`ToldReached`). `NoLogouts` is needed: a logout ends the session of the user
  it names, from whatever device it comes (src/handlers/LogoutRequestHandler.cpp:38),
  and the client that held the session is not told; after another login two clients
  believe they are in, with one worker too.

`server_ghost` needs no second worker, only a client that leaves early; `NoGhosts` is
the theorem for the others.

## What the properties leave out

Some hazards of the code are real and are not forbidden by any property, because the
code does nothing against them; the property that is nearest exempts them. PROJECT.json
lists each with its line.

* Two users on one socket (src/user_session_manager.cpp:48): `IndexComplete` and
  `ImplementsRegistry` are false there, and are checked and proved without it.
  `IndexSound` and `StaysOnline` hold in spite of it.
* A packet still queued when its connection closes (src/server.cpp:102): its answer may
  reach the next client at that address. `SeenByOwnerOnly` and `ImplementsMessenger`
  are false with `ClosesEarly`, and are checked and proved without it.
* All failed requests for an identifier get the same number
  (src/message_handler.cpp:939): `NeverIssuedTwice` speaks of the others.
* Two first logins of one user at once (src/message_handler.cpp:199): exempted by
  `overlapped`.
* An acceptance cut in half (src/message_handler.cpp:483): exempted by `cut`.
* An update of a profile takes a value that somebody has
  (src/message_handler.cpp:804): `SignupTakesFree` leaves updated accounts out.
* Two signups at once for one value that is no key: neither was there when the other
  was taken. With a key, `account_race` shows the second unanswered.

## Only model-checked

Liveness (`EveryItemTaken`, `StopEndsConsumers`, `EveryPacketHandled`) depends on
fairness, and stays with TLC. Every invariant and action property of a passing run is
proved.

## Assumed of what is outside src/

* `std::mutex`, `std::condition_variable`: as their specification says, with
  spurious wakeups.
* `LAST_INSERT_ID()` belongs to a connection of the database; a statement takes
  effect atomically or fails; the failure of a statement may be reported after it
  took effect.
* uWebSockets calls `open` once, `close` once, and `message` between them, all on
  one thread. A closed socket's address may be given to a new connection.
* A send to a closed socket is undefined behaviour (the memory is freed). The model
  has three of its outcomes: nothing, the connection that has the address now gets
  the payload, or the process ends.

## Not modelled

| part | why |
|---|---|
| search (`search_user_request`) | reads tables and changes nothing. For each user found it shows the state of the newest request from the searcher to that user, never of one received; no text says what the three states mean for a request that was received, and the order rests on a `timestamp` column the repository does not define |
| profile and list of friends at login | reads nothing depends on |
| two chat messages with one identifier | the identifier comes from the client; `MessageIdCounter` shows that the ones the server issued differ |
| what the device of a user does with a friend request it has seen | the client is not in the repository |
| parsing, responses, configuration | pure conversions without state; a packet that cannot be converted is the type `unknown` or the failure of its handler |
| log, time, debug printing | output only; their data races touch only what is printed |
| the text of tokens | `insert_token` stores any token, also one another user has: that covers what the unsynchronised generator can produce |
| the authenticator | nothing calls it |
| uWebSockets, nlohmann/json | vendored: about 34 000 of the 39 000 lines under src/. The server's own code is about 4 700 lines, blanks and comments included, and what is left of it after the parts above is modelled |

The plan of the project is done: registry, queue, server, identifiers, friendship and
accounts are modelled, checked and proved, and the server, the identifiers and the
friendships are shown to implement what they promise. What could still be added needs
the schema of the database (which keys are unique, how a search orders requests) or the
code of a client.
