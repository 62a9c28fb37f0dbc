# A verification project for SimpleChatSystem

TLA+ models of the chat server in `src/server/code`, of the admin console in
`src/client/admin_client` and of the chat client in `src/client/chat_client`,
model-checked with TLC, with theorems checked by TLAPS. `src/README.md` is a
title only; the reference is the code, and `src/architecture/` draws the
components and the bus.

## 1. The system

One server process and two kinds of clients. The components of the server share
no state: they talk through an event bus, whose threads run their handlers.

| component | state | operations | model |
|---|---|---|---|
| event bus (`event_bus/`) | `event_receivers`, each receiver's `events`, `event_to_receivers_map`, `event_async_queue`, three mutexes | `AddReceiver`, `RemoveReceiver`, `Subscribe`, `Unsubscribe`, `SendSync`, `SendAsync`, the dispatcher `Cyclic` | `PubSub`, `EventBus` |
| websocket server (`websocket_server/`) | `val_map`, `conn_user_map`, `usernames`, a mutex each; the sessions of websocketpp | validate, open, fail, close and message handlers; `DisconnectUser` from the bus | `WebsocketServer` |
| client manager (`client_mgr/`) | `user_timeouts`, `users`, a mutex each | handlers of OPENED, CLOSED, NEW_MESSAGE and GET_USERS; a sweep each second that sends DISCONNECT_USER | `ClientMgr`, `ChatServer` |
| REST server (`rest_server/`) | none | `get_users` (GET_USERS, synchronous), `kick_user` (DISCONNECT_USER, asynchronous) | `ChatServer`, `RestWire` |
| logger (`logger/`, `file_handler/`) | the current file name, files of the past | handler of NEW_MESSAGE; hourly rotation | `Logger` |
| database manager (`db_manager/`) | an SQLite table | opens, creates the table; handler of NEW_MESSAGE: one INSERT | `DbManager` |
| process (`main.cpp`) | the objects above | constructs and subscribes all, then starts their threads | `Startup` |
| admin client (`admin_client/`) | the last list of users | lists, asks for a name, kicks, in a loop | `ChatServer`, `RestWire`, `Trim` |
| chat client (`chat_client/`) | a name, a connection, a window | joins, speaks, asks again when the connection is lost | `ChatClient` |
| wire format (`protobuf/`) | fields, has-bits, sizes, users kept for later use | the generated classes | `RecordLists`, `Messages`, `MessageObjects`, `RestWire` |

Who sends what to whom:

    websocket server --OPENED, CLOSED--------> client manager
                     --NEW_MESSAGE-----------> client manager, logger, database
                     --FAILED----------------> nobody
    client manager   --DISCONNECT_USER-------> websocket server
    REST server      --DISCONNECT_USER-------> websocket server
                     --GET_USERS (waits)-----> client manager
    admin client     --HTTP, protobuf--------> REST server
    chat client      --websocket-------------> websocket server

### What is hard here

* *The bus.* Two shared mutexes that are nested in two calls, and two maps kept
  under one of them each. Correct: no deadlock, no send to a receiver that has
  gone, each event handled once by those who are subscribed.
* *Order.* `SendAsync` gives the event to the dispatcher, which starts a
  detached thread for each one: events about one user, sent in order, are
  handled in any order. Correct: the client manager's tables follow the
  connections when order is kept, and recover.
* *Check and act.* A name is checked when a handshake is validated and
  recorded when the connection opens. Correct: one connection per name.
* *Missing locks.* `DisconnectUser` walks `conn_user_map` without its mutex, so
  that the walk may miss the user, and closes a connection by a copy of its
  handle, which may have gone; `localtime` returns a buffer that the logger
  shares with every message.
* *Exceptions.* websocketpp throws when a session that is not open is sent to
  or closed; nobody catches, and `std::terminate` ends the process. Correct:
  that happens in known windows only.
* *Stale copies.* The broadcast loop, the sweep and the console work on
  snapshots. A kick names a user, and meets whoever has the name by then.
* *Failures nobody looks at.* Return codes of files, SQL and HTTP are dropped.
  Correct: what they would have told, and what the failure leaves behind.
* *Statements made of text.* The values of a row are put into the INSERT as they
  are, apostrophes included. Correct: the return code tells what is stored, as
  long as no text has made another statement.
* *Time.* The log is rotated by sleeping hour after hour, without a look at the
  clock, by the hours of UTC, while the name has the hour of local time.
  Correct: the file has the name of the hour, but for a few seconds, and for
  the difference of the two where that is not of whole hours.
* *One connection object, many threads.* Each Join of the chat client starts
  another thread on the one `WebSocketApp`. Correct: name and window tell the
  truth about the connection.
* *Bits beside values.* The generated getters ignore the has-bits, and cleared
  objects are used again. Correct: a list of records, and nothing else.

`PROJECT.json` lists each hazard at its line with the properties that watch it,
and says why of those that no property watches.

## 2. The modules

Names of variables and actions are those of the code. An action is a handler,
or the part of one between two points where another thread can act. Where a
handler is split, the comment says why. Definitions with `_mutant` in their
name are plausible bugs, used to see that the properties notice them; no
specification uses them. What a module needs for the properties only is
called history in its list of variables.

### PubSub: what the bus promises

`subscribers`, and for each event object a `status` and the receivers `pending`.
A send is matched at one instant with the receivers subscribed at that
instant; each of them handles the event once; then, and not before, the
send returns. It promises no order between events.

### EventBus: how the bus does it

A *post* is one call of `SendSync` or `SendAsync`; its program counter is that
of the thread that runs `SendSync` for it. An *owner* makes the registration
calls about one receiver in turn. `SendSync` and `RemoveReceiver`, which hold
one mutex while they lock another, are split at each lock; `Subscribe` and
`Unsubscribe`, which let go of one before they take the other, are split
there. The dispatcher is `CyclicPop` and `CyclicEmit`: between them the event is
in a local variable only. Each receiver of a send has a callback thread
(`SpawnCallback`, `CallbackReturn`) that may end before the loop does.

main subscribes everybody before anything runs and never removes anybody. The
model does not use that: it is about the class, whose interface allows all of
it at any time. What is assumed of callers: one thread per receiver makes its
registration calls. Callbacks are taken to call nothing but sends. Allocation
of threads does not fail.

`ImplementsPubSub` is the refinement: `subscribers` is the bus's map, `pending`
what is in the loop or running, and a send is matched when it has both mutexes.

### WebsocketServer: who is connected

websocketpp calls the handlers from the one thread of `srv.run()`, so a handler
is one action, however many mutexes it takes in turn, as nothing else takes
them. `MessageHandler` is split at each send of its loop, since
`DisconnectUser` runs on a thread of the bus and closes sessions meanwhile. Its
walk begins (`DisconnectUser`) and meets an entry of the name, whose handle it
copies (`DisconnectUserFound`), or none (`DisconnectUserMissed`). When
`conn_user_map` has changed since it began (`raced`), it may do any of these
whatever the map holds, meet an entry that was erased meanwhile, or end the
process (`DisconnectUserTorn`): the outcomes of a data race on a red-black tree.
What it has found is closed in a step of its own, between which and the walk
everything may happen: `CloseConnection` if the session is still open,
`CloseConnectionThrows` if it is closing or has gone.

External, from how the code uses it: a session's state (`session`); validate is
called once, then open or fail; close is called once after open; `send` and
`close` throw unless the session is open; `remote_endpoint` throws when the
socket is not connected. An exception ends the process (`outcome`).

History: `posted` and `broadcast` (what the bus was told, per connection and of
messages), `joined`, `overlapped`, the names that two handshakes had claimed at
once since the name was last free, and `left`, who left the map since the walk
of a request began; this one is also what a torn walk may still meet.

### ClientMgr: who is listed and who must go

Every event is handled on a thread of its own: `log` is the order in which
events were sent, `progress` how far the handler of each has come, and any
handler may take its next step. The handlers of OPENED and CLOSED are two
actions each, one per mutex. `users` maps a listed name to the event whose
`User` the set holds, with its address and time of joining: `set::insert` keeps
an older one. The sweep is a snapshot, a check of each entry in any order, a
sleep to the next second. Time stamps are kept as their age up to `Timeout`, so
time needs no bound. The websocket server is what `WebsocketServer` establishes
of it: for one name, opened, messages, closed, one connection at a time
(`OneAtATime`). A name with two connections at once (`overlapped` there) is not
considered here. `DisconnectUser` is there step by step, as it is what the
sweep's requests come to: the walk (`Walk`), which is torn when anybody joins or
leaves, users of the model or strangers (`StrangerComesOrGoes`), the handle that
was found, which may expire, and the close, after which the close handler is
still to come (`closing`). A close that throws, and a torn walk, may end the
process (`Ends`, `running`); so may requests from elsewhere (`EndsOtherwise`).
Nothing goes on after that.

History: `idle` (since a user last joined or spoke), `inverted` (a handler of
the user was outrun in a table by that of a later event of the opposite
effect, since the user last joined with all its events handled), `misled` (the
same in the list, and until the user joins with all its events handled and is
not listed) and `raced` (the user acted when the sweep could not see it).

### ChatServer: the administrator's view

It extends `ClientMgr` with the REST server and the console in front of it: the
request for the list, the synchronous event, whose handler copies `users` on a
thread of its own while all others run, the answer, the name that is typed,
listed or not, and the asynchronous event that closes whoever has the name when
it is handled, by the same walk as the sweep's requests, but once: a walk that
misses the user is not repeated. Requests fail at any point, and for ever when
the process has ended. SendSync is taken for what `EventBus` shows it to be: it
returns when the one subscriber has handled the event. One console, which waits
for each answer; a request that failed for the client is dropped, for what the
server still does about it has no effect. History: `steady`, the users nothing
was under way about when the request came in, and who neither joined nor left
since.

### Logger

The thread (`InitCycle`, `SetCurrentLogName` in two parts, before and under the
mutex, `Sleep`, `Cyclic`) against a clock of ticks; the handlers of messages in
two parts, up to `ToString`, which calls `localtime`, and the write; `GetDate`
for the calls of `localtime` elsewhere. `tm` is the shared buffer with who
wrote it last. There are two clocks: `InitCycle` sleeps to the next full hour
of `time(nullptr)`, which is UTC, and the name has the hour of local time,
whose hours begin `Offset` ticks earlier (`Hour`); whole hours of difference
would only add to each name. `FileAppendOrWrite` may meet a fault: the file
does not open to append, and then opens to write, which truncates, or does not;
or it opens, and none of the text is written, or a part. A restart reads the
directory and starts the thread anew. An hour stands for the whole name of the
file, all of which is read from one `struct tm`. History: `late`, `borrowed`,
`owed`.

### DbManager

The file (`table`, `rows`) outlives the process. The constructor opens and
creates, with SQLite's answers; handlers insert, statement by statement, on
threads of their own. On a connection that did not open, `err_msg` is used
uninitialised: the process ends, or does not. A text with an apostrophe
(`Quoted`) makes another text of the statement: an error, or any valid statement
or several (`InsertRowForeign`), after which the table has another row, or none
is left, or there is no table, or all is as it was, whatever the return code.
History: `foreign`, whether that has happened.

### Startup

`main` as the sequence of its calls on the bus and of `run`s, against the
threads that have been started, which send what they can. It has no
parameters: it is one program.

### ChatClient

Per press of Join one thread, through `run_forever` and its callbacks, which is
where the threads meet: `sock`, the header and the name of the one
`WebSocketApp`. Join itself is three steps on Dear PyGui's thread, the name,
the header and the start of the thread; `on_open` is two, the name that is
shown and the window that is deleted: threads of earlier Joins come in between.
External: `run_forever` raises when there is a socket (its test and the
creation of the socket are one step), gives the socket up before it calls
`on_close`, and calls `on_error` before; Dear PyGui runs the buttons one after
the other, and creates a window once. History: `crossed`, `late`.

### RecordLists, Messages, MessageObjects, RestWire, Trim: what is on the wire

`Messages` has the generated classes as operators: fields as values beside
bits, cached sizes, a `RepeatedPtrField` that keeps cleared users.
`RecordLists` is what one expects of them: objects that are lists of records,
where a record has the fields that were set. `MessageObjects` is a program that
calls the classes in any order. `ImplementsRecords` pairs each call with the
operation of its name: a clear leaves the empty list, a merge appends, a copy,
a constructed copy and what was serialized and parsed are the list of the
other, a swap exchanges, and an accessor sets, unsets or returns its field. A
call that does nothing where its operation does something is an error, too,
which is what the history variable `odd` is for: it makes such a call a step.
`RestWire` is what this program does with them: `Handler_GetUsers`,
`PrintUsers`, `KickUser` and `Handler_KickUser`, with `Trim` on the line that
is typed, and requests that fail (`PrintUsersFails`, `KickUserFails`). A
serialised user is the function from fields to values it encodes, behind its
length; only well-formed input is considered, which is what the two ends
exchange. The copies of the generated files in the server and in the console
are identical; the map names the one whose side uses the definition.

## 3. What is checked

`MC*.tla` hold the definitions TLC needs and the symmetry sets; runs of
temporal properties under fairness use none.

| run | instance | properties | states |
|---|---|---|---|
| `EventBus` | 2 receivers, 1 event, 2 posts of it | `TypeOK`, `NoWaitCycle`, `NoDanglingReceiver`, `MapWithinRegistry`, `ImplementsPubSub`, `SendsReturn`, `CallsComplete` | 77 000 |
| `WebsocketServer_safety` | 3 connections, 2 names, 2 messages, 1 request | `TypeOK`, `UniqueNames`, `NamesMatchConnections`, `MapsMatchSessions`, `EventHistory`, `BroadcastComplete`, `OneAtATime` | 209 000 |
| `WebsocketServer_disconnect` | 2 connections, 2 names, 1 message, 2 requests | `ThrowsOnlyWhileLeaving`, `DisconnectedLeave` | 189 000 |
| `ClientMgr` | 1 user, 2 openings, 1 message, timeout 2 | `TypeOK`, `TablesFollowConnections`, `ListedIsCurrent`, `OnlyIdleCondemned`, `IdleLeaves` | 298 000 |
| `ChatServer` | 1 user, 2 openings, timeout 1, 1 kick at a time | `AnswerIsRegular`, `KickedLeave` | 320 000 |
| `Logger` | 2 messages, 3 hours of 5 ticks, 1 tick off UTC, 1 tick late, 1 fault, 1 restart | `TypeOK`, `NameFollowsHour`, `TailKept` | 5 121 000 |
| `DbManager` | 3 messages, one with an apostrophe, 2 faults, 2 restarts | `TypeOK`, `ReturnsTellWhatIsStored` | 25 900 |
| `Startup` | main as it is | `NobodyMissesEvents`, `ReceiversAreTheirOwners` | 102 |
| `ChatClient` | 2 names, 3 joins | `TypeOK`, `NameShown`, `WindowFollowsConnection`, `AskedAgain` | 137 000 |
| `MessageObjects_lists` | 2 objects of up to 2 users, that have a name or not | `ImplementsRecords` | 2 500 |
| `MessageObjects_fields` | 2 objects of up to 1 user, a name and a number of two values each | `UnsetIsDefault`, `LengthsAgree`, `ImplementsRecords` | 8 600 |
| `RestWire` | 2 names, 2 rows of data, lines of up to 5 characters | `ScreenShowsTheList`, `AskedIsTyped` | 45 000 |

Why these bounds. The bus: a deadlock of two mutexes needs two threads; two
receivers and two posts of one event put a send against a removal, a
subscription and another send on the same entry. One event is enough for
liveness, and the safety properties and the refinement are proved for any
number of them. The websocket server: three connections are two of one name and
one that is not concerned, and one request tears and is torn; two connections
are enough where two requests give the second close of one session.
The client manager: two openings and a message are enough for a connection, its
successor, which heals what the first one left, and a handler that is outrun; a
timeout of two seconds tells "just now", "a second ago" and "expired" apart;
users meet in the sweep only, and its properties are proved for any number of
users. `MaxRequests` merges requests about one user beyond the first; that a
second one meets a user who has joined again is in the proofs only, and the
close that throws since another request came first is in `WebsocketServer` and
in `EndsOtherwise`. The chat server: a user who comes, goes and comes again
while the list is answered or the kick is under way; its bound lets the sweep
make no requests, which are the ones of the kick over again. The logger: three
hours are the first, which is not a full one, the first full one, and one whose
start shows what adds up; an hour of five ticks tells the tolerated ones from
the rest when one was late and local time begins one before UTC; two messages
are one that was there before a fault and one that meets it. The database: a
message that is stored, one that fails, and one that may do anything, with a
restart between. The chat client: a join, one that overlaps with it, and one
after both. The messages: two users are one that is kept and one that is new;
two values tell a copy from a merge that loses one; the fields of one kind
share their code, and so one of each kind is there. The REST wire has all four
fields, names and numbers that take several bytes, a name with a blank inside,
and a row of empty values.

What the properties say beyond their names is in the comment over each. Some
are worth pointing out, because they hold only with an exception that the code
makes necessary, and the exception is in the formula:

* `UniqueNames`, `NamesMatchConnections`: not for names that two handshakes
  claimed at once. Both get in; when one leaves, the other's name becomes free.
* `TablesFollowConnections`, `IdleLeaves`: not for users whose handlers were
  outrun. When the CLOSED of a connection is handled after the OPENED of the
  next, the user is connected, not listed, and never times out unless it
  speaks. When a NEW_MESSAGE or OPENED is handled after the CLOSED, a user who
  has gone is asked to be disconnected every second. Whether a user is listed
  and has a clock is right again after the next connection that finds all
  events handled. `IdleLeaves` also excepts the end of the process, and not a
  walk that misses the user: the sweep repeats it.
* `DisconnectedLeave`, `KickedLeave`: not when somebody joined or left during
  the walk. A walk that others have torn may miss the user; the kick is not
  repeated, and the console has said nothing of it. Nor when the process ends,
  or the request of the kick is lost.
* `ListedIsCurrent`, `AnswerIsRegular`: not for users who were misled. A ghost,
  left in the list by an OPENED that was handled after its CLOSED, keeps its
  address and its time of joining when the user joins again: `set::insert` does
  not replace it. That is right only once the ghost has been erased.
* `OneAtATime`: not for names that two handshakes claimed at once. It is what
  the client manager is modelled with.
* `ThrowsOnlyWhileLeaving`: an exception of websocketpp does end the process.
  `send` throws in the window between the end of a session and its close
  handler. `close` throws in that window, as when the sweep repeats its request
  a second later, and also when the close handler has run, but only if it ran
  since the walk that found the connection began: the walk does not keep it.
* `NameFollowsHour`: not when the hour was read from another thread's
  `localtime`. Not in the first second of an hour, nor in one more for each
  second that the thread has been late since the process started: it never
  catches up. And, in a zone that is not whole hours off UTC, not in the
  part of an hour (`Offset`) by which local hours begin before those of UTC, for
  these are the ones it sleeps by: the name is half an hour late in some zones.
* `ReturnsTellWhatIsStored`: not once an apostrophe has made another statement,
  which may return `RET_OK` and store something else, or remove everything.
* `TailKept`: a fault loses what was in the file, or the message that met it,
  not what comes after.
* `NameShown`: not when a Join was between its two writes, the name and the
  header, when the header was read, or wrote the name between that and the
  showing of it: the client is then connected as one and shown as the other.
* `WindowFollowsConnection`: not when the `on_close` of the last connection
  comes after the `on_open` of the next: the client is then connected behind a
  modal window that asks for a name.
* `AskedIsTyped`: of the last request that arrived; the console does not look at
  the result of `kick_user`.

`CHECK_DEADLOCK FALSE`: the processes of the websocket server and of the client
manager may have ended, and each handle of the first is used once; the bounds
end the runs of the logger and of the database manager, whose process may also
abort; the chat client may stand still when all joins are used up. The other
systems never stop: the console outlives the server it asks.

### Fairness

Fairness is weak, of what a thread does when it is able to, with one exception.
Every thread is a `std::thread` of its own, so one waits for others only at the
mutexes, which are in the guards. Bus: the dispatcher, the threads of posts,
callbacks (they return), and the second section of registration calls; nobody
is obliged to call. `SendsReturn` assumes that removals stop some time, since
`std::shared_mutex` does not promise a reader that writers will ever let it in;
in the other direction, finitely many posts stand for readers that do not keep
a writer out. Websocket server: the send loop, `DisconnectUser`, and the close
handler, as websocketpp ends a closing session after a timeout even if the peer
is silent; peers are obliged to nothing. Client manager: handlers, the sweep,
the passing of time, the steps of DISCONNECT_USER and of closes. Here is the
exception: a walk that has begun in peace also ends so if it may again and
again (`Scans`, strong fairness), which says that strangers do not join or
leave in the middle of every single walk, once a second, for ever; one walk in
peace is enough, and a walk takes microseconds. Chat server: the REST server's
threads, the DISCONNECT_USER of a kick and the close handler; the administrator
is obliged to nothing. Chat client: the threads of `run_forever`; not the user,
and not the server.

## 4. What is proved

For every value of the constants: every safety property that a run checks, the
action property `OneAtATime`, and both refinements, of `PubSub` and of
`RecordLists`. Assumptions are those named in the modules. They say that
constants that stand for "none" are not also something else, and that bounds
are numbers; `LoggerAssumption` also that the clock can reach the end of the
first hour and that the offset is less than an hour, `MessagesAssumption` that
the empty string is a text of length zero, `RestWireAssumption` that no user is
without a name, which is what the websocket server refuses. No theorem needs
constants to be finite. The inductive invariants are named below; every step
lemma goes action by action.

*EventBusProofs.* `IInv` adds to `TypeOK` and `NoDanglingReceiver`:

* `CallInv`: an owner inside Subscribe or Unsubscribe has a valid event id, and
  one inside Subscribe is registered and has the event in its own set: nobody
  else can remove it;
* `QueueInv`: the queue holds different posts, and these are queued ones;
* `MutexInv`: who holds which mutex, read off the program counters; an owner in
  the second part of a removal excludes sends in their sections;
* `RegistryInv`: `MapWithinRegistry`, for what can be read from the map;
* `DeliveryInv`: nobody is to be started or is running outside a delivery, and
  those to be started, those running and those who are done are disjoint.

`NoDanglingReceiver` is not inductive without `MutexInv` (a removal cannot be in
its second part while a send is in its loop) and `RegistryInv` (what the loop
reads from the map is registered), nor `RegistryInv` without `CallInv` (what the
second part of Subscribe writes). `NoWaitCycle` follows from `MutexInv` by an
order on the threads: one that has both mutexes waits for nobody, an owner at
the second mutex only for those, a send at the second mutex only for those two,
and so on. `BusImplementsPubSub` goes action by action.

*WebsocketServerProofs.* `IInv` adds to `TypeOK`, `MapsMatchSessions` and
`ThrowsOnlyWhileLeaving`:

* `AcceptedNamed`: who has been accepted has a name;
* `LoopInv`: whoever is still to be sent to is in the map, and nobody is when no
  loop runs;
* `NamesInv`: a name that is not overlapped has one claimant, handshake or
  connection, and `NamesMatchConnections`; `UniqueNames` follows;
* `WalkInv`: whose handle a walk has copied is in the map, or has left it since
  the walk began, and who has left is gone; with `LoopInv` and
  `MapsMatchSessions` this says for whom an exception can be;
* `HistoryInv`: `EventHistory` by session state, with the connection's name;
* `BroadcastInv`: `BroadcastComplete` by positions.

`MapsMatchSessions` carries the rest: operator[] never makes an entry, so each
event has the name of the connection, and a handle in the snapshot is open or
closing.

`ToldOneAtATime` is `OneAtATime`, from the same invariant: what the bus is told
about a name, over all connections that have it one after the other. Each step
about a name has the guard and the effect of one of `OpenHandler`,
`MessageHandler` and `CloseHandler` of `ClientMgr`, which knows names and no
connections. Without the exception for overlapped names TLC refutes it.

*ChatServerProofs.* Of `ClientMgr`, three arguments on top of `TypeOK`:

* `SweepInv` for `OnlyIdleCondemned`: a clock that has taken note of what its
  user did is no older than the user has been idle; nor is its copy, unless the
  user is in `raced`; and a request about somebody else is about somebody idle.
  The property speaks of requests only; clocks and copies are where they come
  from.
* `LogInv` and `EntryInv` for `ListedIsCurrent`: the log of a user alternates,
  so that between two OPENED there is a CLOSED; and an entry of the list is of
  an OPENED after which no handler of a CLOSED has been in the list. Once all
  are done, there is no later CLOSED, hence no later OPENED.
* `TableInv` for `TablesFollowConnections`: for whoever is not in `inverted`,
  there is an OPENED since which each table says what the latest event that has
  been in it says. That needs the window: before it, anything may have
  happened.

`SessionInv`, that whoever is closing, or is found by a request, is connected,
goes with each of them: it is what makes the close handler send CLOSED of a
user who has a connection. The end of the process is one case for all
(`Blank`).

Of `ChatServer`: `ChatIsClientMgr`, a behaviour of the chat server is one of
the client manager, so that all of the above holds of it: a kick that closes
is, to that, a peer that closes (`KickInv`). `SteadyInv`, for
`AnswerIsRegular`: the entry of a steady user cannot change, since no handler
about it is left that would change the list, so the copy in the answer agrees
with the list; that the list is right is `ListedIsCurrent` and `TableInv`.

*LoggerProofs.* `TailKept` is inductive, on lemmas about `IsSuffix`.
`NameFollowsHour` needs `PhaseInv`: there is an hour `k` such that the thread
wakes up next one tick after the end of `k`, and `late` ticks more, and the
file has the name of `k` or of a later hour that has begun, by UTC for the
first and by local time for the second. When more than `Offset + late + 1`
ticks of a local hour have passed, that hour is `k`. Division is taken apart by
lemmas of its own (`HourRest`, `HourUnique`, `HourMonotone`), as the provers
know it only for literal divisors.

*DbManagerProofs.* `RowsInv` is `ReturnsTellWhatIsStored` with SQLite's own
answer between statement and return. `TypeCorrect` is for whatever statements
there are.

*ChatClientProofs.* `ConnInv`: whoever is between `run_forever`'s start and its
giving up has the one socket, so that there is one such thread; one Join at most
is between its writes, and name and header are the same when none is. `NameInv`
and `WindowInv` are the two properties with the states on the way there.

*StartupProofs.* `main` is one program, which TLC covers. The theorems say why
it is right: `InOrder` names three facts about its calls, and everything
follows from these. A receiver is subscribed only after it was added, by a
component that wants the event (`SubscribesAfterAdding`); no two receivers have
one id (`AddsOnce`); once a component runs nobody subscribes (`RunsLast`). That
the calls of `main` have them follows block by block: a constructor with a new
id keeps them (`ConstructRegisters`), and so does a `run` at the end
(`RunKeepsOrder`). `IInv` says that registry, map and ids are what main has
called so far. Whoever moves a `run` before a constructor, or gives an id
twice, breaks the one fact.

*WireProofs*, of `MessageObjects`. `ObjectsInv`: every list is in `SoundLists`,
whatever was called: it has an object for each of its users, nothing behind a
bit that is not set, and no bit in an object that is kept for later. Both
properties follow from it. `UnsetIsDefault` by itself is not inductive, since
it is `size` that says which objects are kept, and `Add` hands these out
unlooked at. `ClassesAreRecords` is `ImplementsRecords`, each call with its own
operation, and so the refinement, over one lemma for each operator that says
what it does to the record or the list of records: `SetSets`,
`ClearFieldUnsets`, `MergeMerges`, `AddAdds`, `ClearErases`,
`ListMergeAppends`. `ListParseAppends` has reading after writing: the fields of
the parsed list are those of the one that was serialized, in order, behind
those that were there.

*WireProofs*, of `RestWire`. `AnswersListAll`: an answer is made of the users
known, each once and with its own data, for any number of them.
`ScreenAlwaysShowsTheList` takes it from there: `ListInv` says that the bytes
under way are the encoding of the answer, and `MessageOfLines` and
`PrintsLines` that `AddLine` and `PrintUsers` undo each other user by user.
`AskedIsAlwaysTyped`: `NameInv` says that the bytes under way are those of a
name that spells the trimmed line, and `TrimTrims` that trimming takes blanks
off both ends and nothing else, blanks inside included.

What a list, an answer or a screen holds is computed by recursive functions
over lists of any length. The lemmas about them rest on two facts that are
proved in `WireProofs` from well-founded sets: `SetInduction`, that a set of
numbers that has 0 and with each number the next has all numbers up to any
bound, and `Recursion`, that a function that is defined by recursion up to a
bound exists and takes the values that the definition says. Induction is then a
statement about a set, with no operator for a parameter.

Only model-checked: liveness (`SendsReturn`, `CallsComplete`,
`DisconnectedLeave`, `IdleLeaves`, `KickedLeave`, `AskedAgain`). It rests on
fairness and so on `ENABLED`, which are out of the prover's reach.

## 5. What is not modelled

* *The test client* (`testing/wesocket_client`): a manual load generator that
  asserts nothing; towards the server it is a user of `WebsocketServer`.
* *httplib, websocketpp, SQLite, Dear PyGui, websocket-client*: vendored or
  external; they are there as the code uses them.
* *Generated code beyond what it computes*: descriptors and reflection, arenas,
  which this program never uses, unknown fields and malformed input, which two
  ends with one `.proto` do not send each other, and the operations of
  `KickUser` that the program does not call.
* *Chat client*: `_WsOnMessage`, which appends a line under a mutex of its own,
  and `Disconnect`, which is called when a window without a close button is
  closed. The text of the window and of the messages.
* *Accessors and layout*: most of those of `User` and `Message`, `FileRead`,
  which nobody calls, the text of dates and log lines, paths and directories.
  The queries of the bus that nobody calls.
* *Local time that changes*: daylight saving time; the offset to UTC is
  constant.
* *Requests that arrive late*: a POST that has failed for the console and
  arrives at the server after that.
* *The process*: how it ends when asked to (it never is), an end in the middle
  of a write or of a statement, failure to start a thread, memory effects other
  than the torn walk, the shared `localtime` buffer and the uninitialised
  `err_msg`; the buffer is read and written as a whole, and a torn walk ends
  somehow.
* *Two connections of one name in the client manager*: `WebsocketServer` says
  when that happens (`overlapped`); the client manager, whose tables are by
  name, then takes the CLOSED of one for that of both.

## 6. The parts together

`EventBus` is composed with nothing: its refinement `PubSub`, and what the runs
say of it, is what the other modules assume: a send is handled once by whoever
is subscribed, on a thread of its own, in no order; a synchronous one returns
after that. `Startup` says who is subscribed. `WebsocketServer` establishes the
order of the events of a connection (`EventHistory`), that a name has one
connection (`UniqueNames`, with its exception), and so which events there are
about a name (`OneAtATime`, proved), which is what `ClientMgr` takes for its
environment; that the two specifications fit is read off their actions, and is
not a theorem of its own. `ChatServer` is `ClientMgr` with more around it, and
inherits its theorems. `RestWire` fills in the bytes between the two REST steps
of `ChatServer`. `Logger` and `DbManager` share only the message with the rest.
