# Doppelganger in TLA+

Doppelganger is a C++ server (Boost.Asio and Beast) that serves rooms of 3D-mesh
work to browsers over HTTP and websockets.  A room loads plugins; an API call
runs one and tells the other clients of the room about it.  This directory
holds TLA+ models of its sessions, rooms, plugins and configuration, the TLC
configurations that check them, and TLAPS proofs.  `PROJECT.json` lists the runs, the source
lines behind every definition, the hazards and the findings.

All paths below are relative to the root of the repository.

## Inventory

| Component | State | Operations | What must hold |
|---|---|---|---|
| HTTP connection (`HTTPSession`, `PlainHTTPSession`, `SSLHTTPSession`, `SSLDetector`) | outstanding read and write, queue of responses (limit 64), the stream | detect, handshake, onRead with its branches, onWrite, queue, doEof, release_stream | one read and one write at a time; queue within its limit; reading resumes; responses in order, none forgotten, none after a closing one |
| Websocket session (`WebsocketSession`) | `queue_`, the stream, membership of the room | send, onWrite, onRead, onAccept, close, fail | one write at a time; no stall; every message in order; a dead session leaves |
| Room (`Room`) | `mutexRoom_`, `mutexWS_`, `websocketSessions_`, `config` | setup, joinWS, leaveWS, broadcastWS, applyCurrentConfig, shutdown | broadcasts atomic and in one order; calls announced in the order applied; no deadlock; told of shutdown means closed |
| Room registry (`Core::rooms_`) | room by name, `active` of each room | lookup and creation in onRead, erasure in `Core::applyCurrentConfig`, `Core::shutdown` | a live room is never lost; no room used after it is destroyed; the server stops with the last room, unless its shutdown fails |
| Core configuration (`Core`) | `config`, `config.json`, the listener's endpoint | setup, applyCurrentConfig, storeCurrentConfig, run, shutdown | what an orderly stop stores is what the next start begins with; what is announced is served; settings that served do not fail a later start for a browser that is looked for, or for the certificate |
| Plugins (`Plugin`, and the loops around it in `Room` and `Core`) | `dir_`, `installedVersion_`, the list of plugins, the cache on disk | install, pluginProcess, functionCall | a room has what its list says and the catalogue has; a complete directory stays; an answer without error means all was done |
| Listener (`Listener`) | the acceptor | constructor, run, doAccept, onAccept | one accept is always outstanding; every connection gets a detector |
| main | the threads, the io_context | run, stop on a signal | a stop at any moment leaves a store the next start can use or refuses |

**How they interact.**  `Listener` hands each socket to an `SSLDetector`, that
to an HTTP session.  `HTTPSession::onRead` looks its room up in `Core::rooms_`,
calls `handleRequest` or moves the stream into a new websocket session, which
keeps a `weak_ptr` to the room.  API calls, over HTTP or a websocket, lock
`mutexRoom_`, run the plugin, patch the room (and, over HTTP, the core) and
call `broadcastWS`, which locks `mutexWS_` and calls `send()` on every session
of the table, on the broadcasting thread.  `main.cpp` starts as many threads as
the machine has cores.

**What is hard.**  Every connection has a strand, but a broadcast touches other
sessions off their strands; `rooms_` and `Core::config` have no lock at all;
`Room::shutdown` iterates over the table without its lock; the registry may
destroy a room while a handler uses it; errors and exceptions leave flags,
queues and tables behind; the process may stop between any two steps that write
`config.json`, the plugin cache or a room's directory.  The "hazards" of
`PROJECT.json` list these at their lines, with the properties that cover them.

## Modules

A definition `Name_How` next to `Name` is `Name` with a plausible fault.  It is
no part of a specification; replacing `Name` by it must violate a property, and
`PROJECT.json` says which.

### `FifoDelivery`
The abstract specification of both kinds of connection: items are accepted in
increasing order and come out in that order, each once.

### `AtomicBroadcast`
The abstract specification of a room as its sessions know it: a session comes
once (`Come`) and goes (`Go`), and a message is told, in one step, to everyone who is
there and whom it is addressed to (`Tell`).

### `HTTPSession` (`MCHTTPSession`, `HTTPSession_proofs`)
One connection.  Its handlers run on one strand, so each is one atomic action:
`OnDetect`, `OnHandshake`, one action per branch of `onRead` (`OnReadIgnored`,
`OnReadNewRoom`, `OnReadExistingRoom`, `OnReadUpgrade`, `OnReadEof`,
`OnReadFail`) and of `onWrite` (`OnWrite`, `OnWriteClose`, `OnWriteFail`).
`reads` and `writes` count outstanding operations, so that a second one would
show; `items` is `queue_.items_`, whose head is being written; `doomed` says that
the outstanding write was started on a stream that is shut, closed or moved.
A response is the number of its request and whether it needs EOF: every branch
of `handleRequest` sends exactly one.  `wire`, `failed` and `eofSent` are
histories.

### `WebsocketSession` (`MCWebsocketSession`, `WebsocketSession_proofs`)
The outgoing queue of a session that has joined its room.  `send()` is split into
`SendPush`, `SendTest` and `SendWrite`, `onWrite` into `OnWrite`, `OnWriteErase`
and `OnWriteTest`, because nothing orders the two: the sender holds `mutexWS_`
and runs on any thread, `onWrite` runs on the strand.  `Threads` bounds the
handlers under way.  A push and an erase that overlap are a data race:
`OnWriteErase` then may keep both updates, lose the push or corrupt the vector
(`aborted`).  A second `async_write` is Beast's assertion in a debug build
(`aborted`) and waits for the first in a release build.  `FailedLeaves` and
`LeftIsQuiet` are about the end of a session.

### `Room` (`MCRoom`, `Room_proofs`)
The room with its two mutexes.  Every session and every HTTP connection that calls
an API has a program counter; a handler starts when a thread is free and takes
its steps from lock to lock.  `Broadcast` and `Goto` stand for calls: the handler
goes through `BcLock`, `BcSend`, `BcUnlock` and returns to `ret`.  The queue of a
session is reduced to `inbox`, the messages handed to its `send()`; what follows is
module `WebsocketSession`.  A plugin's result is a member of `Outcomes`: what its
patch of the room does, and whether there is a broadcast and a response.  A
client names its own UUID in a call, as the code expects of it.  A patch may set
"active" to false or to true again, and one that throws may have set it without the
shutdown that otherwise follows.  `raced` is set,
and the model stops, when the table changes under the unlocked loop of
`Room::shutdown`.  Reloads that a patch of the core broadcasts into other rooms
are not in this module.  `Room` implements `AtomicBroadcast`
(`ImplementsAtomicBroadcast`): the table is who is there, and a session is taken
to have heard a broadcast as soon as `BcLock` holds `mutexWS_` and the session is
still to be visited (`WillHear`); the sends that follow are stutters.  That a
session may leave between two of them changes nothing, since `leaveWS` waits.

### `Rooms` (`MCRooms`, `Rooms_proofs`)
The registry and the lifetime of rooms.  A handler's lookup, its insertion and its
calls are separate steps.  `at` is the room a handler refers to through the
reference into `rooms_`; `Uses` sets `misused` when that room is no longer there.
`Patch` is what a call does to "active" of its room, `PatchThrows` a call that leaves the
room inactive with its sessions open.  `ApplyCoreThrows` is an exception in
`Core::applyCurrentConfig`, which `handleRequest` catches: before the inactive rooms
are erased, or after, in `Core::shutdown`, so that the registry is empty and the
io_context runs on.  The history `stranded` marks the second case until a room
is made again; `StopsWithLastRoom` says that it is the only one in which the server
outlives its rooms.
`BareNames` says whether clients leave the prefix `room-` out of URLs.  The runs have one
thread: on several, every access of `rooms_` is a data race in the code, and the
model says nothing about those.

### `SettingsStore`
The abstract specification of a program that keeps its settings in a file: a start
takes what the file holds and may tidy it, only asked-for changes touch it, an
orderly stop leaves the latest settings in the file, and the file is replaced in
two steps, between which the program may end.

### `Listener`, `Core` (`MCCore`, `Core_proofs`)
`Listener` has the acceptor: how far the constructor came (`Construct`), the
accepts outstanding and the connections the kernel holds.  `Core` extends it and
runs it: `pc` walks through `setup()` (`Load`, `Apply...`, `Truncate`, `Write`),
`run()` (`Run`, `OpenBrowser`, ...), the serving of calls that patch the
configuration, and `shutdown()`.  Of `config` there are the sections `server` and
`browser`, the only ones start-up and the listener depend on; the certificate and
the installed browsers are `machine`: certificate files may be missing, good, or
bad, in which case loading them throws.  The machine does not change between
starts.  `Stored` is what `storeCurrentConfig`
writes: without the path of a browser.  `Signal` stops the io_context without a
`shutdown()`; `Crash` may come between any two steps and `Edit` lets the user write
the file in between.  `ShutdownThrows` is any exception of `Core::shutdown`, before
config.json is opened (`fs::is_empty` and `remove_all` on its directories) or after it
was emptied: the program goes on serving.  A null in a patch may remove the
section `browser`, after which
`shutdown()` throws with the file already empty; the sections `server` and
`plugin`, whose removal has the same effect there, are not removed in the model.
`Core` implements `SettingsStore` (`ImplementsSettingsStore`): the refinement
maps the places of `pc` to its phases and leaves out the path of the browser.
`patched` and `proved` are histories: the sections plugins patched, and whether the
settings once brought the program to serve and were not patched or edited since.
`StartsAgain` is about those.  It promises no start with a browser of the user's
own, whose path is not stored, nor with a host or port that cannot be had: the code
fails on them.

### `PluginInstall`, `PluginCall` (`MCPluginCall`, `PluginCall_proofs`)
`PluginInstall` is `Room::applyCurrentConfig` with `Plugin::install`: a room goes
through its list (`PickEntry`), then through the plugins that are not optional
(`PickMandatory`), takes a directory from the cache or downloads and unzips it
(`Download`, `Unzip`), and copies it (`Copy`).  Lists are arbitrary sequences of names
and versions.  The catalogue is what could be fetched of the lists at several
URLs, so each fetch may lack any plugins; an entry that it lacks, or that names no
version, is skipped (`Found`).  The cache has a directory `Absent`, `Partial` or
complete, and survives a crash.  `Completed` is what `Core::applyCurrentConfig` appends to
its own list.  A room keeps, as a history, the list it was given (`given`).
`RoomHasItsPlugins` says which plugins a room then has; rooms in which an
installation failed are left out, since an appended "latest" may there later
override a plugin.

`PluginCall` adds the API call: the library is opened, the plugin runs, its results
are read, the room is patched, which may install plugins again, then the core,
and the call is answered (`call`).  An exception in a call is answered with an error,
and may come before anything is patched (`CallThrows`, `ResultsThrow`), after the
room was (`CallInstallThrows` in the midst of an installation, `RoomThrows` elsewhere in
`Room::applyCurrentConfig` or `Room::shutdown`), or after the core was (`PatchCore`).  An
error therefore tells little, and `AnswersAreTrue` says only what holds.  An
exception ends the process while a room is made (`CreateThrows`) or a file of the
plugin "assets" is served (`AssetsThrow`).  A version is named by a string, "latest"
stands for `versions_.at(0)`.

## Runs

| Run | Shows |
|---|---|
| `http` | the nine properties of a connection, with `FifoDelivery` as a refinement |
| `http_keep_alive` | **finding**: after a request for an existing room a keep-alive connection is never read again |
| `ws_one_thread` | on one thread the queue of a session is correct, with `FifoDelivery` as a refinement |
| `ws_two_threads` | with races, messages never overtake each other, none waits without a write, and a session that left gets none; one that failed leaves |
| `ws_one_write` | **finding**: two `async_write` at a time on two threads |
| `room_sessions` | the room is an `AtomicBroadcast`, all hear all they should in one order, sessions know their UUID, a session told of the shutdown is closed (two threads) |
| `room_calls` | calls are announced in order, the busy flag is cleared unless the call threw, every handler returns (three threads) |
| `rooms` | on one thread and with full names, only shut-down rooms leave the registry and the server stops with the last, unless its shutdown throws |
| `rooms_bare_names` | **finding**: `http://host/ABC` replaces the live room `room-ABC` |
| `rooms_use_after_free` | **finding**: a call that shuts its room down and patches the core goes on in a destroyed room |
| `core` | over restarts and crashes, the configuration is a `SettingsStore`, the announced URL is the listener's, settings that served never fail a later start for want of a browser that is looked for or for the certificate, and the accept loop keeps one accept and takes every connection |
| `plugins` | over failed downloads, cut archives, catalogues fetched in part, exceptions, wrong results and crashes, a room has the plugins of the catalogue that its list says, answers without error mean all patches were made, complete cache directories stay, and every handler ends |

**Bounds.**  `http`: the limit is 2 instead of 64 and there are five requests,
enough for the queue to be empty, partly full, full, drained and filled again.
`ws_*`: four messages (three in the finding), enough for a queue of several, a
push at every step of `onWrite` and a lost push; two threads suffice for one
session, since `mutexWS_` admits one sender and the strand one handler.
`room_*`: two calls are what it takes to disorder them; two sessions are what it
takes for a broadcast to have a caller and another, and two clients and a session
on three threads for all to wait for a mutex at once.  `room_sessions` has no HTTP
client and `room_calls` one session, which keeps each at about a minute or less.  `rooms`:
three names, two clients and four rooms allow one client to shut a room down
between any two steps of another, and a name to be used again.
`core`: two connections, and four settings that take every branch of `run()`: a
browser that is looked for, one with a fixed path, one of the user's, hosts with and
without a browser, a certificate asked for.  `plugins`: one plugin that is not
optional and one that is, either of which a fetched catalogue may lack; three
versions of which one is not offered; lists with a plugin in two versions, a version
that is not available and an entry without one; `MaxEntries` keeps a room
from installing again once its list is longer than two.  There is one room at a time:
on one thread no other can act while it installs, and the room made after it left
meets the same cache and core as a second one would.

**Deadlock** is not checked by TLC in these runs because each system may rest: a
connection ends, a room's clients do nothing, a server stops.  That handlers do
not wait for each other is `HandlersReturn` and, proved, `NeverDeadlocked`.

**Fairness.**  Only handlers that have started, and operations that complete by a
timeout, are fair: `HTTPSession` reads with a 30 s deadline, writes while the
stream is open (an upgrade cancels the deadline); websocket streams have Beast's
suggested timeouts; a handler in `Room` has a thread until it returns.  A mutex is
weakly fair in the model; the only handlers that compete for one are finitely
many, so a started handler is not overtaken for ever.  In `Core` the steps of main()
and of a shutdown are weakly fair and the accepting of a connection strongly: it is
enabled again after every failed accept, and the kernel does not pass the same
connection over for ever.  In `PluginCall` the steps of a handler are weakly fair, a
download having a time limit of its own; crashes may end it.  No client is ever
assumed to send, close or connect.

## Proofs

TLAPS proves, for every value of the constants:

* `HTTPSession_proofs` - `TypeOK`, `OneReadOutstanding`, `QueueWithinLimit`,
  `OneWriteOutstanding`, `NoForgottenResponse`, `NothingAfterClose`, `ReadsOrIsFull`
  and the refinement `ImplementsFifoDelivery`, from the
  assumptions that the limit is a positive number and the number of requests a
  number.  The properties are not inductive by themselves: the queue stays within
  its limit only because a full queue has no read outstanding, and a read is added
  by a write only when the queue was full.  `IInv` adds these facts and what
  `doomed` and the closing response say about the outstanding write.  For the
  refinement `Answered` adds that no number in the queue or on the wire is larger
  than that of the latest request; appending to the queue and taking its head off
  are then appending and taking off the number of a request (`ReqsAppend`,
  `ReqsTail`).
* `WebsocketSession_proofs` - `SingleWriter` and the refinement
  `ImplementsFifoDelivery`, for `Threads = 1` and any number of messages.  `IInv`
  states, for each place the one running handler can be at, what the queue and the
  outstanding write look like.  The assumption is needed: `ws_one_write` refutes
  `SingleWriter` on two threads.  For any number of threads, `TypeOK`, `LeftIsQuiet`,
  `OrderKept` and `NoStall`: `InOrder` says that what was written is not younger than
  what is being written, nor that than what waits, and that while `erase()` runs the
  queue only grows at its end, so that lost `push_back`s lose the youngest.
  `Attended` says who will see to a queue that is not empty: a write, the handler on
  the strand, or `send()` itself, which relies on the other side only if it finds
  more than its own message.  From it follows also, as `NothingIsAbandoned`, what is
  safety in `FailedLeaves`: no session, open or not, stays in its room with messages
  and neither a write nor a handler.  All this is about an overlap of `push_back` and
  `erase` that leaves a vector; one that corrupts it ends the program (`aborted`).
* `Room_proofs` - `TypeOK`, `CallsInOrder`, `BusyUnlessThrew`, `KnowsItself` and
  `ToldIsClosed`, for any number of sessions, clients, threads and calls.  `Where`
  is the place a handler is at, seen through the broadcast or the leaving it is
  in; `Locks` says that whoever is past the lock of the room owns it, `Messages` what
  is broadcast at each place.  The rest of `IInv` relates places to inboxes: a
  client that holds the room either has told a session that the server is idle
  again or still owes it (`Busy`), a session awaits its greeting or has heard it
  once (`Greeting`), a session told of the shutdown has a handler left that will
  close it (`Closing`).  Two theorems are what is safety in `HandlersReturn`.
  `NeverDeadlocked`: while handlers run, one of them can take its next step, since
  `mutexRoom_` is never waited for under `mutexWS_`.  `HandlersDoAdvance`: each step of
  a handler lessens its `Distance` to the end or, in a loop, the sessions it has to
  visit, and nobody else's step does otherwise.  Fairness of the threads remains.
* `RoomBroadcast_proofs` - `ImplementsAtomicBroadcast` and `BroadcastIsAtomic`, on top of
  `Room_proofs`, for finitely many sessions and clients (the messages are
  counted).  `StepTells` goes through the steps of the room: `BcLock` is a `Tell`,
  joining and leaving are `Come` and `Go`, everything else is a stutter, `BcSend`
  because it moves a message from the part of `WillHear` that is to come into the
  inbox.  Only `mutexWS_` makes this true: it keeps the table as it is under the loop.
  `AllHear` adds that what a session heard since it joined are the entries of the log
  addressed to it, the n-th in the n-th place; a broadcast adds one to both.
* `Rooms_proofs` - `TypeOK`, `RoomsKept` and `StopsWithLastRoom`, for `Threads = 1` and
  full names.  Between its lookup and its
  insertion or the stop a handler must be alone (`OneHandler`, `CreatesMissing`,
  `StoppedAtTheEnd`).  Both assumptions are needed: `rooms_bare_names` refutes
  `RoomsKept` without the second.
* `Core_proofs` - `TypeOK`, `AnnouncedIsServed`, `StartsAgain`, `AcceptOutstanding` and
  the whole refinement `ImplementsSettingsStore`, for any settings, connections and
  restarts, provided that a browser path among the offered settings is none or the
  user's own.  `IInv` states for each place of `pc` what sections the configuration
  has, what the file holds and how far the listener is.
* `PluginCall_proofs` - `TypeOK`, `RoomHasItsPlugins`, `AnswersAreTrue` and
  `CompleteStays`, for any plugins, rooms and lists, whatever part of the catalogue
  each fetch brings, provided that the plugins are finitely many and that one is optional
  or not, and has the same versions, whenever it is in the catalogue.  `IInv` has
  one handler at a time, an incomplete directory only while it is unzipped or after
  that failed, what each place of an installation knows of the list and the
  files, and what was made so far of what a call asked for.  `CompleteStays`
  rests on a download starting only where the cache has no directory.
  `HandlersDoAdvance` is what is safety in `HandlersEnd`: every step of a handler goes on
  to a later `Phase` or lessens its `Turns`, which count the entries and mandatory
  plugins left to look at and the places each of them goes through, so that an
  installation ends although it appends to the list it works on.

Each proof has one lemma for the initial state, lemmas for the shared operators
(`Send`, `DoWrite`, `Broadcast`, the search of a list), lemmas that say what a step
preserves, and theorems that draw the properties from `IInv`.  TLC checked each
`IInv` on small instances before it was proved.

Model-checked only is liveness (`EveryResponseSettles`, `EveryMessageWritten`,
`FailedLeaves`, `HandlersReturn`, `ConnectionsTaken`, `HandlersEnd`), since a proof of
it needs ENABLED, which is out of reach of the prover.  What is safety in each of them is
proved: `NoForgottenResponse`, `NoStall`, `NothingIsAbandoned`, the two theorems about
the handlers of a room, `AcceptOutstanding`, and the advance of plugin handlers.

## Not modelled

* The contents of responses and the choice of a resource; what plugins compute;
  the text of the command that starts a browser; the settings of log and output.
  None of them decides what happens next.
* The directories of the core and of a room, except that a plugin is copied into
  them.  They decide what happens next only where they are missing or cannot be
  removed: `fs::is_empty` and `remove_all` then throw in both functions `shutdown()`.
  That exception is in the models, as `ShutdownThrows` in `Room` and `Core`,
  `ApplyCoreThrows` in `Rooms`, and `RoomThrows` and the error of `PatchCore` in `PluginCall`.
* The parts of `Util` that are a submodule, which is not in the repository.
* Real time: a timeout is a failure that may come whenever the operation is
  outstanding.
* Several threads in `Rooms`, `Core` and `PluginInstall`: each access to the registry,
  to `config` or to the cache would be a data race, and the models say nothing
  about those.
* In `Core`, patches that remove the sections `server` or `plugin`.

## Plan

Done: all modules above with their runs, and a proof module for each component.
Left, in this order:

1. `Room` composed with `WebsocketSession` in place of `inbox`.
2. The choice of response in `handleRequest` as an operator over the parts of a
   path.
