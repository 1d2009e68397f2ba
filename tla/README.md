# A TLA+ development for godzilla-community

godzilla-community is a low-latency trading system: independent processes (a
master, market-data and trading gateways, a ledger, strategies) that exchange
typed event frames through memory-mapped *journals* (yijinjing), are brought
together by a master process (practice), and implement trading on top
(wingchun, the Binance gateway, the Python services). This directory holds TLA+
modules of that system, the TLC runs that check them on small instances, and
proofs checked by TLAPS. `PROJECT.json` maps every definition to the source
lines it stands for.

## 1. Inventory

| component | state | operations | interaction | what is hard |
|---|---|---|---|---|
| **journal** (`core/cpp/yijinjing/{include,src}/journal`, `util/mmap.cpp`) | page files: header with `last_frame_position`, frames with `length`, `gen_time`, `msg_type`; the writer's current page and frame; the mutex; each reader's cursors | `open_frame`, `close_frame`, `close_page`, writer constructor (`seek_to_time(now)`), `reader::join/disjoin/next/sort` | shared memory only: readers poll the length word; a notice over nanomsg only shortens the poll | stores become visible one by one; page turn; death of the writer between two stores; a seek racing a page turn; several threads on one writer; clock steps |
| **event loop** (`practice/hero.cpp`) | `reader_`, `now_`, `locations_`, `channels_`, `writers_` | `produce_one`, `require_write_to`, `require_read_from`, (de)register location and channel | feeds every event to all rx subscribers in turn | handlers change the reader that is being iterated |
| **master** (`practice/master.cpp`, `python/kungfu/practice/master.py`) | `app_locations_`, `timer_tasks_`, `apprentices` by pid | `register_app`, `deregister_app`, `react`, `health_check` once a second | Register request over nanomsg, answers through two journals per application | fast restart before the health check, stale channels |
| **apprentice** (`practice/apprentice.{h,cpp}`) | timers, timer checkpoints, writers by destination | `checkin`, `on_write_to`, `on_read_from`, `timer`, `time_interval` | commands journal to the master, its own journal from the master | register timeout disarmed by someone else's Register; Time events not tied to a timer |
| **gateways** (`wingchun/broker`, `extensions/binance`) | orders by id, subscriptions, websocket channels | `insert_order`, `cancel_order`, `query_order`, user-data events, subscribe | REST callbacks and websocket events on other threads; orders and trades as frames | REST answer after the final event; unlocked lookups; reconnection |
| **strategy side** (`wingchun/strategy`) | accounts, market-data sources, subscriptions | `add_account`, `subscribe`, `insert_order`, `cancel_order` | request journals to gateways and ledger | requests before the writer exists; unsubscribe |
| **ledger and books** (`wingchun/service/ledger.cpp`, `python/.../service/ledger.py`, `book`) | broker states, positions, frozen amounts | broker state updates, order and trade accounting | joins every gateway | events of an order applied out of order |
| **client library** (`extensions/binance/{src,include}/binapi`) | request queue, one exchange at a time, websockets by address, parsed tokens | `post`, `async_post`, handlers of one exchange, `start_channel`, `load`, `construct` | called by the gateway's loop, calls back on the I/O thread | no lock between the two threads; a failed exchange; a text that is no JSON; a missing member |
| **messages** (`wingchun/msg.h`, `common.h`, `type_convert_binance.h`, `binapi/enums.cpp`) | packed structs, enumerations | setters, JSON, conversions to and from the exchange's words | payload of every frame | names without terminator; words that are not listed; statuses that end an order |
| **bar generator** (`wingchun/service/bar.cpp`) | one open bar per instrument | Trade and Time handlers | publishes bars | trades at the boundary, gaps, late trades |
| **algo service** (`wingchun/service/algo.cpp`, `algo/algotypes/tvwap.py`) | running algo orders | insert, modify, cancel | child orders | partial fills while slicing |
| python commands, SQLite store, pybind, mocks, logging, hashing | - | - | - | no concurrent state of the system |

## 2. Plan

| step | modules | state |
|---|---|---|
| journal | `EventLog`, `Journal`, `JournalInv`, `JournalProofs` | done, proved (safety and refinement) |
| event loop | `EventLoop`, `EventLoopProofs` | done, proved |
| registration | `Registration`, `RegistrationProofs` | done, proved (safety) |
| orders | `Orders`, `OrdersProofs` | done, proved (safety) |
| timers | `Timers`, `TimersProofs` | done, proved (safety) |
| REST client | `Rest`, `GatewayProofs` | done, proved (safety) |
| market data | `Market`, `MarketProofs` | done, proved (safety) |
| ledger | `Ledger`, `LedgerProofs` | done, proved (safety) |
| messages, records, terms of orders | `Tables`, `Wire`, `Messages`, `Codes`, `GatewayProofs` | done, proved |
| bars | `Bars`, `TimersProofs` | done, proved |
| texts of replies | `FlatJson`, `JsonTexts`, `Reply` | done, model-checked |
| positions, algo orders (`tvwap.py`), metric controller | - | open |

The modules of conversions (`FlatJson`, `Wire`, `Messages`, `Codes`, `Bars`) are
separate from the modules of processes, because a conversion has no interleavings; `MCConversions` puts them side by side.

## 3. Modules

### EventLog
The abstract specification: `events` only grows at its end and its times never
decrease; a subscriber starts behind the events that are not after its
`from_time` and is handed the rest one by one.

### Journal
One journal: the pages of one (location, dest) pair, one writer object shared by
the threads of the writing process, and the readers.

*State.* `file`, `last`, `mem` are the page files: which exist,
`page_header.last_frame_position`, and the contents in units of one frame
header. A unit holds what its bytes mean when they are read as a header;
payload bytes are `Bytes(v)`, which look like a plausible frame, so a cursor
that runs into payload delivers garbage (`InOrder` would see it). `wst`,
`wpage`, `wpos`, `holder`, `pc`, `dlen` are the writer and its threads; `rst`,
`rpage`, `rpos`, `rfrom`, `rtodo` are a reader's journal; `log` and `seen` are
history variables.

*Actions.* A thread goes through `TryLock`, then either `OpenFrame` or the page
turn `RollCreate` (mmap creates a zeroed file), `RollInit` (page::load writes the
header), `RollMark`, `RollEnd`, `RollLast` (the stores of `close_page`), then
`OpenFrame`, `ZeroNext`, `Stamp`, `Publish`, `CloseFrame` (the stores of
`close_frame`). `Crash` kills the process between two stores; `Restart`,
`SeekFull`, `SeekSkip` are the writer's constructor. A reader does `Join`, `Scan`
(one page of `find_page_id`), `ReaderFull`, `ReaderSkip` (the two loops of
`seek_to_time`) and `Read` (one event of `produce_one` with `reader::next`).

*What is assumed.* Stores reach other processes in program order (the length is
`volatile`, the targets are x86; a compiler that moved the other stores behind
it would break the code and is outside the model). A lock wait longer than a
millisecond throws before anything was changed, which is a stuttering step. A
payload fits in an empty page (`FitAssumption`; the code's own assert forgets
the page header). The first page exists, because the master joins the journal
before it asks for a writer or a reader (`Init`). `mark_with_time` and
`write_with_time` are not modelled: nothing in the system calls them (only the
Python binding exposes them). CLEAR_JOURNAL is taken as unset. `SeekRace` says
whether a reader may join while the newest page holds no frame; the writer may turn
the page at any time, also under a search that is going on.

### JournalInv, JournalProofs, MCJournal
The inductive invariant, the proofs, the constants of the TLC instances.

### EventLoop
The loop of one process, `hero::produce_one` over `reader`. A journal is what
`EventLog` promises: a sequence of frames that grows at its end. `Stamp` and
`Publish` are the two stores of `close_frame` that a reader of several journals
can tell apart. `reader::sort` takes one step per journal (`SortOne`), because
frames appear in between; `pc` and `then` say in which call of `sort` the loop
is: `data_available` (`Poll`), `next` (`Advance`), `disjoin` or `join`. `Deliver`
hands the current frame to the subscribers, `Handle` is what a subscriber does
to the reader: join a journal from a time on, or disjoin the journals of a
location. With `Master` the loop is the master's, which joins and disjoins
between two polls (`MasterJoin`, `MasterLeave`); otherwise an apprentice's,
which disjoins in the middle of a Deregister event. The order of `journals_`
is left open: it depends on who joined first.

### Registration
The master with its public journal and one commands journal per application,
and the processes of the applications. Single-threaded processes communicate
through journals only, so one handler of the master is one action
(`RegisterApp`, `RefuseApp`, `HandleRequest`, `DeregisterApp`), and so is one
event of an application (`ReadPublic`, `ReadCommand`). `gen` numbers the
master's frames in the order it writes them; an application merges the two
journals by it. The frames that `register_app` writes for each location and each
channel are one frame each, SessionStart has no reader and is left out.
`Start` ends with `checkin`; a request waits in `inbox` (the nanomsg socket);
`tracked` is `ctx.apprentices`. A process ends by dying (`Die`), by the register
timeout (`Timeout`), by an exception (`"threw"`) or by touching a page that does
not exist (`"fault"`).

Two constants say what may happen around the code: `FastRestart` (a process
manager restarts an application before `health_check` saw the death) and
`EarlyDeath` (a process dies before the master has read its request). `Old` are the
applications whose commands journal exists from an earlier session.

*Order of reading.* Both journals of an application are written by the master, one
frame after the other, and `reader::sort` passes over what is newer than its own
start: it misses nothing older than what it takes. But when it finds nothing, `current_`
stays where it was, and `data_available` asks that journal once more (`stale`, `Left`).
A frame written since is given out, although an older one may have been
written to the other journal (`SkipsCommand`, `SkipsPublic`); if it is a Deregister,
`reader::disjoin` selects anew in the middle of it, and `reader::next` then passes over
the older frame unhandled (`ReadDeregisterTwice`). `hasty` remembers the
processes this has happened to; the properties say what holds for them and what only
for the others. Section 4 says what happens outside.

### Orders
One account of one strategy, spot or futures (`kind`), and the gateway that
serves it. *The strategy*: `InsertOrder` writes the OrderInput frame and freezes
the amount in the book, `CancelOrder` and `QueryOrder` write OrderAction frames,
`OnOrder` is one Order frame through the book and the orders table, `Restart` is
the death of the process and all of its start (`strategy_load_book`,
`_set_init_asset`). `active`, `avail`, `frozen` are the AccountBook, `rows` is
the table. *The gateway's event loop*: `Emplace` and `SendOrder` are the two
halves of `insert_order` (the map is being changed in between), `SendCancel`,
`SendQuery`, and `CheckStatus`, the timer that replaces a lost stream. *The
gateway's I/O thread*: `OnNewOrder`, `OnOrderInfo` are the REST callbacks,
`OnUpdate` the callback of the user data stream, `OnUpdateMissed` the same when
`order_data_.find` does not find the order; `CloseStream` and `SetReconnected`
are the two effects of a channel's deleter. *The exchange* (external): it takes
or refuses an order, fills it in parts, cancels it, lets it expire, and tells the
streams that are open at that time.

What the model leaves out: market orders and prices other than the limit (`avg`
is the limit price or the NaN of 0/0), fees, PENDING_CANCEL (which the exchange
does not use; the gateway would erase the entry on it), the death of the gateway,
a coin without a cash limit (the book then only keeps orders). `Other` is an order of
another strategy of the same gateway; all that matters of it is that the map
changes while a message is looked up. `Lossy` lets a REST call fail although the
exchange took the order.

History: `told` is how far the newest frame says an order has got, `disputed`
the orders about which two frames, or a frame and the exchange, disagree, `lost`
those whose last message did not get to the I/O thread, `finished` the final status a
strategy was told.

### Timers
`apprentice::timer`, `time_interval` and `timeout` (`apprentice.h`), the
TimeRequest handler and `produce_one` of the master, and deregistration. All
times are relative to the present, so `Tick` moves everything by one and the
state stays finite without a clock. `now_` of an application is the time of the
event it is handling, which is up to `MaxLag` old (`Handling`): a checkpoint is
taken from it, and the event must be *strictly* later than checkpoint and
duration to fire. `OnTime` is one Time event through all filters: every due timer
fires, whoever asked for the event, and an interval asks again. A task of the
master is keyed by the id in the request, and ids start at 0 in every process:
`own` remembers which process asked.

### Rest
The request queue of `binapi/api.cpp` as two threads use it. The event loop runs
`post` and `async_post` (`Post`, `LoopCheck`, `LoopTake`: `m_write_in_process` is
read and set in two steps), the I/O thread the handlers of one exchange
(`Advance`, `Fail`, `ReplyError`, `OnShutdown`, `Release`, `IoCheck`, `IoTake`). A
flight is one exchange with its own socket; `process_reply` answers the front of
the queue, whatever the flight was for. `SyncPost` is a call without callback,
`Serve` the exchange (external): it may not execute a request whose body was
moved out. `raced` records that the threads have met in one of two windows
(`Overlap`); `AtMostOnce` holds even then. `Body` and `Invoke` are the classes of
replies that `invoker.hpp` tells apart: JSON, an error of the exchange, HTML, a
type that does not construct.

### Market
From `Context::subscribe` to the frames of a strategy: the request that waits
until the gateway's writer is granted (`deferred`), the gateway's channel cache,
`start_channel` in two steps (`StartChannel`, `FileChannel`), the stages of a
websocket on the I/O thread (`Connected`, `ReceiveOn`, failures, hanging, the timer's
`Restart` after three to four hours, `Closed` with the deleter), and
`_check_status`. `websocket::stop` is synchronous: it sends a close frame and reads until
the peer's arrives, without a timeout, on the only I/O thread. `closing` is the
websocket it waits for; until `CloseReturns` no handler of any websocket runs. The
timer calls it, and so does the last handler of a websocket whose callback gave up or whose
websocket handshake was declined (`StopLast`). Before the websocket handshake has
begun there is nothing to close: `stop` then only sets `m_stop_requested`, no pending
handler gets an error, and a hung websocket stays for ever, at its address and in
`m_set`, while its channel is opened again. A peer that falls silent stays silent, or its connection
fails. Handles are addresses: `Addr` is small, so an address is used
again by another websocket, and `set[m]` is the `m_set` of one websockets
object. The static deleter of `start_channel` is created once per callback type
and captures the first object it was used with, so it may clean the `m_set` of
another market.

### Ledger
The ledger reads the journals of all applications with a delay: `log` is the
sequence of frames in the order they are written, `cur[j]` what it has read of
journal `j`. `live`, `links` and `asks` are the system around it (external to
the ledger: applications come, go, are connected by the master, report broker
states and orders). Its own state is `known`, `channels`, `writers`, `states`,
`books`; `since` and `subs` say since when and how often a book is subscribed,
`informed` and `seen` what a client that asked for a refresh was told. `Read` is one frame through its handler (`Handle`: `OnLocation`,
`OnRegister`, `OnDeregister`, `OnChannel`, `OnWriteTo`, `OnReadFrom`, `OnBrokerState`,
`OnOrder`, `OnRequestStart`), the Python callback included.

*Order of reading.* The ledger reads journals of several writers, so it may be given a frame
before an older one: `sort` looks at one journal after the other while other
processes stamp and publish, and `data_available` accepts a frame that has come to the
journal where `current_` was left (`last`). `ComesFirst` are the frames it may take: any
that no older one of the same writer precedes, and any of the journal `last`. A Deregister
disjoins in the middle of its event; if an older frame has become visible, `reader::next` passes
over that one unhandled (`PassOver`) and the Deregister is given out again. `overtook`
counts the frames that were handled before an older one; `MaxOvertake` bounds it.

### FlatJson, JsonTexts, Wire, Reply
`FlatJson` is the parser of `flatjson.hpp`: the same grammar walked twice,
`fj_num_tokens` counting and `fj_parse` filling the token array; `at`, `find`,
`size`, `get_keys`; `dump`. A text is a sequence of characters, one per class
that the parser tells apart; `past` is the character behind it, which is read.
`JsonTexts` spells small values as reference. `Wire` has, for each message type
of `types.cpp`, the members with their kinds and the keys `construct` reads and
`operator<<` prints; a reply is a message in which at most `MaxSpoilt` keys are
missing or of a wrong type, and `Construct` gives the value, an exception or what
the accessors make of it. `Reply` composes the two the way `invoker` does.
`Tables` puts the tables of `Wire` and `Codes` together from parts.

### Messages
The structs of `msg.h` as memory: members in their packed order, names as arrays
that `strncpy` fills with a short, a fitting or a full text. A getter of a full
name reads on into the next member. JSON of the structs that have it,
and `order_from_input`, where `strcpy` of a name that runs on may spoil members that
are assigned later.

### Codes
The terms of an order: `insert_order` chooses words of the exchange
(`type_convert_binance.h`, `enums.cpp`), the exchange answers with a status, and
a report comes back through the user data stream or the answer to a query. A
word that the enumeration does not list falls off the end of a function without
return, which the model takes as any value.

### Bars
`bar.cpp` for one instrument: the subscription, and each Trade frame.

### MC modules
`MCJournal`, `MCEventLoop`, `MCRegistration`, `MCOrders`, `MCTimers`, `MCRest`,
`MCMarket`, `MCLedger` hold the constants of the instances; `MCConversions` also
composes `Reply`, `Messages`, `Codes` and `Bars`, one at a time.

## 4. Runs

| run | checks | shows |
|---|---|---|
| `core` | `FramesIntact`, `ChainUnbroken`, `NoReaderFault`, `WriterRestarts`, `InOrder` | two threads, one lazy reader from the start, two deaths outside the two windows in which frames are lost, one that leaves a page without a header included, and up to three page turns: after that one the writer dies at every start, after all others it starts |
| `follow` | `ImplementsEventLog`, `CatchesUp` | a reader with `from_time` before and inside the published frames, equal time stamps included, joining outside a page turn, and searching while the writer turns pages, dies and restarts; every frame reaches it |
| `loop_master` | `NoDangling`, `EachOnce`, `EveryFrame` | the master's loop; journals come and go between polls |
| `loop_app` | `OldestFirst` | an apprentice's loop with three journals, Deregister included |
| `reg_safe` | `Sessions`, `Agreement`, `Follows`, `NoCrash` | coming, asking, dying, restarting early or late, deregistration, in a new installation (`Old = {}`), with frames given out late: the two ways to die of what is read are the only ones |
| `reg_live` | `Settles`, `Freed` | registration ends, locations become free |
| `orders` | `Tracked`, `ValueConserved`, `Consistent`, `BookExact`, `NoZombie`, `Resolved` | an order of either kind from its insertion to its end, a cancel or a query, a stream that ends and is replaced, a restart of the strategy |
| `timers` | `TimersServed`, `Fires` | two timers, intervals or timeouts, events of different age, deaths and restarts: no timer is left without an event that fires it |
| `rest` | `InStep`, `AtMostOnce`, `Answered` | three calls of the shared client while exchanges fail at every stage: answers go to their callers, a request waits only behind a failure |
| `market` | `FeedsFiled`, `Fed` | subscriptions to two channels that share a callback type, a fault, restarts that wait in `stop`, addresses used again: one feed per channel, filed where the status check looks, and the data of both keeps coming unless the I/O thread waits for a silent peer |
| `ledger` | `StatesTold`, `BooksFollow`, `Present` | a trader and a strategy come, go, are connected and trade while the ledger lags: states, books, writers and clients agree with the system once it has caught up; with one frame handled before an older one, or passed over: what still holds, and that the ledger throws only then |
| `conversions` | `WireFaithful`, `LoadSafe`, `JsonFaithful`, `RecordKept`, `TermsKept`, `FinalWhenDone`, `BarsFaithful` | every small text, message, record, order and sequence of trades through its conversion |

Several invariants are conjunctions of named parts, each with its own comment in
the module: `LoadSafe` is `TwoPasses` (the second pass of the parser uses exactly
the tokens the first one counted), `WellNested` and `PastHarmless`;
`JsonFaithful` is `JsonAccepted`, `NumbersExact`, `AtFinds` and `DumpReloads`;
`WireFaithful` is `NothingMadeUp`, `DecimalsSpelt`, `RoundTrip` and the type;
`RecordKept` is `NamesApart`, `JsonKeeps`, `OrderOfInput` and the type;
`TermsKept` is `Understood`, `ReportIsOfInput` and the type; `BarsFaithful` is
`BarIsOfTrades` and `BarsAdjoin`; `InStep` is `FrontInFlight`, `Matched`,
`StallsBehindFailure` and the type; `FeedsFiled` is `OneFeed`, `FeedIsFiled`,
`NoVoidFrame` and the type; `StatesTold` is `StateReported` and `Informed`;
`Present` is `NeverThrows`, `Reached` and the type; `TimersServed` is `Awaited`,
`OwnSession` and the type; `Sessions` is `Tracked`, `Session`, `ChannelSources`
and the type; `BookExact` is `FrozenExact` and the type. The mutants of
`PROJECT.json` break these parts one by one.

*Bounds.* A page of 6 units holds a header and two or three frames, so with 5 or
6 frames the writer turns pages up to three times, once with each possible
remainder at the border; `DataLen = {0, 1}` gives frames with and without
payload. One death puts a restarted writer at every position, a second one (`MaxCrash`
= 2 in `core`) meets a writer that was restarted before, or one that dies at its start; two
threads are enough for every overlap of two critical sections.
`MaxFrame`, `MaxPage`, `MaxCrash` are the only bounds on counters of `Journal`.
In `EventLoop` two or three journals with two frames each let a
frame appear before, during and after each look of a sort, and a journal be
joined, left and joined again. In `Registration` two applications and three
processes (`MaxPid`) let one application be restarted while the other reads, and
one request (`MaxRequest`) gives a channel or a request to a location that left; `Old` is empty in `reg_safe`, so that every
commands journal may be missing. In
`Orders` one order of volume 2 is filled at once, in two parts, in part, or not at all; orders
interact only through the map (`Other`) and the sums of the book, and the
proofs hold for any number of them. Two streams (`MaxStream`)
are a stream and its replacement, or both at once; one action (`MaxAction`) and one restart (`MaxStart`
= 2) meet every state of the order.
In `Timers` two timers (`MaxTimer`) are enough for an event that was asked for by
one to meet the other, a lag of 2 (`MaxLag`) and durations 1 and 2 put an event
before, at and behind each due time; `Delay` has a timer in the past. In `Rest`
three requests, one with a body, one without, one synchronous, and four
exchanges (`MaxFlight`): a queue of two, a second exchange for the same request
and one more. In `Market` two addresses are shared by two channels, so that one is used
again as soon as it is free; one fault (`MaxFault`) falls at any stage, and a websocket that hangs for ever takes one of the two
addresses, so that the other goes from channel to channel (with two such faults no address would be
left, which only the bound on `Addr` makes possible); a repeated request (`MaxRequest` = 2). The
trade and ticker channels and more faults are left to the proof of `FeedsFiled`. In `Ledger` three steps of the system
after any start, while at most one frame or request is unread beyond what a
handler causes (`MaxLag`): registration, connection and trade of one pair in every
order. `MaxEvent` bounds these steps and the frames read before an older one together, `MaxOvertake` = 1 the latter:
one such frame leaves two steps, enough for a
Register, a report or a state to be overtaken or passed over. In `conversions`, all texts of up to 6 pieces of structure and numbers and 5 of
strings and words, messages with two spoilt keys and lists of up to two
(`MaxSpoilt`, `MaxLength`), containers up to a counter of 3 (`MaxKlen`,
`MaxChilds`), up to four names set in a struct (`MaxSet`), a base coin that ends with
the name of a quote coin (`WBTC`), a quote that is not listed (`FDUSD`), a status
that is not listed, and four trades around the ends of bars of length 2.

Every run but `timers` switches the deadlock check off because its bounded
workload just ends; `timers` has none (time always goes on).

*Fairness.* `follow`: weak fairness of a thread's steps (a frame that was
opened is closed: no caller of the system blocks in between), of the restarted
writer's constructor, and of every reader's polling (`hero::produce` loops while
the process lives). Starting a new frame and dying are not fair. `loop_master`:
the loop goes on, each turn of it comes to `data_available` (strong fairness of
`Poll`, because the master may join and leave journals before it), and a stamped
frame is published. `reg_live`: the loops of
the master and of living processes go on, `health_check` runs every second
and the register timeout has its own thread; starting, dying and asking are
not fair. `orders`: the strategy's and the gateway's loops go on, and the I/O thread
handles what has arrived (`ioctx_.run` with a work guard never returns); the
exchange, requests, restarts and the end of a stream are not fair.
`timers`: time passes, the master polls its tasks and requests at every turn of
its loop, and an application handles its events; adding timers, dying and
restarting are not fair. `rest`: both threads run on, and every operation on a
socket ends, with an answer or an error: the client sets no timeout, TCP has its
own. `market`: the loop opens and files what it has to do (weak), the status check runs
every five seconds, the I/O thread runs in its turn every handler that is ready
whenever it does not wait in `stop`, and a connected websocket that stays open receives (strong
fairness of `CheckStatus`, `OnRequest` and, per channel, `Handlers` and `ReceiveOn`: each is
interrupted by the others, and a channel with data gets to send it between two
faults). A peer that is not silent answers a close frame (`Answered`); nothing is assumed of one
that is, nor of a handler that hangs. Faults are bounded and not fair.

*Windows outside the runs.* The passing runs say where the code is safe. The same
modules show what happens elsewhere; each of these is reproduced by the
constant or the property named.

- Journal. `CrashAt = {"published"}` (death after a frame became visible and
  before `last_frame_position` is stored) breaks `FramesIntact`: the next page turn
  writes PageEnd over the frame. `CrashAt <- InRoll` breaks `ChainUnbroken`: the two
  pages are never linked, although the white paper promises recovery by replaying
  recorded frames. After a death in `"created"`, which the runs include, the page file
  without a header kills every later start (`TryAgain`, and `WriterRestarts` says so): only removing the file helps. `SeekRace = TRUE` with a nonzero
  `FromTime` breaks `JoinMissesNothing` and `NoReaderFault`: the begin time of a page without
  frames is 0, and a seek during a page turn skips the page before. `StepBack > 0`:
  the restarted writer overwrites frames. They share one cause:
  `last_frame_position`, PageEnd and the page file are separate stores, and the
  position is recovered from time stamps.
- Event loop. `Master = FALSE` with `"deregister"` breaks `EachOnce`:
  `reader::disjoin` in the middle of a Deregister event re-selects `current_`, and the
  following `next` skips a frame of another journal.
- Registration. With `FastRestart = TRUE` a process that was started before its
  predecessor was deregistered reads what the master wrote for that one, and may
  die of it while its own request still waits in the socket. The master then
  registers a process that psutil does not know, and the location stays taken for
  ever: `Harmed` excepts it from `Tracked` and `Session` (it takes more
  processes or requests than the run has). `FastRestart = TRUE` also breaks `Settles`: an application that is
  refused, because its predecessor's death was not noticed yet, hangs when somebody
  else's Register disarms its timeout. A frame that comes to the journal where `current_` was left, together with an
  older one in the other, is handled first (`hasty`): a RequestReadFrom before the Register of its source, and
  `get_location` throws; a Deregister or a Channel out of its order, and the
  process may no longer agree with the master, stop reading a journal it was told to read, or pass over its
  RequestStart. Without their exception for `hasty`, `NoCrash` and `Follows` fail in the run's bounds. `Agreement`
  and `Settles` do not fail there; they keep the exception because nothing in the code rules the case out
  beyond those bounds, and the proof of `Agreement` needs it. `EarlyDeath = TRUE` breaks `Tracked` (psutil does not
  know the process, the location is never freed). Where the
  commands journal does not exist yet (`Old`), the first Register event, whoever's it is, makes a process open it, and `page::load`
  dies if it was another's: the second part of `NoCrash`.
- Orders. `FinishedLeave` (an order the strategy was told is finished is not
  active) fails for a spot order that is filled before the answer to `new_order` is
  handled: the callback writes Submitted after the final frame. `AvailIsNumber`
  fails when a spot sell order ends unfilled: `avg_price` is 0/0 and NaN enters the
  available amount of the quote coin.
- Timers. Every Time event fires all due timers, and each asks again. A timeout ends
  with any late event, also one that its source did not send. A callback of
  `Context::add_timer` that throws leaves the current strategy index set.
- REST client. `raced` is the window: the loop reads `m_write_in_process` as false
  between the I/O thread's reset and its look at the queue. One request may then
  be in flight twice, `process_reply` hands an answer to the next
  callback or pops an empty queue. After a failure the rest of the queue waits for the next
  `post`. If `SSL_set_tlsext_host_name` fails, `m_write_in_process` stays set for
  ever. An HTML reply to a synchronous call looks like success. A callback whose value
  does not construct is not called at all (`invoke` swallows the exception): a
  cancel without `positionSide` is one.
- Market data. `DFuture` channels are kept by the futures object and asked of the
  spot one, so they are opened again every five seconds. The spot trade callback writes a Trade frame of zeros on
  every error (`NoVoidFrame` excepts it). The futures trade callback keeps its
  channel on an error of the exchange. A timer handler may run on a freed
  websocket. `m_set` and the cache are shared by two threads without lock. The
  depth callback reads ten levels unchecked. `_unsubscribe` also adds to
  `subscribed_symbols_`, and the gateway does not support unsubscription. A
  subscription with exchange "" is never delivered. A restarted gateway forgets all
  subscriptions. An address that is used again within one check hides a loss
  until the three to four hour restart; `Misfiled` is this window. When the timer stops a websocket whose peer is silent, the
  I/O thread waits for a close frame that does not come and no channel of the gateway receives anything until TCP gives
  up (`Stuck`); `Fed` without this exception fails. A websocket that hung before its websocket handshake is never
  deleted. The models take it that no wait in `stop` lasts so long that a connecting websocket is as old as its own
  restart; `on_connected` does not look at `m_stop_requested`, so it would go on and read. The user data streams of `Orders` have
  the same `stop`; there the end of a stream is not fair in any case.
- Ledger. A frame that is handled before an older one (`overtook > 0`) may be a RequestReadFrom before the
  Register of its source: `get_location` throws and the ledger ends. It may be a
  Deregister before a report of the same application, which then is never read, or one whose disjoin makes `next` pass over
  another broker's state or a trader's report: the ledger shows a state that
  is no longer true, or a book keeps an order that has ended. In `ledger` `NeverThrows`, `StateReported`, `BooksFollow` and `Reached` without their exception all fail;
  only `Informed` holds as it stands. A Register of another application that is read before the ledger's own
  registration makes it ask through a writer it does not have, and a
  connection made between its announcement and its registration makes
  `get_location` throw: both end the process before its start (state `"failed"`).
  A broker state written before the ledger's RequestStart is not heard, and the
  broker stays Connected. A client that stays across a restart of the ledger keeps
  showing a dead broker. A repeated registration subscribes books once more
  (`subs`), and RemoveStrategy leaves the subscriptions. A QryAsset that comes before the
  ledger has a writer is dropped. Several requests of clients raise in Python
  and send no reply on a REQ/REP socket (QryAsset, unknown types,
  PublishAllAssetInfo), so the client waits for ever; `ctx.orders` is
  always empty, so CancelOrder always answers NOT_FOUND.
- JSON. `[1 2]` and `[1, ]` are accepted, `[1,]` is not; one character after the value is
  ignored; `0e1` is refused, `-01` and `-0x1` are accepted; one character behind the text is
  read. `websocket.cpp:329` does not look at `json.error()`. `dump` of a root
  scalar dereferences a null parent, `dump` of a nested value uses the whole storage.
- Messages. A full name is read on into the next one. `OrderInput.from_json` reads
  `client_order_id` where `to_json` writes `order_id`; `Depth` loses `source_id`
  and `Order` its `avg_price` (`Lost`). `order_from_input` leaves seven members
  as the frame held them. A missing integer of a reply is silently 0. Some types print
  text that is not JSON.
- Codes. A quote coin that is not listed comes back unconverted ("BTCFDUSD"), the
  book cannot split it, and the order stays active. `e_trade_resp_type_to_string`
  spells ACK as "ASK" (never sent). `time_condition` is ignored: every limit
  order is GTC. Spot market orders send a price. An exception of `insert_order` for a Lock or
  Mock order leaves its record in `order_data_`. A status that is not listed
  (EXPIRED_IN_MATCH) is any status.
- Bars. An interval of `0s` is accepted by `parse_time_interval` and is not in the model. A trade exactly at the end of a bar is counted in both bars; a bar of
  zeros is written when the first trade comes after its end; volumes are taken as cumulative
  although a trade has its own.
- Not in a model: frame uids keep 16 bits of page and frame number; an exception between
  `open_frame` and `close_frame` leaves the mutex locked.

## 5. Proofs

`JournalProofs` proves, for any number of threads, readers, frames and pages and any page
and payload sizes that satisfy `SizeAssumption` and `FitAssumption`, from
`SafeCrashes` (deaths in any writer state, the one after the creation of a page file included, except the windows
between the header of a new page and the PageEnd of the old one and between a frame's publication and its `last_frame_position`,
and a clock that does not step back):

* `Invariance`: `IInv` is an invariant; one lemma per action, one step per
  conjunct the action can disturb;
* `TypeCorrect`, `MutualExclusion`, `FramesAreImmutable`, `ChainIsUnbroken`,
  `PageTurnIsSafe`, `DeliveryInOrder`, `FramesFit`;
* `WriterRestartsUnlessTorn`: a writer that is started after a death that left a page without a header
  dies at every attempt, and after no other death (`ITorn`: that page is the newest one).

*Why the invariant is what it is.* "No published frame is overwritten" is not
inductive: one has to know that the writer stands exactly behind the last
published frame (`IWriter`), that the restarted one gets there (`IBoot`: it
walks along published frames and its time is past all of them), that the place
PageEnd is computed from is exact (`ILast`), that nothing is published at or
behind the tail (`IFree`), and that frames of the same page do not overlap
(`IEntry`, `IChain`). For the readers, `IReader` says a cursor is always on a
published frame, on the tail, or on the page that is just being turned to.

From `SafeCrashes` and `CalmJoins` (readers join while the newest page holds a frame, or
all of them from time 0, as in the `core` run; the windows say what happens otherwise):

* `FollowInvariance`: `IFollow` is an invariant beside `IInv`;
* `ReadersNeverFault`: no reader dies in page::load, neither in its search nor later;
* `Refinement`: `Spec => ImplementsEventLog`. The initial states map to initial
  states (`InitImplements`), `Publish` maps to an event, `Join` to a request, the end
  of a search to a subscription and `Read` to a delivery; every other step is a stutter.

*Why the invariant is what it is.* A search compares times and the abstract log counts
events; what ties them is that frames are ordered by time as by address (`IOrder`), which
needs that the frame to come, once stamped, is not older than any before
(`IStamp`). A search that goes back over the pages has left nothing behind: each page
that is still to be looked at begins no earlier than all frames of older pages, and
the first page is among them; what a cursor has passed is not after
`from_time` (`Seeks`). So the search ends exactly behind the last frame that is not after
`from_time`, although frames appear and pages are turned meanwhile. `is_full`, which
`find_page_id` and `seek_to_time` ask first, is never true on a page that a search
loads (`NeverFull`): no frame is longer than what is left of its page.

`EventLoopProofs` proves, for any journals, locations and frames, from
`JournalAssumption` alone:

* `LoopInvariance`, with one lemma per action;
* `LoopTypeCorrect`, `PointerIsValid`, `OldestIsFirst`, and `HandledOnce` (the last
  one if no frame disjoins in the middle of an event, which it needs: see the
  windows above).

*Why the invariant is what it is.* That the oldest frame comes first is a
statement about the end of a sort that other processes interrupt. `ISort` says
what holds in its middle: every frame that was there at the start is still to be
looked at, or what is selected is not newer; and as long as nothing is
selected, `min_time` is not before any of these frames, which is why the clock
must be ahead of every stamp (`ITime`). For the count of deliveries, `ICount`
relates a cursor to the frames delivered, and is off by one exactly for the
current journal between delivery and `next`.

`OrdersProofs` proves, for any number of orders, streams, requests and restarts
and any volumes and price, from `OrdersAssumption`:

* `OrdersInvariance`, `LiveOrdersTracked`, `EndedOrdersStayEnded`;
* `FuturesConsistent`: `Consistent`;
* `ValueIsConserved`, with `TypeOK`, over restarts too, and `BookIsExact`: `BookExact`.

*Why the invariant is what it is.* That a live order is in `order_data_` needs
that it is emplaced before it is sent and sent once (`IFresh`: its OrderInput is
in one place only), and that a message which erases the entry means the end of
the order at the exchange (`ITrack`). That an ended order does not come back
needs to know the frames under way: as long as nothing is disputed, a final frame
is the last one of its order, in the queue and before it (`IEnd`), and its row is
gone. Conservation of value needs that every final frame accounts for the whole
volume (`Complete`), which in turn needs that nothing is filled beyond its volume
(`IFilled`). Nothing is needed about the order of frames: the book conserves
value even when it is told nonsense.

`Consistent` does need the order. With one stream at a time (`IStreams`) the messages of
an order arrive in the order of its changes (`IAhead`), and each is still ahead
of what the strategy has been told (`Ahead`); a REST error comes only for an order
that the exchange refused and of which nothing else is said (`ISaid`).

That the frozen amounts are what the active orders set aside is a statement about a sum
over a set, which one order joins or leaves at a time (`Exact`), and an order leaves
only when its end is told for the first time (`IBook`). The lemmas about sums
(`SumExists`, `SumUnique`, `SumInsert`) argue about a
smallest set for which they would be false, because the prover cannot use
induction theorems; that there is one follows from the order of the naturals
(`LeastNat`). With them, what `_set_init_asset` adds up at a restart is a number
(`SumsAreNumbers`): only orders that were inserted have rows, and these are finitely many.

`GatewayProofs` proves about `Rest`, for any number of requests: `RestInvariance`, `QueueInStep` and
`NothingTwice`.

*Why the invariant is what it is.* `AtMostOnce` needs to know where each request
is: in the queue, in a flight or done, never in two places (`IPlace`), and its
body, if it has one, with it (`IBody`: a body that was moved out is not sent again); this
holds however the threads meet. That the answer goes to the request it belongs to needs
whose turn it is (`ITurn`), which a meeting of the threads destroys, and that a
connection is answered before it is shut down (`IAnswer`). `IAwake` says
somebody will go on with the queue unless an exchange failed.

`TimersProofs` proves about `Timers`, for any number of applications and timers, any delays and
durations and any age an event may have when it is read: `TimersInvariance` and
`NoTimerForgotten`. A step that takes time is two steps in one, so the proof
looks at what the process leaves behind (`Shape`, `Served`), and one lemma
(`Aging`) lets the time pass over it.

*Why the invariant is what it is.* Timers compare strictly, so an event must be
strictly later than the timer is due. A request must therefore carry the duration of its
timer (`Asked`) and a settled timer must be due before a task that is made for
it now (`Settled`), which rests on the clock: no two frames are written at the
same time. `Asked` also says that a request belongs to
the process that runs, without which a task of an earlier process with the same
id would be taken for this one's.

`GatewayProofs` proves about the conversions of the gateway, one invariant and one
or two theorems each:

* `WireFaithfulAlways`: `WireFaithful` for every type of message, any lengths of
  its arrays (`MaxLength`) and any number of spoilt keys (`MaxSpoilt`);
* `TermsKeptAlways` and `FinalWhenDoneAlways`: `TermsKept` and `FinalWhenDone` for any
  coins (`CodesAssumption`: a base coin is a word of at least one syllable, a quote
  likewise) and any words the exchange adds to its statuses;
* `RecordKeptAlways`: `RecordKept` for every struct and any number of names set.

*Why the invariants are what they are.* In `Wire` the histories are short, the data is not:
some 60 types. `WireIInv` says where the keys of a message in flight come from
(`InFlight`) and that `first` and `again` are what `ConstructAny` makes of it. What
is left is about the tables: a table fits (`Fits`) when no two members are read from the
same key and only arrays are asserted to be arrays, and prints as it reads (`PrintsAsRead`) when
the keys of `operator<<` are those of `construct`. Most types are plain, so one lemma
(`PlainFits`) and one about parts put together (`NamedJoin`) settle them; those
with keys of their own (klines, aggregated trades, futures orders) are looked at one
by one, and `TypesFit` collects them. Then `GetGives` says what a member can become,
and `PrintsBack` that what is not read as expected is printed as something that
reads the same again. The answer to a new order needs more: the keys that are there decide which of three
types it is, and a missing key may make it another, so `FlightReads` holds for the
type that is constructed and not for the one that was sent.

`CodeIInv` ties a report to what was sent and that to the input. The proof
then goes through both enumerations word by word (`SideComesBack`, `TypeComesBack`,
`StatusOfWord`), and through the symbol by what `rfind` finds: the last place
of the last syllable is its end (`LastPlace`), so the cut falls between the coins even
if the base coin ends with the name of a quote (`SymbolComesBack`). A quote that is not in the
list comes back as another symbol: the property says for which quotes it holds.

`MessageIInv` says that a record holds of each name what was set last, its JSON what
the getters return of it, and an order what `order_from_input` makes of an input. A
getter reads on to the first NUL (`GetterStarts`), so a name is its own
member exactly if it fits. `NamesKeepIds` and `NamesFit` follow four `strcpy`s, each
of which may run over the members behind its name: the ids lie before all names, and
the numbers that lie behind are assigned afterwards (`OrderLayout`, `InputLayout`).

`TimersProofs` also proves, about the other component that divides time,
`BarsFaithfulAlways`: `BarsFaithful` for any interval, clock, prices and sequence of trades, from
`BarsAssumption`.

*Why the invariant is what it is.* That the counts and prices of a bar are those
of its trades is no invariant by itself, because a trade at a border may be counted in
either bar. `BarIInv` says of each bar that there is a set of trades it is of (`BarIsOf`):
all inside its time and some at its ends; and, of the trades, that none lies behind
the open bar and each that was not late is in the time of a bar. A trade past the end opens a bar some
whole intervals later (`SkippedEndBefore`, `BarReopens`): the arithmetic says the trade is within
it, and that no trade lies in the intervals skipped follows from the order of the bars.

`MarketProofs` proves, for any strategies, channels, addresses, requests and faults, from
`MarketAssumption`: `ChannelsFedOnce`.

*Why the invariant is what it is.* Two handlers that run in different threads open and
close websockets, and addresses come back. A channel that is to be opened is not
ready and nothing feeds it (`IOpen`), from `start_channel` on only the new websocket does,
and what feeds a channel is filed under the address the cache has
(`FeedIsFiled`), so that the status check finds it ready. A websocket the I/O thread waits for in `stop` is told to
stop and not yet deleted (`IWait`). This is so for the
channels of Spot and FFuture only (`Watched`): the others are asked of the wrong
object.

`RegistrationProofs` proves, for any number of applications, processes, restarts and
requests, from `RegistrationAssumption`:

* `ChannelsHaveSources`, whatever dies and is restarted when, and `SessionsKept` if no
  process dies before the master has read its request (`~EarlyDeath`; the windows
  say why it must be assumed);
* `ApplicationsAgree` and `ReadsFollow`, each for the processes that were given their frames in order,
  and `CrashesNamed`: of all processes, whatever order they were given their frames in, whichever commands
  journals exist and whenever processes die, only those die of what they read that `NoCrash`
  names.

*Why the invariant is what it is.* `Session` is about what a process will read: a
RequestStart on its way must already belong to the process that the master has
registered. `Pending` names these frames, also for a process that has not joined
its commands journal, whose cursor will be put behind the next Register;
`ISession` says whoever is or will be given a writer to the master is the only one
tracked for its location. For the agreement, `Locs(public, n)` is what the public journal
says before its nth frame. `ITimely` says that each frame of a
commands journal repeats what the public journal said at its time, and `IOrder`
that a process reads both journals in the order of times unless it is `hasty`; so a snapshot is, when
it is read, just what the process has already been told, or completes it
(`IKnown`). `IFresh` orders what a process of a free location is told: it reads
nothing of the commands journal before it is registered, then the locations come before any request that
names one, and only one frame makes the writer to the master. `Told` is what `reads` holds
at any moment in between.

`LedgerProofs` proves, for any number of applications and orders, any lag and any life
of the ledger, from `LedgerAssumption` (the kinds of applications are disjoint,
none is called like a part of the master, and there are finitely many):

* `LedgerInvariance`: `Inv` is an invariant, for any `MaxOvertake`: the state is well-formed and clients are told in any order of reading,
  and `LInv` holds as long as `overtook = 0`; one lemma per step of the system and per
  frame the ledger reads, one step per conjunct;
* `StatesKept`: `StatesTold`; `BooksKept`: `BooksFollow`; `LedgerPresent`: `Present`.

*Why the invariant is what it is.* What the ledger holds is about the past of the system,
and the system has gone on: `live` and `links` say what is up now, not what was up
when a frame was written. `Alive(n, a)` recovers the past from the frames that are
still to come (an application was up after n frames if it is up now and nothing
behind n says otherwise, or if the next thing said of it is that it goes). With it, the
log is described once and for all: who is named in a frame was up (`INamed`), who came
back was registered again (`IBack`), a ReadFrom is followed by its Channel
(`PairsTold`), and reports come on links that are told (`LinksOK`). A step of the system only adds
frames behind (`GrownBy`), so most of the invariant is about a part of the log that no
longer changes.

The ledger itself goes through three stages. While it waits it has read nothing but
public frames of others' ends, and either it is not registered or its own
registration is ahead, with everything the master then writes to it (`IWait`, `Welcomed`).
Between its registration and its RequestStart, each application is known or its Location is
still to be read (`IJoined`). Once started, its place in the log is a single one: all before
has been read, on whatever journal, and nothing behind (`IPlace`), since, as long as
`overtook = 0`, the oldest frame came first. (After that nothing is claimed of what it holds, only that its tables are well typed
and that whatever it learns is told.) This is what makes `known` exactly the applications that were up at its
place. The hazards of the C++ code are then: a journal joined late (`ICur`: what is known is
joined, with the frames since), a state that survives a broker (`IStates`), an application
nobody asks a writer for (`IReach`: the request, the grant or the registration is
still on its way), a report that is applied twice when trader and strategy
are both subscribed (`IBooks`: the last report of an order before the place
decides), a client that is not told (`Informed`).

*Only model-checked.* `LoadSafe` and `JsonFaithful` of the parser: `FlatJson` is recursive like the code, a value
in a container in a value, and what it computes for texts of every length takes an
induction over data, which the prover cannot do. With it `Reply`, which extends `FlatJson`: the
theorem about `Wire` is about `WireSpec`, whose initial states are the messages that
`Reply` hands over and whose steps are those of `Deliver`; that what arrives there
comes from a text that was loaded is left to the run. The liveness properties `CatchesUp`,
`EveryFrame`, `Settles`, `Freed`, `Resolved`, `Fires`, `Answered` and `Fed`: the
prover does not handle fairness. The proofs also cover what no run
lists any more because they settle it for every instance: `TypeOK` of the journal and the loop,
`Exclusive`, `NextPageReady`, `FrameFits` and the inductive invariants.

## 6. Not modelled

Every part has its reason in the `components` list of `PROJECT.json`. In short:

- positions, algo orders and the metric controller are open steps of the plan;
- replay and backtest modes, CLEAR_JOURNAL, `mark_with_time`: not used by a live system
  in its default configuration;
- leverage and position requests are forwarded without state of their own;
- user-data channels are in `Orders`, not in `Market`; the streams no gateway opens,
  `unsubscribe*` and `async_stop` are left out; so are byte 255, values of 4 GB
  and indentation in `FlatJson`, and volumes in `Bars`;
- requests of clients to the ledger other than refresh and remove, its market
  data monitor (timeouts as in `Timers`) and its database;
- signing, HTTP, TLS, nanomsg, SQLite, logging, hashing, stack traces: libraries or plumbing;
- `reports.cpp`, `tools.cpp`, `pairslist.cpp`: tools of the client library that the gateway does not call;
- mocks, the command line and the bindings hold no state of the system.
