# A verification of the UTP market data server and client

TLA+ models of the programs in `src/`: `utp_server`, which generates FX market data and
multicasts it as SBE messages, and `utp_multicast_client`, which receives one multicast
group, with the libraries they are built from. TLC checks the models on small instances;
TLAPS proves the properties that matter most for every value of the constants.

## 1. The system

    generate_update --event--> OrderBookManager --> OrderBook (one per instrument)
          |                                             ^
          | listeners (weak pointers)                   | get_bids/get_asks
          v                                             |
    ReutersProtocolAdapter <--- run_once, snapshots --- main loop <-- signal
          |
          v
    ReutersMulticastPublisher --> ReutersEncoder --> SBE codecs (flyweights on a vector)
          |
          v  UDPTransport: A and B, definition and snapshot groups, A and B of each channel
    ~~~~~ UDP multicast: packets are lost, repeated, reordered ~~~~~
          v
    UTPClient (one group) <--- loop of the client's main, or run/stop <-- signal

| Component | State it keeps | Operations | What is hard | What makes it correct |
|---|---|---|---|---|
| `OrderBook` (`core/src/order_book.cpp`) | levels by price on two sides, the last 100 trades, statistics | events: quote (add, change, overlay, delete, clear a side), trade, book clear; direct `add_level`, `update_stats`; queries | 0.0 as "none yet", a 32-bit count, zero quantities, limits | the book is what the events say; statistics are those of the trades; a snapshot rebuilds the book |
| `OrderBookManager` (`core/src/order_book_manager.cpp`) | instruments, books, `mutex_` | add instruments, create, clear and reset books, apply an event, snapshot, hand out a book | books used outside the lock; events for books that are gone | nobody changes a book that another thread is in; every event reaches its book unless that was reset |
| `MarketDataGenerator` (`core/src/market_data_generator.cpp`) | listeners and `listeners_mutex_`, sequence number per instrument, statistics | update (quote or trade), snapshot, statistics event; add, remove, clear listeners; reset | callbacks under a mutex, apply and notify under different locks, listeners that expire | every listener hears every event once, in order; every call returns |
| `ReutersProtocolAdapter` (`src/reuters_protocol_adapter.cpp`) | `running_`, the publisher, instruments, two timers | initialize, `run_once`, `on_market_event`, definitions, shutdown | failed start, timers | nothing is sent unless it runs; announcements recur |
| `ReutersMulticastPublisher` (`src/reuters_multicast_publisher.cpp`) | transports, sequence number per channel, enabled channels, statistics | initialize, publish (four kinds), heartbeat, end of conflation, enable a channel, shutdown | one counter for several feeds, partial start, shutdown twice, ignored send results | numbers increase and name one message; A equals B; gaps are explained; silence after shutdown |
| server `main` (`src/reuters_server_multicast_main.cpp`) | `running`, timers | set-up, loop, periodic snapshots | signal anywhere, order of set-up | a signal stops it; late joiners are served rightly |
| `ReutersEncoder` (`src/reuters_encoder.cpp`), packet header | a vector of fixed size | encode each message | counts cut to 16 bits, enumerations cast, two layers of headers | a whole message or an exception |
| generated codecs (`include/utp_sbe/utp_sbe`) | offset, position, acting block length; group count and index | wrap, set, get, count, next, rewind, `decodeLength` | setters without checks, later schemas with longer blocks | writes stay inside; what was set is read |
| `UTPClient` and its `main` (`utp_client/`) | socket, connected and running flags, `g_running` | connect, receive, search a header, dispatch, disconnect; `run`/`stop` | heuristics over raw bytes, unsigned arithmetic, the network, a second thread | each message reaches its parser; the socket is released; a stop ends the loop |
| transports (`src/udp_multicast_transport.cpp`; `src/udp_transport.cpp`, which the Makefile does not build, and `src/tcp_transport.cpp`, which is linked and used by no program yet) | descriptors, `is_sender_` | create, send, receive, close, destructor; accept; a loop over partial sends | failed and repeated set-ups, descriptor 0, partial sends | one owner of each descriptor; whole messages on a stream |
| JSON loader, tests, duplicate and older sources | | | | not modelled, see section 7 |

`PROJECT.json` lists every component with its status, the hazards of this code line by
line, and the source lines of each definition.

## 2. Modules

| Module | Models | Correspondence |
|---|---|---|
| `BookOps` | what each operation of `OrderBook` computes | pure operators named after the methods; a side is a function from prices to levels, `Better` is the order of the `std::map` |
| `OrderBook` | one book as a state machine | `levels`, `recent_trades`, `stats` are the members; `ApplyQuote`, `ApplyTrade`, `ApplyBookClear` are the three cases of `apply_event` that do something. `Spec` is the book driven by events; `ApiSpec` adds the operations no event reaches. `tape` (history) is every trade since the last clear; `Total` over it and `Rebuilt` (the levels of a snapshot, added one by one to an empty book) are recursive functions, so that the proofs reach them |
| `MarketLedger` | what a book promises | a resting quantity at each side and price, and the tape: no maps, no levels. `OrderBook` implements it with `resting` mapped to `Resting` |
| `Library` | manager and generator under several threads | a method that locks and returns is one step, taken when the mutex is free; what touches the inside of a book is a step of its own between two others (`Begin...`/`End...`), and `call[t]` is where thread t is. `generate_update` is seven steps with two lookups, the application and the notification under different locks. A listener that is called decides in that step whether it asks the manager (`asks`), and the notification goes on only when the manager has answered (`AnswerListener`). `epoch`, `settled`, `published`, `unapplied` are history |
| `EventBus` | what the generator promises its listeners | one publication at a time, in the order of the numbers, heard once for each registration (`Kept` filters the listeners that are alive). `Library` implements it with `log` mapped to the completed notifications |
| `Publisher` | `ReutersMulticastPublisher` | `open`, `sequence_numbers`, `channel_enabled`, `pub_stats` are its members; `Initialize(n)` lets `n` of the sockets be created; one action for each public operation; `sent[f]` is what each feed carried, `stream[c]` (history) the messages numbered on a channel |
| `Server` | `main`, generator, adapter, books | `pc` is the place in `main`, one action for each step another step may come between; `Signal` and `TimePasses` are the environment. `published`, `mirror`, `joined`, `last` (history) are an ideal subscriber: what the received messages tell it. Uses `BookOps` for the books |
| `SbeSchema` | the layouts of the five messages | for each field its offset, width, the codes of its enumeration and what a composite's `wrap` compares with the end of the buffer, as the accessors have them |
| `Flyweight` | message, group and composite classes | `msg` and `grp` are the members, `mem` the stretches written into the buffer: each carries the key of the field it was meant for, so that any overlap or confusion shows. Whatever a check refuses goes to `"threw"` |
| `ReutersEncoder` | the five encode functions | each is the sequence of calls it makes on the flyweight; the buffer is then cut and read back. Its assumptions say which block lengths and codes the classes have and what an event carries; TLC evaluates them for the layouts of `SbeSchema` |
| `Wire` | packet header, SBE header, the bare header of an end-of-conflation marker (with a clock reading of its own, `made`), `parse_message`, `parse_sbe_message`, the size test of the raw decode | 16-bit words at the even bytes the client looks at; sequence numbers keep their width |
| `Client` | the client process and the network | `net` holds every packet sent to the group; `Receive` takes any of them any number of times: loss, repetition and reordering. Uses `Wire` |
| `Descriptors` | the descriptor table and delivery on the host | a new socket gets the lowest free descriptor; descriptor 0 may be standard input or free. External code, modelled from its use |
| `UdpEndpoints` | multicast `UDPTransport`, plain `UDPTransport`, `UTPClient` with the thread in `run` or `process_single_message` | `receive_data` is one step for each place where another thread may come between: the test of the flags, the check, `select`, `recvfrom`. A call that only returns an error is left out |
| `TcpTransport` | `TCPTransport` and its peer | `send_data` is a loop of steps, each taking some bytes of the rest; an error ends it, with the connection reset or, as after `EINTR` or `ENOBUFS`, still usable; `told` (history) is what it returned |
| `Endpoints` | one process with all of these | composes the three over one table, so that a descriptor that one object loses or closes twice is another's |
| `MCOrderBook`, `MCLibrary`, `MCPublisher`, `MCClient`, `MCCodec` | instances for TLC | constants; `MCCodec` joins `ReutersEncoder` and `SbeSchema`. `MCOrderBook`, `MCLibrary` and `MCCodec` also compare, on small inputs, what the models define by recursion or element by element with `FoldSeq`, `FoldLeft`, `SelectSeq` and `FlattenSeq` |
| `BookOpsProofs`, `OrderBookProofs`, `LibraryProofs`, `PublisherProofs`, `ServerProofs`, `ClientProofs`, `FlyweightProofs`, `EndpointsProofs` | theorems | section 5 |

The mutated forms ("Mutant: ...") stand before the definition they mutate. Each is a
plausible bug, and its property fails when it takes the place of the definition.

What the modelling abstracts. Prices are ticks (integers): the order of the map is all
the book asks of them, and `vwap` is kept as an exact fraction, so rounding of doubles is
outside the model. Random choices of the generator (side, action, price, quantity, the
instruments to update) are nondeterministic. `get_channel_for_instrument` is any function
(`ChannelOf`): in the source it depends on a hash of the symbol. In `Server` publishing is
one step that an ideal subscriber sees; numbering and feeds are `Publisher`'s subject,
bytes those of `Flyweight` and `Wire`. A read beyond the buffer in the client, and an
`FD_SET` of -1 that kills the process, are modelled as its end (`"crashed"`).

What the models take for granted of the callers, since the code does not defend itself
against the contrary and no caller in the repository does it:

* one thread generates (`instance_sequences_` and `stats_` have no lock), and users of a
  `UTPClient` connect and disconnect only while no thread is in `run` (`m_socket` has none);
* no listener adds or removes a listener from its callback (it would lock a mutex that its
  own thread holds);
* the multicast groups of one host have ports of their own.

## 3. Runs

| Run | Module, cfg | Question | Bounds |
|---|---|---|---|
| `order_book` | `MCOrderBook`, `MCOrderBook.cfg` | Do levels, recent trades and statistics stay right, does a snapshot rebuild the book, is the book a ledger? | 3 prices on 2 sides (every relative order of levels, crossed books), quantity zero and one, 3 trades: one more than `RecentLimit` = 2, and `CountModulus` = 3, so the count wraps. 16,576 states |
| `order_book_api` | `MCOrderBook`, `MCOrderBookApi.cfg` | Does `is_crossed` see every crossed book, direct operations included? | as above, one trade. 16,038 states |
| `library` | `MCLibrary`, `MCLibrary.cfg` | Under every interleaving of the generator with another thread: who is in which book, is an event lost, is the generator a bus, does every call return? | one instrument (books share only the lock), two listeners, the generator and one other thread, 5 calls besides adding the instrument and creating its book, which may come again: an update with a registration, a removal or destruction and a reset of the books during it, or two updates with a reset of the statistics between. A listener that is called may settle on asking the manager and then waits for its lock. 232,179 states |
| `publisher` | `MCPublisher`, `MCPublisher.cfg` | Numbering, gaps, mirror, statistics, shutdown | one channel with both feeds, one id without feeds, an instrument mapped and one not, at most 3 numbers on a channel before shutdown (an end of conflation takes two, so it meets a message before or after it); the two shutdowns are not under the bound. 307,439 states |
| `publisher_end_of_stream` | `MCPublisher`, `MCPublisherEndOfStream.cfg` | Are end-of-stream messages sent? No | finding |
| `server` | `Server`, `MCServer.cfg` | Is a subscriber's book right, is anything unpublished, is anything sent out of place? | one instrument (instruments share no state but the loop), 3 prices, 2 quantities, snapshots of one level, so that books are deeper than a snapshot, 3 events. 1,787,774 states |
| `server_live` | `Server`, `MCServerLive.cfg` | Does a signal stop the server, do announcements recur? | two instruments, one event each; every timer and loop with two passes. 125,490 states |
| `codec` | `MCCodec`, `MCCodec.cfg` | Do writes stay inside, is what was set read, does a snapshot arrive whole, do the lengths agree, which fields cannot be read? | all five layouts in full; vectors that end before the header, in the block, in the group's dimensions, in the second entry and behind everything; a later schema with three bytes more in block and entry; a count that wraps at 4 and is refused at 3, for books of up to five levels; every action, side and aggressor. 71,446 states |
| `endpoints` | `Endpoints`, `MCEndpoints.cfg` | Has every descriptor one owner, does the client's thread never block, is a TCP stream whole, does a stop end `run`? | descriptors 0 to 2 (three is what it takes for one to be lost, reused and closed again), two multicast transports, one group, messages of two bytes through a buffer of one, so that every send is partial, 5 calls: enough for a message to follow a cut one. 93,311 states |
| `client` | `MCClient`, `MCClient.cfg` | What does the client make of each message, and how does it end? | 2 packets in the network, counters before and inside the windows that read as a header and at both ends of the range, four times: an ordinary one, two on either side of a test and one that reads as a header for a parser; a marker's two clock readings are any two of them. 392,730 states |
| `client_parse` | `MCClient`, `MCClientParse.cfg` | Is each message given to its parser? No | finding |
| `client_survive` | `MCClient`, `MCClientSurvive.cfg` | Does the client survive a heartbeat? No | finding |

Failed sends of the publisher are in the model (`SendMayFail`); `FeedsAlwaysFaithful`
and `ClosedAlwaysSilent` cover them for every instance, so no run repeats them.

Deadlock is checked for the book. The others may stop (`CHECK_DEADLOCK FALSE`): after the
destructor, at exit, when the process is killed, and where a bound is reached. That no two
threads wait for each other is `CallsReturn`, which holds at the bound as well. Bounds
named in the models: `MaxTrades`, `MaxCalls`, `MaxSeq`, `MaxEvents`, `MaxPackets`,
`MaxPuts` (fields set in one message by a user of the codecs other than the encoder), and
`Fits` (sequence numbers below 2^32).

## 4. Fairness

* `Server!FairSpec`: weak fairness of `main` (one thread that never blocks: it sleeps for
  a millisecond in each round) and of the passing of time for each timer. Nothing is asked
  of the signal. Under it `SignalStops` and `LateJoinersServed`; the latter allows the
  server to have been stopped or to have failed to start. It holds although `main` tests a
  timer once in a round, because a timer that is due stays due until `main` resets it.
* `Client!FairSpec`: weak fairness of the client's `main`, whose receive waits at most
  100 ms. Nothing is asked of the server, the network or the signal.
* `Library!Spec`: weak fairness of each thread inside a call. Nobody has to make a call. A
  mutex is free for good once the calls of the bounded model are used up, so weak fairness is
  enough for `CallsReturn`. The generator holds the listeners' lock while a listener that has
  asked waits for the manager's; a method of the manager that waited for the listeners' lock
  before it gives its own back would stop both for good (`EndClearAllBooksTelling` is that
  mutant). That a thread is not starved by ever new calls of others is the mutex's affair and
  not claimed.
* `Endpoints!Spec`: weak fairness of the thread in `run`, of `send_data`, and of a peer that
  reads or closes: `send_data` spins on a full buffer (`EAGAIN`) and would do so forever for a
  peer that does neither. Nothing is asked of callers and datagrams: `StopHeeded` holds
  although datagrams may keep coming. `m_is_running` is a plain `bool` (`UTPClient.h:14`):
  that the thread in `run` sees the write of `stop` is assumed.
* The book, the publisher and the codecs are driven by their callers and have no liveness of
  their own.

## 5. Proofs

All by `tlapm`, from the named assumptions on the constants (`Price` positive, for
otherwise the 0.0 sentinel of the statistics means something else; limits positive;
channel ids positive, since 0 is the global channel; times after June 1970 in `Client`;
fields of a layout inside their block and apart; descriptors natural numbers; the name of
the generator's thread not another thread's; for the encoder the block lengths and readable
codes of the five messages, and events of natural numbers). Every invariant that a run checks
is the subject of a theorem, and so is every action property and both refinements.

Several of these theorems are about data of any length: tapes, books, lists of listeners,
streams, messages with any number of entries. Where a lemma needs induction it is by least
counterexample (a set of natural numbers that is not empty has a least member:
`LeastExists`, `Minimum`), which the provers can follow, and the models define by recursive
functions what the lemma is about.

* `BookOpsProofs`: the operations on levels keep their type and agree with each other
  (`ApplyQuoteAgrees`: a quote does the same to a part of a book as to the book;
  `TopPricesAll`: a book no deeper than a snapshot is wholly in it).
* `OrderBookProofs`: `TypeCorrect`, `LevelsAlwaysSound`, `StatsAlwaysBracket`,
  `BookImplementsLedger`, `RecentAlwaysNewest`, `CrossedBooksSeen`. `StatsBracket` is not
  inductive: it says nothing before the first trade, so `StatsInv` adds that the three
  sentinels are 0 and no recent trade exists while the tape is empty. The refinement maps
  quotes with a zero quantity, deletes and clears of a side to `Rest` and `ClearOneSide`, or
  to a stutter when the quote names no side. `CrossedBooksSeen` is about `ApiSpec`: the map
  of a side is finite (`FiniteSides`), so it has a best price (`LeastExists`, and
  `GreatestExists` by a smallest counterexample), and every pair is bounded by the best pair.
* `OrderBookProofs`, whole tapes and snapshots: `StatsAreTheTapes` and `SnapshotsRebuild`.
  `StatsMatchTape` says nothing of the statistics before the first trade, so `StatsTapeInv`
  adds that they are `NoStats` then. A trade appended to the tape adds its amount to a total
  (`TapeGrows`, from `Total` by induction over the prefix), takes the count one on modulo its
  width (`CountFollows`) and moves the mean by cross-multiplication (`MeanMoves`) as
  long as the count has not wrapped. For a snapshot, the i-th level is the one with i - 1 better ones
  (the `Rank` lemmas), so that after i levels the rebuilt side is the best i levels
  (`RebuiltIs`); `FiniteSides` makes ranks countable and `LevelsSound` keeps `ADD` from being
  a removal.
* `LibraryProofs`: `BooksIsolated`, `UnappliedAfterReset`, `LibraryTyped`, with `IInv`. That
  two threads are not in one book follows from who holds the mutex (`Locked`); that an event
  without a book had one when it was begun, from `Working`, which follows the book and the
  reset flag through the steps of a call; `Counted` bounds the numbers by the calls made and
  is needed for the types. `ImplementsBus` shows each step of `Library` to be a step of
  `EventBus` or a stutter: `Ordered` says that the event in flight has a number not above the
  counter and follows all published ones, which `reset_statistics` would break but for the
  epoch; `Delivered` that while the listeners are called nobody else has their lock, and that
  each living one has heard the event as often as it is registered before the index of the
  call. What the bus keeps of the list is then related to registrations by lemmas about
  `Kept`, a filter.
* `PublisherProofs`: `FeedsAlwaysFaithful` with `PubInv`, which adds that the counter of a
  channel is the number of messages in its stream (`NumbersMatch`): with it a fresh number is
  greater than every number sent before. `SendPreserves` shows it once for any set of
  channels and feeds, and every publishing action uses it. `SendMayFail` may be either, so
  this covers failed sends for any number of messages. `ClosedAlwaysSilent` with `ClosedInv`:
  a closed publisher has no open transport. `NoGapUnexplained` and `FeedsAlwaysMirrored` with
  `RunInv`: a publisher that got through `initialize` has all its feeds open
  (`FeedOrderCovers`), and nothing was sent before. `StatsAlwaysAccount` with `TallyInv`: the
  set of packets a statistic counts is finite and gains exactly one member when the statistic
  gains one (`SendTally`); a feed is never longer than its channel's counter
  (`LengthsBounded`), so the bound of the count hides no packet.
* `ServerProofs`: `ServerTypeCorrect`, `MirrorAlwaysRight`, `OnlyInitialEverMissed`,
  `PublishedOnlyWhileRunning` with `IInv`. `MirrorRight` alone is not inductive: an update
  that is not published would part the subscriber from the book, so `PhaseInv` says that in
  the loop the adapter listens and runs, that nobody has joined before, and that the
  instruments still to do in the initial market state have had no event.
* `FlyweightProofs`: `FlyweightTyped`, `WritesInBounds`, `FieldsRoundTrip`, for every sound
  layout, not the five of `SbeSchema` only (that these are sound is the assumption
  `LayoutAssumption`, which TLC evaluates in `codec`). The setters of plain fields check
  nothing, so `InBounds` needs to know where the blocks lie: `Extent` says that the n entries
  are adjacent and end where the position is, `Laid` and `Single` that every stretch in the
  buffer is where its key belongs and the only one there, `Stored` that the buffer holds what
  was put last. `Decoding` carries this over to a reader whose lengths come from the message.
* `FlyweightProofs`, the encoder: `SnapshotStaysWhole`, `EncoderSound`, `LengthsAlwaysAgree`,
  `NoOtherUnreadable`, for every event. `SnapshotIsWhole` is about the end, so `EInv` says by
  `Progress(d)` what d calls have done: which are left, which entry the group is at, and that
  the buffer holds every value put so far. A count that the cast has cut is less than the
  number of levels, so `next` refuses an entry and the call throws: no message with a cut
  count leaves. For the lengths, `Measured` says where the position must be after the entries
  written, and `EventMade` which event they are from. For the getters, `PutReadable` says that
  all values put and all calls left are codes the getter knows, but for `OVERLAY` and `CLEAR`.
* `ClientProofs`: `ClientTypeCorrect`, `HeaderAlwaysFound`, `OverrunsExplained`,
  `ParsersOnlyGetMisreads`, `SocketAlwaysReleased`. The lemma `ParseOfPacket` computes what
  `Parse` returns for every packet the server can send, by cases over the nine offsets; in a
  marker the search can stop at offset 32, where its own time stands, and nowhere else beyond
  the packet's header. The invariant says that `net` holds such packets only and that
  `handled` is a parsed one of them.
* `EndpointsProofs`: `DescriptorsAccounted`, `PlainLosesNoOther`, `RunnerNeverWaits`,
  `EndpointsTyped`, with `IInv`. `Accounted` is nearly inductive; `Kinds` adds that an object
  that reads holds a receiver, `Types` what an entry may be. Every action reduces to one of
  three lemmas about the table: it makes a socket (`MakeTable`: at a descriptor nobody uses,
  which needs that a set of natural numbers has a least one), closes one, or moves datagrams.
  `StreamStaysWhole` with `SInv`: `Streamed` adds to `StreamWhole` that the call in progress
  has a rest to send, so that a call that fails now has not sent its message whole. The stream
  is the blocks of the calls one after the other; that appending some bytes of the rest
  lengthens the last block and leaves the others is a fact about `FlattenSeq`, shown by
  induction.

Only model-checked: liveness (`CallsReturn`, `StopHeeded`, `SignalStops` of server and
client, `LateJoinersServed`), which under fairness is beyond the prover. The three runs that
expect a violation have no theorem. That the recursive functions of the models
agree with the community's folds is compared by TLC on small inputs (`TotalIsSum`,
`RebuiltIsFold`, `KeptIsSelectSeq`, `SideIsItsLevels`); the theorems are about the functions
as the models define them.

## 6. What disagrees with the documentation, and remarks

1. `shutdown` announces "end-of-stream messages" and by default sends none (`EndOfStreamSent`).
2. The client's dispatch knows none of the templates the server sends (`ServerMessagesParsed`).
3. A heartbeat makes the client read beyond its buffer (`KeepAliveSurvived`).

Behind 2 and 3, `client` shows what does hold: the header of definitions, snapshots and quotes
is found unless a number of at least 65536 or the packet's sending time reads as a header. The
end-of-conflation marker is 23 raw bytes with a clock reading of its own: when that one reads as
a header and nothing before it does, the search stops at offset 32 of 43, and either a parser
gets the last eleven bytes or the raw decode reads beyond three (`OverrunExplained`).

What a reader of the models will notice besides, and the properties take into account:

* The README calls MDFullRefresh a full snapshot; `main` cuts it to ten levels and leaves its
  RptSeq 0, so a subscriber cannot order it against the updates (`MirrorRight` is what it may
  still rely on).
* The market's initial state is generated before the adapter listens (`OnlyInitialMissed`).
* `generate_snapshot` and `generate_statistics` take numbers of the updates' sequence, for
  events that nobody is notified of: a listener sees gaps.
* An event whose book a reset took away between lookup and application is published all the
  same (`UnappliedOnlyAfterReset`); a snapshot or a clear may wait, the generator's unlocked
  reading of the book it quotes may meet `clear_all_books` (`Isolation`).
* A `stop` that comes before `run` has set its flag is lost: `StopHeeded` is about later ones.
* A second `connect` loses the first socket, and one that fails leaves the client connected to
  nothing, which the next receive hands to `FD_SET` (`RunnerNeverBlocks` says when).
* `send_data` gives up at every error but a full buffer, also at one that passes (`EINTR`,
  `ENOBUFS`) and after a part of the message: the connection stays open, and a later call puts
  its bytes behind a cut message. The peer cannot tell; a caller has to close the connection
  when `send_data` returns false (`StreamWhole` says what holds).
* The plain transport never closes a socket with descriptor 0, and sends again after `close`.
* `decodeLength` skips the block length compiled in, not the one in the message: it is right
  for this schema only (`LengthsAgree`). `rateTerm` of a definition is never set and its typed
  getter throws; so does the update action of OVERLAY and CLEAR (`UnreadableFields`). A quote
  whose side is NONE is encoded as an offer.

## 7. Not modelled

* The JSON configuration loader: text in, parameters out.
* `UTPClient_old.cpp` and the copies of the core under `src/src/` (not built).
* The bodies of the client's four parsers: they are reached only by a misread packet, and print
  or call a callback with what they read.
* The market modes of the generator and its loops that repeat `generate_update`; the
  manager's listings, which copy pointers under the lock.
* Socket options, joining and leaving of groups on an open socket, `receive_data` of the TCP
  transport: they change no state of the classes.
* Printing and JSON escaping in the codecs, byte order, single characters of an array.
* Rounding of doubles, wording of the output, `order_count`, `price_level`, time stamps, byte
  counts, `std::hash`.

## 8. Plan

Done, in this order: the book with its ledger, the publisher, the server with generator and
adapter, the wire and the client; the core library under several threads with the event bus;
the codecs with the encoder; the transports and the threaded client over one descriptor table;
theorems for each of them.

Left:

1. `Feed`: `Publisher` with a receiver that arbitrates the A and B feeds by number, and a
   specification of a reliable ordered feed that it implements while one of each pair arrives.
   The repository holds no such receiver, so this would be about what the feeds make possible.
2. The four parsers of the client, should they get the templates the server sends.
