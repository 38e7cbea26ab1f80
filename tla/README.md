# Verification of the people-counting stations

This directory holds TLA+ models of the programs of the repository, the TLC
configurations that check them on small instances, and proofs, checked by
TLAPS, of what holds for every instance. Paths below are relative to `src/`.

The repository is a set of Arduino sketches for stations that count the people
who pass a door or use an elevator, next to some climate values, and keep them
on an SD card or post them to openSenseMap; and the libraries the sketches
need, some of them changed or vendored. There is one thread per board. What
makes it hard is what the thread shares the world with: people who move while
it does something else, a card that fails, power that goes, a clock that wraps,
a server, and the firmware of a Wi-Fi module whose replies come asynchronously.

## Inventory

| Component | State | Operations | Interacts by | Hard behaviour | Correct when |
|---|---|---|---|---|---|
| Door station on SD (`Complete_codes/Final_door_SD`) | `nb_people`, `state`, `uptime`, the open file | `setup`, `loop`, `ppl_counter`, `write_file` | pings (NewPing), calls of the SD library | people move between any two steps; wrap of `millis()`; open fails; power loss | counts every passage once and no phantom; rows at the interval, in order |
| Elevator station on SD (`Complete_codes/Final_elavator_SD`) | as above, and `dist_max` | as above, with a calibration in `setup` and an early `return` in `loop` | as above, and the BMP280 | one calibration ping decides the threshold; passes without a ping | as above; the empty shaft is never a person |
| Posting elevator station (`Complete_codes/Sensebox_code_elevator`) | `nb_people`, `state`, `dist_mur`, `postingInterval`, the client | `setup`, `loop`, `postFloatValue`, `waitForServerResponse` | calls of the WiFi101 library | blocked in the library while people pass; server refuses, is slow or closes | no phantom; every post ends; sockets are given back |
| Posting door station (`Complete_codes/Sensebox_code_door`) | `nb_people`, `state`, `postingInterval`, the client | the same, with a response cut after 100 ms or one line | as above | the rest of a response comes in while the client is stopped and connected again | the same |
| Weather station (`senseBox.ino`) | `values`, `sensorsIndex`, the client | `addValue`, `submitValues`, `waitForResponse`, and `jmp 0` when it cannot connect | as above | a value has no name but its place in the array; restarts of the sketch | a value is stored at the place of its sensor |
| WiFi101 TCP client (`WiFiClient.cpp`, `socket_buffer.c`) | `_socket`, `_flag`, `_head`, `_tail`, `_buffer`; the registered pointers | `connect`, `available`, `read`, `flush`, `stop`, `connected`; the callbacks | calls into the socket layer; callbacks from the pump, through pointers | callbacks run inside any call; closed under the client; 20 s timeout | bytes arrive once, in order and all; `connected()` is true of a real connection |
| WiFi101 socket layer (`socket.c`) | `gastrSockets`, session counter, the transfer under way | `socket`, `connect`, `recv`, `close`, `m2m_ip_cb` | requests to the firmware, replies from it | sockets are reused while replies are on their way; replies in chunks | one receive under way per socket; replies reach the connection they belong to |
| WiFi101 event pump (`m2m_wifi.c`, `m2m_hif.c`) | interrupt and sleep counters, `hif_small_xfer` | `m2m_wifi_handle_events`, `hif_isr` | called from every method of the API | one full buffer or one paused transfer stops it for all sockets | never stopped for ever |
| WiFi101 control (`WiFi.cpp`) | `_status`, `_mode`, `_localip`, `_resolve`, `_client` | `begin`, `config`, `disconnect`, `end`, scans; `hostByName`, `RSSI`, `ping` | callbacks write the variables a call waits for, and stop the clients when the network is lost | one status for the network and for what a call waits for; late answers; `_resolve` is shared by all questions | the status is true; `setup()` ends; no client outlives its network |
| WiFi101 server, UDP (`WiFiServer.cpp`, `WiFiUdp.cpp`) | `_flag` with the accepted socket, `_client` | `available`, copies of clients | callbacks | copies register other buffers | as the client |
| NewPing (`libraries/NewPing`) | echo timers | `ping`, `convert_cm` | ports | no echo is distance 0 | the distance of the nearest surface, or `NO_ECHO` |
| SD library (`libraries/SD`) | one cached block, FAT and its mirror, directory, open files | open, read, write, seek, flush, close, exists, remove | blocks on the bus | power loss at any write of a block; one cache for everything; the card fills up | what was committed survives, every file reads as written, clusters are owned once |
| Counter with a total (`Complete_codes/SD_uS`) | the total, in a file that is removed and written again | `write_file` | calls of the SD library | power loss between the removal and the new row | the file holds the last total |
| Ethernet, older Wifi library, sensor drivers, demonstrations | | | | vendored, or straight-line code | not modelled |

`PROJECT.json` names every component with its sources and what is left out.

## Modules

| Module | What it is |
|---|---|
| `Corridor` | The scene in front of an ultrasonic sensor: a person or the wall, and what a ping returns. People are the environment; `passages` counts what a perfect counter would. |
| `PassageCount` | The abstract specification of a people counter: it counts passages, each once, none in excess, and in the end all of them. |
| `SdStation` | What the two SD stations share: `loop()` with the log, the counter and the power. `EXTENDS Corridor`. |
| `DoorStation`, `ElevatorStation` | The two sketches: their `setup()`, their thresholds, the pass without a ping. |
| `WifiClient` | `WiFiClient.cpp`, `socket_buffer.c`, `socket.c` and the pump, with the firmware and the peer at the other end. |
| `PostStation` | What the three posting sketches share: the counter, and the steps of an instance of `WifiClient` taken where the sketch has come to the call that makes them. `EXTENDS Corridor`. |
| `ElevatorPost`, `DoorPost`, `BoxPost` | The three sketches: `loop()`, the wait for the response, what follows a failure. |
| `Posts` | A station with any of the three, on the library and the firmware, while people walk by. |
| `WifiControl` | `WiFi.cpp` in station mode: joining, losing and leaving a network, and scanning. |
| `SdVolume`, `SdFile` | The SD library as operators on the state of a call: cache, FAT and chains of clusters; files in the root directory. |
| `FileStore` | The abstract specification of the files of a card: what is read, and what a power loss leaves. |
| `SdCard`, `MCSdCard` | A program that uses the library in any order its discipline allows, or keeps a total as `SD_uS` does, with power losses; and its instance with symmetry. |
| `SdStation_proofs`, `DoorStation_proofs`, `ElevatorStation_proofs` | The SD stations: lemmas about the scene and the shared steps, and the theorems of each station. |
| `WifiClient_proofs` | The TCP client: queues, sockets and requests; the stream. |
| `Posts_proofs` | The posting sketches, on an instance of `WifiClient_proofs`. |
| `WifiControl_proofs` | The status and the address of the network. |
| `SdFile_proofs`, `SdCard_proofs` | The SD library: lemmas about its calls; the theorems of `SdCard`. |

### How the models correspond to the code

*Stations.* `pc` names the place in `setup()` or `loop()`. A step ends where
something else may act: before the ping, between the first print of a row and
its close, at the `delay`. `Delay` is `delay(50)` and the time the rest of the
pass takes; `CheckLog` the `if` on `millis() - uptime`; `WriteRow`, `CloseRow`
and `OpenFails` the three ways through `write_file`, with the read-back of the
file and `uptime = millis()`; `PersonArrives`, `PersonLeaves` and `NothingNew`
the branches of `ppl_counter`. `PowerLoss` may come at any point and keeps only
`card`. `elapsed` is real time, which the sketch cannot see; it is what
`millis()` is compared with. `passages` and `sampled` are history of the scene.

*Library.* A client is a record of its fields; `sk` is `gastrSockets`, `reg` is
`gastrSocketBuffer`. The requests and replies are two queues, each in order, as
the host interface delivers them. A byte of the stream is the pair of its
session and its number, so that a lost, repeated or foreign byte shows. A call
of the API is split at its pumps, since only there a reply is handled: `connect()`
is `StartConnect`, any number of `Pump`s and `ConnectReturns` or
`ConnectTimeout`. A reply longer than what `recv()` asked for is handled in
chunks (`xfer`), and nothing else is handled meanwhile, as in
`Socket_ReadSocketData` and `hif_handle_isr`. The loss of the network is an event
among the replies: `wifi_cb` stops every client that `WiFi._client` (`holders`)
knows, and the firmware joins again only when the sketch calls `begin()`
(`Rejoin`). `Next` is the discipline of the sketches: they connect a client only
when it is not `connected()`, and with `FlushFirst` they stop it only after
`flush()`. With `StopsFirst` a sketch of several clients connects one only when
it has stopped every other whose connection is closed: so does each of ours with
its one client, before the next post.

*Posting sketches.* `pc` names the call of the library the sketch has come to.
The step of `WifiClient` that belongs to the call is taken there, and nowhere
else; `Pumping` is what the calls that wait handle meanwhile. `ReadLine` is the
wait of the door and weather stations, which read what has come in 100 ms up to
the end of a line; `Flushing` is the `flush()` before `stop()`. `Restart` is `jmp 0`:
setup begins again, with the variables of the sketch initialised and the module
reset by `begin()` (`Reset` of `WifiClient`). `sketch` is chosen initially and never
changes: it is which of the programs the board was given.

*Control.* In `WifiControl` the status has its number, because the code tests it
bit by bit. A call that waits is `call`, its loop condition `Waits`; it ends when
that is false or, with the events handled, when its time is over. One call of
`m2m_wifi_handle_events` may handle several events, so `Pump` may be taken again
before the loop looks. `init` is any first call but a scan, which is `FirstScan`:
it puts aside the status of before `init()`. `order`, `link`, `owed` and `events` are the firmware, which
tells of every network it leaves. `upset` is history: a scan was disturbed by
the network, gave up, or was answered when nobody waited.

*SD library.* A C++ function is an operator from the state before the call to
the state after it, a record of the volume, the file, and whether an earlier
step has failed (`Then` does nothing after a failure, as the `goto fail` of the
code). `cards` collects the card after every write of a block, so that a power
loss in the middle of a call is a choice from it. The actions of `SdCard` are the
calls of a program. `content` and `safe` are observations, recomputed in every
step by the library's own `openRead` and `read`: what the program would read now,
and what it would read after mounting the card as it is. They are what
`FileStore` speaks of.

*Abstractions.* The bus is reliable and `hif_send` succeeds; the text of
requests and the climate and sound values are left out, since nothing depends
on them; `write()` sends and changes nothing on the host; distances are small
numbers of which only the order matters; time in `connect()` is the choice
whether the reply has come before the 20 seconds are over (`SlowConnect`), which
may be only when the loop has handled whatever was there, or cannot.

*Variants.* An operator `Name_Something` with a comment that begins "Variant:"
is not part of the model. It is `Name` with a plausible mistake, used to see
that the property it is paired with in `PROJECT.json` notices.

## Runs

| Run | Module | Distinct states | What it shows |
|---|---|---|---|
| `Door` | DoorStation | 1 041 681 | no phantom, rows at the interval across the wrap of `millis()`, in order across a power loss and failing opens |
| `Door_no_echo` | DoorStation | (violation) | a lost echo is counted as a person |
| `Elevator` | ElevatorStation | 87 438 | the same counter under every calibration; the threshold stays in front of the wall; slow people are all counted and logged although the BMP280 and the card fail now and then |
| `Posts` | Posts | 217 601 | the three sketches on the library: no phantom, every post ends, sockets come back, a value keeps its place, the client is used as `WifiClient` supposes |
| `Wifi_client` | WifiClient | 972 863 | one client, three connections on two sockets, and the network lost once: the stream is intact and complete, one receive under way, no null callback, a lost network closes its clients |
| `Wifi_clients` | WifiClient | 607 495 | two clients, three connections on two sockets that change hands, slow and refused, replies in chunks: none closes the socket on which a reply of the other is paused, `connect()` ends |
| `Wifi_small_overwrite` | WifiClient | (violation) | in the build for little RAM a later reply overwrites unread bytes |
| `Wifi_late_reply` | WifiClient | (violation) | a late connect reply marks a client without a socket as connected |
| `Wifi_control` | WifiControl | 510 616 | a network that comes and goes, scans, `disconnect()` and `end()`: the status is true unless a scan was disturbed, no address outlives its lease, the loop of `setup()` ends |
| `Sd` | MCSdCard | 107 955 | two names and two handles on a card that fills up, a power loss anywhere: the library implements `FileStore`, a cluster has one owner and none is lost, the mirror is the FAT, every open file reads as written |
| `Sd_total` | SdCard | (violation) | a power loss while the total is removed leaves a file no later total replaces |
| `Sd_overwrite` | SdCard | (violation) | a whole block written over the dirty block of the cache stops all writing |

### Bounds, and why they are enough

- *Scene.* One body in front of the threshold and one behind it (only their
  side matters), the wall at the limit of the range, two passages: a double
  count needs one passage and two counts, a phantom none.
- *Clock.* `UPDATE_TIME`, `MaxPass` and `Wrap` are as small as the assumption
  `UPDATE_TIME + 2 * MaxPass < Wrap` allows, so that behaviours wrap many times.
  In the code `Wrap` is 2^32, `UPDATE_TIME` 60 000 and a pass well below a day.
  The proofs do not depend on the values.
- *Card.* The newest rows are kept; `RowsInOrder` compares neighbours, so two
  are enough. One power loss gives two boots to mix up; a second would repeat
  the first, for nothing but the card survives one.
- *Sockets and sessions.* Two sockets, three sessions: reuse of a socket while
  replies of its last session are on their way, which is what the session
  numbers are for. In `Wifi_clients` the third connection takes a socket again
  while the other client is connected, or has a reply half read. `Posts`
  has a single socket, so a post that kept it would be noticed by the next.
  The network is lost once, in `Wifi_client` only (`MaxLosses`): the client may
  be connected, connecting again with an old entry in `holders`, or stopped.
- *Buffer.* `MTU = TCP_SIZE = 2` stands for the build in which a buffer holds one
  reply (1400 or 1446 bytes for both), 1 and 2 (in `Wifi_clients` and `Posts`;
  in `Wifi_small_overwrite` 2 and 4) for the AVR build (16 and 64). Segments
  fit, fill and exceed the buffer; in `Wifi_clients` the stream is one segment
  that exceeds it, read in three chunks with the buffer full in between. The two passing runs of the AVR build leave out
  the size that just fills it, 2: with it they show what
  `Wifi_small_overwrite` is there to show.
- *Posts.* Three pings a pass, two values a pass for the elevator and two
  sensors for the weather station: a first, a last and a next one.
- *Control.* Three events wait at most: a connection, its lease and its end are
  then seen by one pump. Two answers of a kind may be owed, so one call may get
  that of an earlier one.
- *Card.* Three clusters of one block of two bytes: a file of two clusters
  leaves one, so that two files fill the card, and a FAT entry and the next are
  in different blocks (three entries a block). A write is of one or two bytes:
  within a block, across the end, or a whole one. One power loss; after it a
  single file is open at a time, for writing. `Sd_overwrite` has two blocks in a
  cluster. Names and handles are symmetric.
- The bounds on streams and sessions end behaviours, and a station without a
  card halts: hence `CHECK_DEADLOCK FALSE` where it stands. `Door_no_echo` and
  the runs of the SD library have neither, and are checked for deadlock.

### Fairness, and why the code justifies it

- The processor runs while it has power: weak fairness of the steps of the
  sketch.
- `Elevator` adds strong fairness of the ping and of the log: neither the BMP280
  nor the card fails in every pass from some time on. Without it nobody would be
  counted, or nothing logged, rightly so; a station whose `setup()` has halted it
  is left out of the promise. People are slow there (`Hurry = FALSE`): with
  people faster than the pings no counter could promise completeness. There is
  no fairness for people.
- In `WifiClient`, `connect()` pumps until it returns, and the firmware works
  through its requests and answers a connect request, with success or not. With
  several clients the pump may meet a callback that writes through a null
  pointer (below); nothing is promised of `connect()` then.
- In `Posts` the server closes the connection in the end: the request says
  `Connection: close` (`Sensebox_code_elevator.ino:125`).
- In `Wifi_control` the access point and the router do not refuse for ever
  (strong fairness of `FwJoins` and `FwLeases`), though the network may be lost
  again and again. `begin()` looks at the status after each pump, so it is
  supposed not to miss, every time, that it was `WL_CONNECTED` in between (strong
  fairness of its return with that status). A scan returns: its five seconds pass.

## Proofs

All are for arbitrary values of the constants, under the assumptions named in
the modules that declare them. A theorem about a safety property shows an
invariant that is inductive and implies it; TLC has checked each of these
invariants on the runs above before it was proved. Where a theorem has further
hypotheses they are stated here with the reason they are there.

### SD stations

- **Types** (`TypeCorrect`). The shared steps are lemmas of `SdStation_proofs`,
  each station adds its own.
- **The counter** (`CounterCorrect` in both stations). `NoPhantom`, that the count
  never exceeds the passages, is not inductive: with `state = 1` the next ping
  may count, and nothing says that somebody has passed. `CounterInv` adds the
  debt: a pending count belongs to the person who is in front of the sensor now,
  or to a passage not yet counted. The proof needs that a ping tells whether
  somebody is in front (`EchoTellsTruth`): for the door `ClearView`, that no echo
  is lost and the wall is in range and beyond the threshold; for the elevator
  `~EchoLost` and `DeepShaft`. What happens without it is `Door_no_echo`.
- **The promise** (`ImplementsPromise`). Every step of a station is a step of
  `PassageCount` or a stutter; `CounterInv` is what makes a count one of a
  passage not counted before.
- **The log interval** (`LogIntervalCorrect`). `ClockInv` ties the values of
  `millis()` to the real time between them; `ClockArithmetic` says that the
  unsigned difference recovers it across a wrap.
- **The rows** (`RowsCorrect`). That neighbours in the file are in order says
  nothing of the row to come: `HistoryInv` adds that the last row is of no later
  boot than the present one and, within it, counts no more people than have been
  counted. No hypothesis: failing opens, cut rows and lost echoes do not matter.
- **The calibration** (`ShaftCorrect`). Whatever the one ping of `setup()`
  returned, a lost echo or somebody in the doorway included, the threshold is a
  distance no greater than that of the wall, if the wall is at least `FLOOR`
  away and nobody stands behind it (`DeepShaft`).

### The network

- `AddressCorrect`, `StatusCorrect` (`WifiControl_proofs`). Both properties speak of
  the moments when all events are handled. In between, what will be true then is
  decided by the last event about the network that still waits: `QueueInv` says
  that the last of them tells what the firmware's link is now, and `AddressInv`
  and `StatusInv` what the variables are if there is none. No hypothesis beyond
  the bounds being numbers.

### The TCP client

- The theorems of `WifiClient_proofs` have the hypothesis `Alone(c)`: one client, as in
  every sketch; the firmware answers a connect request before the 20 seconds of
  `connect()` are over (`~SlowConnect`, without which `Wifi_late_reply` refutes
  `ConnectedIsReal`); and `stop()` after `flush()` (`FlushFirst`) where a reply can
  be larger than a buffer. The number of sockets, of sessions and of losses of
  the network, and the size of the buffer, are arbitrary.
- None of the properties is inductive, nor is any inductive without most of the
  others: why a callback finds its client is that the reply is of the present
  session, which is so because earlier sessions have no replies behind a
  connect reply, which is so because of the order of the requests. `Base` has it
  all: `SocketInv` (the one used socket is the client's), `ConnectInv` (a connect
  request, the firmware's work at it, and its answer exclude each other, and
  come in this order before a loss), `EarlierInv` (what is left of earlier
  sessions goes before), `RecvInv` (a receive is at one place on its way). The
  queues are spoken of by four predicates, "none of", "at most one of", "none of
  these behind one of those", with a lemma for each and each operation on a
  queue. From it follow `ConnectedCorrect`, `HandlerCorrect`, `PumpCorrect`,
  `SocketCorrect`, `RecvCorrect`, `LossCorrect` and `TypeCorrect`.
- **The stream** (the last part of `WifiClient_proofs`), under the further hypothesis `Whole`, that a
  reply fits in what `recv()` asks for: the build for large RAM, where both are
  of 1400 bytes or more. `StreamInv` says where the bytes of the connection are: read, unread
  in the buffer, or in the one reply that is on its way, each in order and
  nothing between them; and that the place given to `recv()` is the end of the
  unread bytes. `RoomCorrect`, `StreamCorrect` and `DeliveryCorrect` follow. In the
  build where replies come in chunks they do not hold: `Wifi_small_overwrite`.

### The posting sketches

`Posts_proofs` takes `WifiClient_proofs` as an instance with the client of the sketch.
`LibraryStep` shows that every step of any of the three sketches, at any point, is
a step of `WifiClient` as the library's theorems suppose, or leaves it alone;
`ClientInv` says at which points the client may have a socket. From there
`DisciplineKept` (the refinement), `SocketCorrect`, and the theorems about receive
requests and paused transfers carry over. The hypothesis is `Prompt`, which is
`Alone` for a sketch: the reply to a connect request is not late, and the client
is flushed or replies come whole.

- `PlaceCorrect` needs no hypothesis: `ValuesInv` says which value is next at every
  point, restarts included.
- `ImplementsPromise` is the promise of `PassageCount` again, by `DebtInv`: as for the
  SD stations, and with a threshold that `setup()` of the elevator chooses while
  no count is pending. The hypothesis is `Site`: no ping of `loop()` is lost, and
  the threshold is not behind the wall, whatever stood in the way when the shaft
  was measured. `TypeCorrect` rests on both `Site` and `Prompt`, since the bound of
  `nb_people` is the number of passages.

### The SD library

`MirrorCorrect`, `OwnedUntilLoss` and `NothingLost` (`SdCard_proofs`) are for a
card of any size, any number of names and handles, files of any size, and any
calls within the discipline of `SdCard` (one writer for a file, no removal of an
open one), `write_file` of `SD_uS` and writes into the middle of a file
included. The assumptions on the constants are that the volume is of FAT16
(`Fat16Limit`: otherwise the number of a cluster may be the mark of an end of
chain) and that no name is the mark of a free or deleted entry.

None of the three properties is inductive. That `freeChain()` frees nothing of another file,
and that `write()` follows no link into a free cluster, are facts about the whole
chain a call walks along. The invariant `Inv` therefore says that *there are
chains*, a sequence of clusters `q[n]` for every name, of which `CardOK` says:

- `VolOK`: the FAT leads along each chain and ends there, and no cluster is twice
  in them (`Chained`); the block in the cache is the one on the card unless it is
  dirty, a dirty block of the FAT has its copy noted, and all other copies are
  right (`CacheOK`). This part is what `MirrorIsFat` follows from.
- `DirOK`: an entry begins where the chain of its name begins and is no larger
  than it has room; names are in the directory once.
- `OpenOK`: the same of every open file, and its current cluster is the one of
  the chain that holds the byte before its position (`Placed`); what a writer
  knows and the entry does not is marked (`dirDirty`); a file has one writer.
- `Fine`, as long as every `write()` has fitted on the card (`~spilled`, the last
  parameter of `CardOK`): every cluster in use is in a chain (`Covered`), and a file
  of no bytes has no chain (`Filled`). The second is what the first needs to outlive
  `truncate()`, which frees nothing of a file of size 0. `NoneLost` follows.

The chains are not the files of the directory: a writer's clusters are in them
before its entry is written, and a cluster that a `write()` left behind when the
card was full is in a chain until the file is removed, and then in none. Where a
whole block was written over the dirty block of the cache (finding `Sd_overwrite`)
the cache is stuck (`Stuck`): it can neither be flushed nor loaded, every call that
needs it fails, and a walk along a chain may stop half-way. The theorems hold
there too, with `Placed` weakened to a cluster somewhere in the chain; but
`NothingLost` leaves these states out, and has to: the entry of the file is never
written, and once it is closed its clusters are nobody's.

`SdFile_proofs` has for each call of the library a lemma that says with which
chains it is in order afterwards: `AllocIs`, `FreeChainIs`, `SyncIs`, `SeekIs`,
`WriteIs`, `ReadIs`, `OpenFileIs`, `TruncateIs`. What the code does along a chain
is a recursive function there; each has a lemma that gives its turns, and an
induction over their number for the set of numbers for which the claim holds
(`SetInduction`), since the induction theorem of the library takes an operator.
For `freeChain()` the induction is on the chain minus what is freed (`FreedFat`),
for `read()` and `write()` on the pieces of the request (`Fits`). `SdCard_proofs`
carries `CardOK` through each call of the program, and shows with `ChainIs` that
walking along the FAT, as `OwnedOnce` does, finds `q`. TLC has checked `CardOK` on
the state space of `Sd`, with and without `Overwrite`, for the chains the FAT has
and where the cache is not stuck.

### Only model-checked

- Liveness: `CountsEveryone`, `AllLogged`, `ConnectEnds`, `PostEnds`, `SetupEnds`.
  TLAPS does not handle fairness and `ENABLED`.
- Of the SD library: what is in the blocks of data (`OpenReadsBack` and
  `ImplementsStore`), the types, and everything after a power loss (`OwnedOnce`). The proofs follow which
  blocks a call writes, not the bytes in them; and the card a power loss leaves
  is one of those between two writes of a call, of which the invariant says
  nothing, since there the FAT and the directory do not agree.
- Several clients (`Wifi_clients`): `Base` is about one. With more, sockets change
  hands between clients. `PumpAlive` and `ConnectEnds` are all that is checked
  there: what `Wifi_client` shows of the stream, of receive requests, of callbacks
  and of `connected()` is shown for one client, and the end of *Findings* says
  what goes wrong with more.
- Replies in chunks (`Posts`, `Wifi_clients`): what holds there holds for sizes of
  segments that do not just fill the buffer. Nothing is claimed of the bytes of
  the stream in these runs.

## Findings

- A ping without echo (0) is closer than any threshold, and counted as a person:
  `Final_door_SD.ino:137` (run `Door_no_echo`). The elevator sketches test the
  same way.
- In the AVR build of WiFi101 a receive that is still under way when the buffer
  fills up writes over unread bytes: `socket_buffer.c:112` (run
  `Wifi_small_overwrite`).
- A connect reply is not compared with the session of its socket:
  `socket.c:359`. A late one makes `connected()` true of a client without a
  socket, and the wait of the posting elevator sketch does not end (run
  `Wifi_late_reply`). This is why `Posts` has `SlowConnect = FALSE`.
- `truncate()`, and so `SD.remove()`, frees the clusters of a file before its
  directory entry is written: `SdFile.cpp:1091`. After a power loss in between
  the file can neither be removed nor replaced, and `SD_uS`, which removes and
  rewrites its total, appends every total to the last one (run `Sd_total`). In
  the run `Sd`, with `Careful`, the program leaves such files alone, and no other
  file is harmed.
- A whole block written over the block in the cache, when that is dirty, leaves
  a cache that can never be flushed again: `SdFile.cpp:1182` (run `Sd_overwrite`).
  A program that only appends, as the sketches do, does not get there, which is
  what `Overwrite = FALSE` says in the other runs.

Not findings, since nothing in the repository says otherwise, but worth knowing:
a scan during which the network is lost puts the old `WL_CONNECTED` back
(`WiFi.cpp:805`), and a scan that was given up leaves `WL_SCAN_COMPLETED` behind
when it is answered; `StatusTrue` says exactly when this cannot be. A network
lost in the same pump as a connect reply leaves a client connected to nothing
(`WiFiClient.cpp:167`); `LossClosesClients` leaves out that client alone. A
`write()` that finds the card full may leave a cluster with a file of size 0,
which no later truncation frees (`SdFile.cpp:1081`); `NoneLost` leaves out what
follows such a write (`spilled`).

With several clients, and more connections than sockets, the library keeps less
of what it keeps for one. Every sketch here has one client, and nothing in the
repository says that several are safe on sockets that are used again.

- A client whose connection the peer has closed keeps the number of its socket
  until `stop()` (`socket_buffer.c:122`), and the number may be another client's by
  then. Its `stop()` closes that connection, and if a reply of it is paused no
  event is handled any more. Its `read()` of the last byte calls `recv()`
  (`WiFiClient.cpp:252`), which puts its own buffer in the entry of the socket
  (`socket.c:980`): the other client's bytes go there, and the other reads what was
  never received for it. With `StopsFirst = FALSE` the constants of `Wifi_clients`
  show the first (`PumpAlive`); with `Segments = {1}` they show the second
  (`StreamIntact`). `StopsFirst` is how a sketch avoids both.
- It does not avoid what a late connect reply does (`socket.c:359`). Taken for
  the answer of the next connection on the socket it makes `connect()` return
  early; the real answer then comes for a client that has been stopped, and the
  callback writes through a null pointer (`HandlerRegistered`), which is where
  `ConnectEnds` stops promising; or it sends a second receive request (`OneRecv`),
  whose data go over unread bytes where a single socket is used (`StreamIntact`).

## Plan

Order is by importance for the stations. Done: the scene, the counter and the
log (`Corridor` to `ElevatorStation`), the TCP client with the loss of the network
(`WifiClient`), the SD library (`SdVolume` to `SdCard`), the three posting sketches
(`PostStation` to `Posts`), the control of the network (`WifiControl`), the proofs
above. To come:

1. Proofs: the bytes in the blocks of the SD library, for `OpenReadsBack`.
2. *Host interface*: the interrupt counter against the pump, the sleep counter.
3. *`WiFiServer` and copies of clients*, if the library is to be covered beyond
   what the sketches call.

## Not modelled

The Ethernet library, the older Wifi library and its firmware, the climate
sensor drivers, the bus drivers and firmware services of WiFi101 and the
demonstration sketches: third-party code no complete program calls, register
accesses, or programs without state worth checking. These are nearly all of
the lines of the repository: the headers and firmware sources of two Wi-Fi
modules alone are two thirds of it.

Of the modelled parts: subdirectories, FAT32, truncation to a length and the
errors of the card itself (SD library); the retries of `write()`, copies of
clients, the server and UDP (WiFi101); access point and provisioning, which no
program uses, and the questions answered in `_resolve`: once an answer may be late
the next question takes it for its own (`WiFi.cpp:216`), so no property of theirs
holds, and without late answers none can fail. `PROJECT.json` gives the reason
for each.
