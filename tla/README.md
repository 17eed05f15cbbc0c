# FavTuyaXR3: models, checks and proofs

The repository is the SDK of the XR809/XR871 Wi-Fi chips with one application,
`project/at_demo`: the firmware of a water sensor, whose second processor, a
Tuya MCU, reports battery and moisture over a serial line, and which publishes
them over MQTT (`README.md:10-12`). This directory holds TLA+ modules of the parts
where order, failure and interleaving matter, the TLC configurations that check
them and proofs TLAPS checks. Paths below are relative to the root of the
repository.

Run, in this directory, `tlc -config X.cfg M` for a check and `tlapm M.tla` for
the proofs of a module.

| module | models | extended or used by |
|---|---|---|
| `SerialRx` | the serial receive cache, `project/at_demo/serial.c` | `SerialRxProofs` |
| `RecordQueue` | what the cache promises: a bounded queue | implemented by `SerialRx` |
| `AtDemo` | the application, `project/at_demo/main.c` | `MCAtDemo`, `AtCmdProofs` |
| `Fdcm` | records in NOR flash, `src/image/fdcm.c` | `FdcmProofs` |
| `NVRegister` | what an area of Fdcm promises: a register that may be lost | implemented by `Fdcm`, used by `AtConfig`, `OtaBoot` |
| `AtConfig` | the AT settings in two areas, `functions.c`, `at_config.c` | `AtCmdProofs` |
| `OtaBoot` | update and bootloader, `ota.c`, `image.c`, `bootloader/main.c` | `OtaBootProofs` |
| `SysCtrl` | queue, looper and publisher of events, `framework/sys_ctrl` | `MCSysCtrl`, `SysCtrlProofs` |
| `NetCtrl` | the station's network, `framework/net_ctrl.c`, `net_sys.c`, over the DHCP client and netifapi of lwIP 1.4.1 | `NetCtrlProofs` |
| `MqttClient` | the MQTT client, `src/net/mqtt/MQTTClient-C` | `MCMqttClient`, `MqttClientProofs` |
| `AtParser` | the reader of AT commands, `src/atcmd` | `MCAtParser`, `AtCmdProofs` |
| `AtSocket` | the connections of the AT commands, `functions.c` | `AtSocketProofs` |
| `AtServer` | the socket server of the AT commands, `functions.c` | `AtSocketProofs` |
| `Lwip` | the sockets of lwIP by their numbers, as the AT commands know them | extended by `AtSocket`, `AtServer` |

## 1. The system

### 1.1 The parts modelled

**Serial receive cache** (`project/at_demo/serial.c`). State: a ring of 16
records of 32 bytes with `widx`, `ridx` and `cnt`, a counting semaphore with a
token for every record, the state of the port. Operations: the receive
interrupt (`serial_rx_callback`) drains the UART FIFO into records,
`serial_read` waits for a token and copies the oldest record, and
`serial_init/start/stop/enable/disable/deinit`. The handler and the reader
share indices and count without a lock. Hard: the handler runs between any two
steps of the reader; the ring fills; the port is stopped between token and
record. Right when: no record held is overwritten, none is lost once committed,
bytes come out in order, a token always has its record, every record is read,
the handler returns.

**The application** (`project/at_demo/main.c`). State: `queue_buf`, the last
record's length, indices; the network and MQTT session. It brings up the
network, connects, publishes its configuration, starts the serial port, tells
the MCU that it is connected and then loops: read a record, scan it for
`55 AA` frames, publish the data units of status reports, answer a query.
It reads the receive cache and calls the MQTT client. Hard: a record is not a
frame; the network fails at any time; results are ignored. Right when: what is
published is what was reported, in order, once, and every report is acted on.

**Flash data chunk manager** (`src/image/fdcm.c` over `flash.c`). State, all on
flash: a header with the size of a record, a bitmap of used slots, the slots.
Operations: open, read, write, erase; a write clears the next bit, programs the
next slot, and erases and starts again when the area is used up. Hard: power
fails at each flash operation; flash can only be cleared; another firmware
version comes with another record size. Right when: a record written is read
until the next write, an older one never comes back, flash is never programmed
twice, the area is not erased early.

**Saved AT settings** (`project/at_demo/functions.c`: `save`, `load`, `factory`;
`src/atcmd/at_config.c`). State: two areas of Fdcm, each with a record of
settings and a counter; the settings in memory. Operations: load at start, AT&W,
AT&F, AT+S.SCFG. Right when: a start loads the last settings saved, and a save
spares the ones in use.

**Update and bootloader** (`src/ota/ota.c`, `src/image/image.c`,
`project/bootloader/main.c`, `project/common/cmd/cmd_ota.c`). State: two image
areas, a configuration record in Fdcm that names the image verified, the
running sequence number. Operations: erase the area not running, write sections
as they come, check them, verify a digest, name the image, reboot; the
bootloader tries the image named, then the other. Hard: a power failure at any
step; a fault of the configuration. Right when: there is always a whole image
to start, the running one is never touched, a successful update starts.

**Event system** (`project/common/framework/sys_ctrl`). State: a queue of
`PRJCONF_SYS_CTRL_QUEUE_LEN` messages, a list of observers with a state each, a
publisher lock. Operations: send from threads, interrupts and callbacks;
attach, touch (once), detach, destroy; one looper thread runs the handler of a
message, then notifies the observers, then its destructor. Hard: callbacks
change the list being walked; destroy takes no lock; callers wait for their
handler. Right when: each observer attached hears each event once, none after
it was detached, a destroyed one is never walked, events and waiters come
through.

**Network control** (`project/common/framework/net_ctrl.c`, `net_sys.c`). State:
the interface's flags and address, the state of DHCP, whether the wlan is
associated. The looper handles the wlan's events and calls into the TCP/IP thread
through netifapi, waiting for each call; the TCP/IP thread runs DHCP, and when the
interface goes up or down sends an event back into the looper's queue and waits
if that is full. Both read and write the interface without a lock. Hard: what the
looper read is old when it acts on it; a tear-down takes three calls, and a lease
may be bound between them; each thread can wait for the other. Right when: once
all is handled the interface is as the last wlan event says, the last network
event is true, the wlan knows the address, and the looper comes back.

**MQTT client** (`src/net/mqtt/MQTTClient-C/MQTTClient.c` over
`Xr_RTOS/MQTTXrRTOS.c`). State: whether it is connected, the ping that is waited
for, the packet identifier, the handlers, what is left of a packet a read gave up
on. Operations: connect, subscribe, unsubscribe, publish by quality of service,
yield, disconnect, each under a timer; `cycle` reads one packet, answers it, and
pings. Hard: a read ends inside a packet when the timer runs out; answers come
late, to another call; the exchanges of quality of service 2 run inside the wait
of another call; a connection closed with no word to the client. Right when: the
client stays in step with the packets on the wire, pings go on, each exchange is
acknowledged once, an answer is to the call that takes it, every call returns.

**AT command reader** (`src/atcmd/at_queue.c`, `at_command.c`, `at_socket.c`). State:
a byte queue filled by `serial_read`, the line collected so far, a flag that the
line has ended. Operations: collect a byte, run the line, and for AT+S.SOCKW take
the bytes that follow the line to the socket. Hard: commands and raw data share
one stream; `serial_read` cuts it anywhere; lines too long; a write that fails in
the middle. Right when: a command is run whole, once and in order, the bytes for a
socket are those after its line, and one bad line costs the next one at most.

**Connections of the AT commands** (`project/at_demo/functions.c`: `sockon`, `sockw`,
`sockq`, `sockr`, `sockc`, `mode`). State: a table of connections with their sockets
and a count, and for each a cache of bytes received and not read. It uses lwIP's
sockets. Hard: the other side ends a connection at any time; identifiers and
sockets are used again; query, read and data mode share a cache. Right when: table
and sockets agree, and the host reads what was received, in order and once.

**Socket server of the AT commands** (`functions.c`: `sockd`, `server_task`, `mode`).
State: `g_server_net`, `g_server_ctrl`, `g_server_enable`, a semaphore with the one
token to accept, a lock, a thread. The commands' thread opens and closes the server
and serves its connection in data mode; the server's thread accepts. Hard: both
write what they share, the commands' thread reads numbers of sockets and closes
them later, deletes the other thread at any place, and lwIP gives a number out
again. Right when: there is one token, data mode serves the connection accepted
last, and closing closes the server's sockets only.

### 1.2 The parts not modelled

| part | state and operations | why, or when |
|---|---|---|
| system information (`framework/sysinfo.c`) | one record in an area of Fdcm, loaded as it is | its steps are those of `Fdcm` alone: after a save cut short the area holds neither the old record nor the new (`NVRegister`), and `sysinfo_load` takes what it finds (`sysinfo.c:261`) |
| syntax of the AT commands (`src/atcmd`) | a table of commands and their parameters | string parsing |
| OS wrappers (`src/kernel/os`) | thin calls of FreeRTOS | modelled where they are used |
| power management (`src/pm`) | device lists, wakeup lock, suspend states | at_demo never suspends |
| inter-processor calls (`src/sys/ducc`, `mbuf`) | mailboxes to the network processor | the other side is a binary |
| file system, audio, buttons, SNTP, ping, console, platform start, smartlink | | not used by at_demo, or straight code without shared state |
| drivers (`src/driver`), wireless LAN (`src/net/wlan`) | registers, binary firmware | inputs of the models |
| FreeRTOS, lwIP, mbedTLS, libwebsockets, noPoll, HTTPClient, shttpd, udhcp, FatFs, MQTTPacket, cJSON, xz | | vendored |

### 1.3 How the parts meet

```
 MCU --bytes--> UART FIFO --interrupt--> [SerialRx] --records--> [AtDemo] --calls--> [MqttClient] --> broker
                                              ^ RecordQueue
 host --bytes--> [SerialRx] --> [AtParser] --commands--> [AtSocket], [AtServer] <--> lwIP sockets
                                    |
                       AT&W, AT&F --+--> [AtConfig] --+
                                                      +--> NVRegister <--implements-- [Fdcm] --> NOR flash
                       ota, bootloader -> [OtaBoot] --+
 interrupts, threads --> [SysCtrl] queue --> looper --> handlers, observers
                             ^                   |
                   wlan, up, down         [NetCtrl] <--netifapi--> TCP/IP thread, DHCP
```

Two interfaces are stated as modules of their own and checked from both sides.
`SerialRx` implements `RecordQueue` (`IsRecordQueue`, proved), and `AtDemo` has the
cache as a bounded queue of records. `Fdcm` implements `NVRegister`
(`IsRegister`, proved), and the areas of `AtConfig` and the configuration of
`OtaBoot` are shown to be used as an `NVRegister` (`AreasAreRegisters`,
`CfgIsRegister`, both proved): what a power failure may leave there is no
more and no less than what `Fdcm` may leave. `NetCtrl` has the queue and the looper of
`SysCtrl` with the one handler that matters to it, since the question it asks is
what that handler and the TCP/IP thread do to each other; `AtDemo` has a publish
as it uses it, with a result it does not look at.

## 2. The models

**SerialRx.** One core: the handler preempts the reader between any two of its
steps and runs to its end; only bytes on the line arrive meanwhile. The
handler's local copies (`cnt`, `idx`, `len`) and the reader's are variables of
their own, and so are the places in both (`ipc`, `rpc`). Bytes are numbered, so
that loss and reordering show. When a burst ends where a record ends, the
handler has no record begun and polls an empty FIFO until the next byte; that is
the action `IsrSpin`, and the code does it (`serial.c:82-130`).

**AtDemo.** A byte is a byte: the scanner is about positions and stale bytes.
The MCU sends frames in bursts; `Cut` splits a burst as the handler does, at 32
bytes. `done` records what main did, in the order of the code. The network
fails and returns at any time (`LinkChanges`), a publish reaches the broker or
not, and its result is ignored as it is in the code.

**Fdcm.** One action for each flash operation, and `Interrupted` for a power
failure or a driver error in it: an erase of several blocks stops half way, a
slot is half programmed. Sizes are numbers of bytes: the arithmetic of
`fdcm_rewrite` is in `BitmapSize`, with its 16 bits. `Upgrade` is a firmware
with another record size.

**AtConfig.** `SaveTo`, `LoadFrom` and `NextCnt` are the case distinctions of
`save` and `load`; an area holds what `fdcm_read` hands over. The constant
`CutLeaves` chooses what a write cut short may leave besides the old and the new
record: an area without a header, erased bytes, or bytes half programmed.
Erased bytes are a record with the greatest counter.

**OtaBoot.** A chunk stands for a section or the verification data. A chunk is
damaged so that its 16 bit checksum tells, or so that it does not. The
bootloader checks the program only; the application checks every section.
`image_set_cfg` loses the old record before it stores the new one, because Fdcm
does. `upset` records that the configuration could not be written or read.

**SysCtrl.** The looper's place is `pc`. `notify` is taken apart into the steps
between which a callback can act: it finds an observer (`Trigger`), the callback
attaches, detaches, sends (`CallAttach`, `CallDetach`, `Send` while `pc =
"callback"`), returns (`Return`), and the removal loop sweeps. Other threads
find the lock taken from `scan` to `sweep`, but `Destroy` and `Send` take none.
The list is a sequence; the iterator is a position in it. `armed`, `must` and
`hits` are histories for the properties and guard nothing.

**NetCtrl.** The TCP/IP thread is at one call, packet or timeout at a time;
`prog` is what is left of it, as steps, and between any two of them the looper
may run. `Function` says what a netifapi call runs there, `Bind`, `HandleNak`,
`ReleaseDiscover`, `NetworkChanged` what DHCP does; a step that changes the
interface's flag puts the event it sends in front (`StatusCallback`), and
`SendNote` waits for room. The looper's handler is `Recv` and the branches of
`Config`, `ConfigStart` and `ConfigStop`, each reading the interface once; a call
is answered by the step `answer`. Retries that change only the count of tries
are left out. `assoc`, `note` and `raced` are histories. lwIP is external code
in this repository; its DHCP client is modelled from its source, since its
states are half of the protocol.

**MqttClient.** What the broker sends is a sequence of cells: the header, the
length and the rest of each packet, so that a read can end after any of them.
`cycle` is taken apart at each read and at each write: `DiscardRest`,
`ReadType`, `ReadLength`, `ReadBody`, the handling of the packet, `Keepalive`,
and `CallEnd` for what the caller does with the packet it waited for. `Expire`
lets the timer of a call run out anywhere, `Break` the connection. A write is
whole or fails: the blocking send of lwIP takes all it is given. The broker
answers as MQTT prescribes and starts a new session with each connection.
`torn` and `carried` record the two ways the client can lose its place by
itself: a length that was not read and is not checked (`MQTTClient.c:151`), and
a client taken to a new connection with what an old one left. The properties
except the connection on which that happened (`Sound`), and nothing else.

**AtParser.** The host's script, a few commands with the bytes that follow them, is
chosen at the start; a byte is known by its place in the script, and a line is a
command if it is the whole text of one. `Reads` is the queue: an empty one takes
some of the bytes sent, or none. A step of `at_parse` is one byte through the loop
(`Put`, `PutLf`, `PutCr` are its branches, with what each finds of room and each
puts twice) and, when the flag is set, `ParseCmd`. `at_sockw` is `WriteByte`,
`WriteChunk`, `SockwFails`. `ran`, `tails`, `cut` and `wrote` are histories. What a
carriage return put behind a full cache overwrites is not modelled: the loop goes on
with the cache emptied.

**AtSocket.** Bytes are numbered in the order a socket received them, so that the
cache, what the host was handed and what the socket still has can be compared.
`read_socket` is one step with its result (`ReadOk`, `ReadEnds`): the commands'
thread is the only one to use a connection, and what comes in meanwhile is in the
choice of what it took. A socket's number is given out again.

**AtServer.** Two threads: `at` is the place of the commands' thread in SOCKD and
data mode, `srv` that of the server's. Every read or write of what they share is a
step, and so is each close, since lwIP may give the number to the other thread or to
the rest of the program (`OtherUse`) right after. What is received and sent changes
nothing of this and is left out. `missed` (an accept took the token and brought
nothing) and `held` (the deleted thread had something) are histories.

## 3. The checks

Each property of a passing run has a mutant of a definition (an operator named
for the bug, before the definition it changes) that breaks it. A type invariant is a
property of the runs of `AtDemo`, `AtParser` and `AtServer` (`DemoTypeOK`,
`ParserTypeOK`, `ServerTypeOK`), whose bounds are worth a question of their own; in the
other modules `TypeOK` is proved and in no run, and so are `CfgIsRegister` of `OtaBoot`
and the theorems of section 4 that name no property of a run.

| run | question | states |
|---|---|---|
| `serial` (`SerialRxCore.cfg`) | the port started, stopped, closed and opened again between reads, and buffers that are too small: `TokensExact`, `StreamInOrder`, refinement of `RecordQueue`, `RecordIsRead` | 2 slots of 2 bytes, FIFO of 3, 6 bytes, 2 stops, buffers of 1 and 2 |
| `atdemo_whole` | a burst fits a record: `DoneWasAsked`, `AcceptedInOrder` with a failing network, `Settles` | 3 frames, cache of 2 records; 1 155 000 states |
| `atdemo_split` (violation) | two reports back to back: `DoneWasAsked` does not hold (section 5) | bursts of 34 bytes |
| `fdcm_core` | `StableIsRead`, `NeverOverprograms`, refinement of `NVRegister` | area of 19 bytes, 3 record sizes |
| `atconfig_whole` | `LoadIsSaved`, `SaveSparesLoaded`, areas used as registers | 3 settings, counter to 8 |
| `ota_core` | `BootsWhole`, `UpdateTakes`, `DigestHeeded`, `RunningKept` | 2 sections and verification data |
| `sysctrl_core` | `ListSound`, `EachOnce`, `OnlyArmed`, `EventNotified` | 2 observers, queue of 2, 3 messages, 5 calls, 1 waiter; 230 000 states |
| `netctrl` | `FollowsWlan`, `NotedRight`, `LooperReturns` | queue of 2, two addresses, no counter; 336 000 states |
| `mqtt` | `InSync`, `PingNotForgotten`, `AcksAwaited`, `AckIsOurs`, `MessageHandled`, `CallReturns` | 3 calls, 3 identifiers, 1 topic, 1 handler, 1 message, 1 ping; 800 000 states |
| `atparser` | `RunAgain`, `DataWritten` | cache of 5, buffer of 2, reads of 4, scripts of up to 3 commands; 550 000 states |
| `atsocket` | `SocketsHeld`, `StreamKept` | 2 connections, 2 sockets, cache of 2, 3 bytes; 619 000 states |
| `atserver` | `TokenExact`, `ServesOwn`, `ClosesOwn` | 3 sockets, the number 0 among them; 150 000 states |

What the runs show of `LooperReturns` is that the looper comes back but for two
mutual waits, which the formula names (`Stuck`) and the code can reach: the
TCP/IP thread waits for room in the looper's queue while the looper waits for
that thread, and, with a configured address, the looper waits for room in its own
queue (`net_ctrl.c:224`, `:453`). Both need the queue full, 6 messages in the
build. The other exception, `raced`, is a lease bound in the few steps between
the state the looper read and the calls it makes by it: it can leave DHCP
stopped and the interface up, or a lease given away with no event.

### 3.1 The bounds

- SerialRx: `MaxBytes` fills both slots and wraps both indices; the FIFO is
  larger than a record, so that one interrupt commits a record and begins the
  next. `MaxStops` bounds the calls that stop the port; two are a stop and a
  close. The buffer of one byte is refused by a record of two.
- AtDemo: three frames, more than the cache has room for. Records and frames
  have the sizes of the code, since the cut at 32 bytes is the point. The frames
  are `Regular`, which `MCAtDemo` assumes of them and TLC evaluates: what main takes
  for a header, a unit and a frame's end is then what the protocol has there.
- Fdcm: no counter needs a bound, the state space is finite. 19 bytes give three
  slots for one record size, two that end with the area for another, and a
  third that never fits.
- AtConfig: the counter wraps at `W` (2^32 in the code) and `Save` keeps below
  `W - 1`: fewer than 2^32 saves, more than the flash lasts.
- OtaBoot: sections are alike, so that two tell the program from the rest. The
  area just holds the image with its verification data, since the last chunk is
  a case of its own.
- SysCtrl: `MaxMsgs` is greater than the queue, so that it fills; `MaxCalls`
  allows attach, detach in a callback, attach again, detach and destroy in one
  behaviour.
- NetCtrl: nothing is counted, every behaviour over the queue of two is there.
  Two addresses are a lease and the next; a queue of three, with one address,
  gives the same results (490 000 states).
- MqttClient: two packets of each kind of exchange overlap with three calls, and
  the last can take the answer to the one before. `MaxId` is 65535 in the code:
  with fewer identifiers than calls one may come round to a message still in
  flight. `AcksAwaited` says so itself (`IdsApart`): of the exchanges of quality of
  service 2 it is about a connection on which none was given up, or that made no
  more calls than there are identifiers. Two identifiers, four calls with three,
  and two topics were run as well, with no other result. A body has at most two cells: where in a longer one a read ends does not
  matter to the control, and the proofs are for bodies of any length.
- AtParser: lines of 1, 2, 3, 4 and 6 bytes with a cache of 5 leave room for their
  end as often as it is put, for one less, for none, and for part of the line. A
  read takes up to 4 bytes, so that every line can be cut at every place; 3 bytes
  of data are two chunks of the buffer.
- AtSocket: as many sockets as connections, so that lwIP runs out; 3 bytes are more
  than the cache and leave some to come. The proofs are for any of these numbers.
- AtServer: nothing is counted. Three sockets are one that listens, one accepted
  and one of the rest of the program; the number 0 is one of them, since the code
  takes it for none.

### 3.2 Fairness

- SerialRx (`FairSpec`): the handler, once entered, goes on; main goes on and
  calls `serial_read` again; main initialises and starts the port. The handler
  has the core, and main loops with a timeout of its own. No fairness for the
  MCU. The handler spinning is excluded by the formula, not by fairness.
- AtDemo: main goes on and the handler stores what came. Its calls have
  timeouts, and the loop has no other exit. No fairness for the network.
- SysCtrl: the looper goes on, which includes that callbacks and handlers
  return. It is a thread that waits for its queue only; a callback that blocks
  is outside this module, and for network control it is what `NetCtrl` is about.
- NetCtrl: looper and TCP/IP thread go on. A call of the looper is strongly fair:
  packets and timeouts come in between, but the mailbox of the TCP/IP thread is a
  queue, and none is passed over for ever. Nothing is owed by the wlan or the
  network.
- MqttClient: the thread goes on (`Cycle`), and the timer runs out (`Expire`).
  Nothing is owed by broker or network.

## 4. The proofs

All constants are arbitrary within the named assumptions of the modules; the
bounds of the runs (`MaxBytes`, `MaxMsgs`, ...) are arbitrary as well.

| module | theorems | inductive invariant, and why it is needed |
|---|---|---|
| `SerialRxProofs` | `TypeCorrect`, `RingCorrect`, `TokensCorrect`, `NoOverwriteCorrect`, `QueueCorrect`, `StreamCorrect` | The handler's copies agree with the ring while it runs (`IsrInv`), the reader's index is the oldest record's or the next (`ReadInv`). Only then does one step of either keep "`widx` is `cnt` after `ridx`", since the reader moves `ridx` and `cnt` in two steps. For the refinement of `RecordQueue`, the reader's copy is the oldest record as long as it holds it (`CopyInv`), which needs that the handler never writes there. For the order of the bytes (`SeqInv`), what the reader returned, the records from the oldest to the one begun and the FIFO are numbered upwards in this order; flattening them keeps it. |
| `FdcmProofs` | `BitmapCovers`, `TypeCorrect`, `StableCorrect`, `ProgramsBlankCorrect`, `WearCorrect`, `RegisterCorrect` | Every slot past those used is blank whatever was cut short (`AreaInv`), and each flash operation finds what the one before it left (`OpInv`). `BitmapCovers` is the arithmetic: the bitmap has a bit for every record the area has bytes for. |
| `AtCmdProofs`: `AtParser` | `ParserTypeCorrect`, `RunAgainCorrect`, `DataWrittenCorrect` | The bytes of a script lie in the stream at places that follow from the commands (`StreamFacts`). Line, buffer and what is left to read are then pieces of the stream next to each other (`TakenInv`), what was run are commands in the order of the script, each with the line it was read as (`RanInv`), what was written is the piece behind the line of AT+S.SOCKW (`WroteInv`), and a line run in part is the one a carriage return or a long line cut (`AgainInv`). |
| `AtCmdProofs`: `AtDemo` | `DemoTypeCorrect`, `AcceptedCorrect`, `DoneCorrect` | `DemoTypeOK` with the types of the sequences (`DemoInv`): the scanner looks up to five bytes past the record, which `RecSize + 5 <= BufLen` keeps inside `queue_buf`. What the broker accepted is the boot's messages and then some of what main published, with the places named (`OrderInv`). `DoneCorrect` assumes `Regular` frames and bursts shorter than a record, which is what `atdemo_split` shows to be needed. Then every record is whole frames (`CachedFrames`, with `Offsets`, where each frame begins), and main is before a frame with all the earlier ones done (`BetweenFrames`), or at a unit of a report, and what it did with what is asked for from that unit on makes up what is asked for (`InReport`). |
| `AtCmdProofs`: `AtConfig` | `TypeCorrect`, `SparesLoadedCorrect`, `LoadCorrect`, `AreasCorrect` | No counter has reached the greatest (`CntInv`), and while a record is written the other area is the one loaded and older (`WriteInv`). `LoadCorrect` assumes that a write cut short leaves no erased bytes, which erased bytes show to be needed (section 5). `AreasCorrect` is step simulation: each area moves as `NVRegister` allows. |
| `OtaBootProofs` | `TypeCorrect`, `BootsWholeCorrect`, `UpdateTakesCorrect`, `DigestHeededCorrect`, `RunningKeptCorrect`, `RegisterCorrect` | What the update has written so far (`Updating`), and, while the configuration is sound, that bootloader and application agree which image runs and that it is whole (`Agreed`). |
| `SysCtrlProofs` | `TypeCorrect`, `ListSoundCorrect`, `EachOnceCorrect`, `OnlyArmedCorrect` | An observer in the list is never idle, which is what `observer_destroy` asks about, and none detached is behind the sweep (`ListInv`); states and calls agree but for an observer touched whose callback runs (`ArmedInv`); those triggered are behind the iterator and those still due are ahead of it (`HitInv`), for attach appends and detach in a callback only marks. |
| `MqttClientProofs` | `TypeCorrect`, `InSyncCorrect`, `PingCorrect`, `AcksCorrect`, `AckIsOursCorrect`, `HandledCorrect` | Packets lie whole on the wire (`WholePackets`), and the client knows how much of the one it began is left (`Placed`), at each of the places a read can end: in the length, in the body, or noted in `remain_pktfrag_len`. A ping's answer is then taken off the wire only as a header, and never with what is discarded. For the exchanges (`LineInv`), the packets of one are on the way in one place at a time: in what the client sent, in what the broker sent, or in the client's hands, and what the broker waits for goes with that place; an answer of a kind no call gave up waiting for is thus to the call that waits. For the messages (`HandInv`), the packet a call holds is the one its handlers are called with, and nothing is handed over twice. |
| `NetCtrlProofs` | `TypeCorrect`, `FollowsWlanCorrect`, `NotedRightCorrect` | Which call the TCP/IP thread is at goes with the steps left of it (`ProgInv`, `CallsInv`). From that, the last wlan event queued says what the link will be when the looper has what it waits for (`LinkInv`); DHCP runs, or the looper is on its way to start it (`DhcpInv`; `ConfInv` for a configured address). For the events, an interface that is up has the address of the lease or is about to be taken down (`LeaseInv`), so that its state changes only in a step that queues the event which says so (`NoteInv`), and the looper reads the address of the last one (`ToldInv`). |
| `AtSocketProofs`: `AtSocket` | `TypeCorrect`, `SocketsHeldCorrect`, `StreamKeptCorrect` | The properties with `Numbered`: a socket's bytes are numbered on from what was read of it. A read needs that its socket is open and its own (`SocketsHeld`), and what it puts into the cache then carries on from what the cache holds. |
| `AtSocketProofs`: `AtServer` | `ServerTypeCorrect`, `TokenCorrect`, `ServesCorrect`, `ClosesCorrect` | The two threads' places fit each other and what they share (`PlaceInv`); where the token is, at each pair of places (`TokenInv`); which socket is whose (`SockInv`), which one `g_server_ctrl` names while data mode serves it (`ConnInv`), and that one noted is not closed by the other thread before it is used (`NotedInv`). |

`NoOverwrite`, `RingConsistent` and `WearSpread` are proved and in no run: the
first two are what the refinement rests on, and the third says less than the
refinement of the register.

The library's induction theorems cannot be used, for they take an operator. Where a
proof goes along a sequence (`AtCmdProofs`, `SerialRxProofs`, `MqttClientProofs`) it
supposes a counterexample and takes the least: `LeastNatural`, which follows from the
well-foundedness of strict inclusion on finite sets. That is also how `FlattenSeq` and
the recursive function of `Units` are shown to be what their equations say.

Model-checked only: liveness (`RecordIsRead`, `Settles`, `EventNotified`,
`CallReturns`, `LooperReturns`), which the prover does not do under fairness. Every
other property of a passing run is a theorem.

## 5. Findings

`atdemo_split` shows that `main.c:308` goes over the data units by the length the
frame states and not by the bytes read. Two reports sent without a pause are cut
after 32 bytes, and the second battery level is taken from a stale byte.

What a comment or the help says is a definition of a module too, where the code
does not keep it. They are in no run; add one as INVARIANT to the configuration of
its module and TLC finds the behaviour described.

- `Fdcm!ReadInArea` (with `RecSizes = {12}` and `Size = 40`), `fdcm.c:219`: after a
  power failure between header and bitmap no slot is used, and the read begins a
  record before the slots, before the area.
- `AtConfig!LoadIsSaved` with `CutLeaves = {"blank"}`, `functions.c:795`: a write cut
  short between bit and slot leaves erased bytes, whose counter is the greatest:
  every later start loads them.
- `OtaBoot!RunningSeqRight` with `Faults = {"cfgwrite"}`, `image.c:124`: when the
  configuration could not be written, the application takes the first image for the
  running one, and an update erases the flash it runs from.
- `AtParser!LongDiscarded`, `at_command.c:435`: of a line too long ("command is
  discarded") the part in the cache is dropped, and the rest is run as a line.
- `AtParser!DataFollows`, `at_command.c:417`: the line feed after a carriage return is
  looked at twice and taken never; AT+S.SOCKW ended with both writes it as the
  first byte of the data.
- `AtSocket!NothingLost`, `functions.c:1260`: when the other side sends and closes
  within the same 10 ms, `read_socket` drops what it received.
- `AtSocket!NextIsRead`, `functions.c:470`: data mode receives into the cache of
  connection 0 with no look at its flag; the next SOCKR writes other bytes than
  those pending.
- `AtServer!DeletedHasFreed`, `functions.c:1600`: SOCKD=0 deletes the server's thread
  wherever it is: with the lock, and the next SOCKD waits for ever, or with a socket
  it has not noted yet.
- `AtServer!UdpServed`, `functions.c:1543`: `g_server_ctrl` is cleared for a TCP
  server only; after a server closed while served, a UDP server is not the one
  data mode serves.
- `AtServer!ServerListens`, `functions.c:1480`: an accept that fails, or brings the
  socket 0, takes the token along, and the server accepts nothing more.

Seen while modelling, each at its line:

- `main.c:203`: main announces itself to the MCU as connected whatever
  `ConnectNetwork` and `MQTTConnect` returned.
- `at_config.c:245`: what the save callback returns is dropped, and a flash error
  reaches the user as OK.
- `publisher.c:111`: detaching an observer that is not in the list from a
  callback leaves it marked; a later attach returns 0 without attaching.
  `publisher.c:145`: one detached and touched again in its own callback loses the
  touch.
- `sys_ctrl.c:215`: a call that waits for its handler, made from a callback,
  waits for the looper it runs on.
- `observer.c:173`: a thread observer stores an event before it asks whether its
  thread still runs.
- `MQTTClient.c:531`: the identifier of an answer is read and not compared with
  the one sent ("should be the same as the packetid above"): a late answer ends
  the next call of its kind. `AckIsOurs` says that nothing else does.
- `MQTTClient.c:151`: what `decodePacket` returns is dropped; a length not read
  is taken for zero.
- `cmd_mqtt.c:349`: a failure returns with the lock held.
- `at_command.c:413`: a carriage return is put with no look at the room; behind a
  full cache that is one byte past its end.
- `functions.c:610`: when the other side closes, data mode as server forgets the
  connection's number and does not close it; each client costs a socket.
- `sysinfo.c:261`: a save cut short between bit and slot leaves erased bytes that
  are loaded as a MAC address and a mode.
- `MQTTClient.c:416`: a connection closed with no word to the client leaves what it
  kept (`isconnected`, `ping_outstanding`, `remain_pktfrag_len`) to the next.
- `net_ctrl.c:76`: the address the wlan is told may be gone when it is told; the
  event that says so follows.

## 6. What is left

All the modules planned are there but one: `sysinfo.c` loads and saves one record
through `Fdcm`, and its hazard is already that of `NVRegister`. The kinds of observers
in `observer.c` differ in
what a trigger does, which `SysCtrl` leaves open. The switch between station and
access point (`net_switch_mode`) tears the interface down and builds it again; it
would extend `NetCtrl` by a second kind of interface. Power management (`pm.c`)
suspends and resumes devices in the order of its lists, with threads still running
in between; it would be a module of its own.

Of the proofs, what remains is to say more than the runs do: that the broker's side of
`MqttClient` and the queue of `SysCtrl` implement what their users take them for, and
that `AtDemo`'s cache is `RecordQueue` under the mapping `SerialRx` gives it.

Not modelled: string parsing (AT syntax, JSON, console), vendored code other than
the DHCP client of lwIP, and drivers below the operations their callers see. They
are most of the lines of this SDK, and none of them keeps state that another part
of at_demo changes at the same time.
