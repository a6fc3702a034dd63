# psuart: a TLA+ model of the radar relay

`psuart` runs on a gateway box of a parking system. It relays between a radar on
a serial port and a parking server: commands come in as `FB ... FE` packets over
TCP or UDP (or as plain text from the console), go out on the serial port
without their frame, and the bytes the radar answers with are collected, framed
and sent to the server. This directory models that relay, checks it with TLC on
small instances, and proves with TLAPS, for every size, all but one of its safety
invariants and the two abstract specifications it implements.

Paths below are relative to the repository (`src/rader.c`, `inc/rader.h`).

## 1. The system

| part | source | state it keeps | operations |
|---|---|---|---|
| byte ring | `src/ringBuffer.c`, `inc/ringBuffer.h` | `in`, `out`, `mask`, `rdata` | `ringbuffer_init/reset/len/peek_len/skip/in/in_byte/out/out_peek/out_byte/peek_byte` (`ringbuffer_reset_out` is declared at `ringBuffer.h:46` and defined nowhere) |
| radar commands and answers | `src/rader.c`, `inc/rader.h` | statics `raderFifo` over `raderBuf`, `rdaerCmdFlag`, `raderDlen` | `rader_init`, `rader_cmd`, `rader_cmd_from_stdin`, `rader_recv`, `rader_heart`, `set_raderDlen` |
| checksum | `src/rader.c:6-26` | none | `crc8` |
| service loop | `src/psuservice.c:187-503` | `uart_fd`, `tcp_fd`, `udp_fd`, `net_addr` of `psus_data`; static `tcp_connected`; locals of a pass | `OpenUart`, `StartTcpSocket`, `StartUdpSocket`, the `Close...` functions, `TcpSocketStatus`, `WaitMessageAndHandle`, `signal_func` |
| start-up and configuration | `src/psuservice.c:23-169, 505-557`, `inc/psuservice.def` | `psus_data` | `LoadPsuConfig`, `default_config`, `save_config`, `main` |
| INI files | `src/ini.c` | none (a file) | `ini_parse`, `read_profile_string`, `write_profile_string` |
| utilities | `src/utils.c` | none | `StrToInt`, `split_arguments`, `get_ip_addr`, `ParseIPAddr`, `CheckCmdLine`, `GetCmdParamValue`, `com_open`; a hexadecimal codec and others |
| log filter | `src/xLogMessage.c` | levels, module mask, callbacks, a lock | `SetLogLevel`, `LogMessage`, `LogErrorMessage`, ... |
| service script | `src/psuservice.sh` | none | the command line it starts the service with |
| build | `Makefile*`, `configure.ac` | none | none |

How they interact. One thread runs `WaitMessageAndHandle` in an endless loop
(`main`, 548-550). Each pass opens what is not open, waits in `select`, and
calls, in this order, the handlers of a connection that got writable, of the
serial port, of the TCP connection, of the UDP socket and of the console. Four
sources (server, UDP hosts, console, and the service itself, which sends `F`
after every answer to `S`) share the one command slot of `rader.c`; the handlers
reach it through `rader_cmd`, `rader_cmd_from_stdin`, `rader_recv` and
`set_raderDlen`, and it stores the answer in the ring. A signal handler can close
everything between any two steps.

What is hard here. There are no threads, so no data races; the difficulty is the
*order* in which four sources, a serial line that delivers an answer in pieces, a
connection that breaks and is made anew, and failing system calls meet three
statics that have to agree, and descriptors that are cached, closed and reused.
The ring adds unsigned arithmetic on wrapped positions. `PROJECT.json` lists
each hazard at its line with the properties that cover it.

What makes each part correct:

* ring: no position or copy outside the memory for any caller that does not use
  `ringbuffer_skip`; first in, first out for a caller that respects the room there
  is;
* rader: one command at a time; the reply of a command has exactly its answer's
  bytes; nothing is cut off or overwritten; the frame fits;
* command packets: only packets that were sent reach the radar, in order, once,
  and a damaged one does not;
* checksum: a burst of up to eight bits in a row never goes unnoticed;
* configuration: what is saved is what later starts load and work with, a write
  changes one setting only, and a start that is killed does no lasting harm (it
  does);
* service loop: descriptors neither leak nor are used after they were closed; a
  connection in the making is not taken for one; replies go to the connection of
  their command; a command comes to an end; whoever addressed the service last
  is who it connects to; nothing keeps the loop from a datagram.

## 2. The modules

| module | what it is | corresponds to |
|---|---|---|
| `RingBuffer` | the ring's functions as operators | `src/ringBuffer.c`, function by function |
| `ByteQueue` | abstract: a bounded queue of bytes | what `inc/ringBuffer.h` promises |
| `RingBufferUse` | callers of the ring, one call per step (`AnySpec`, `RoomSpec`, `SkipSpec`) | the API of `inc/ringBuffer.h` |
| `Erup` | the frame: getters, acceptance of a packet, framing | the macros of `inc/rader.h`, the checks of `rader_cmd` |
| `Rader` | commands and the assembly of answers | `src/rader.c`, one action per function |
| `ResponseAssembler` | abstract: one command pending, bytes heard, a reply | what `src/rader.c` is for |
| `Crc8` | the checksum, bit by bit | `rader.c:6-26` |
| `CommandStream` | `Rader` with `Crc8`, fed by a TCP stream that is cut and damaged | `psuservice.c:435-452` and `rader_cmd` |
| `PsuService` | `Rader` inside the service process and its surroundings | `psuservice.c:187-503` |
| `IniFile` | INI files as sequences of lines, with the two parsers and the writer | `src/ini.c` |
| `Utils` | numbers, fields, addresses, parameters, the serial port's settings | `src/utils.c`, function by function |
| `LogFilter` | which messages are let through, and where they go | `src/xLogMessage.c`, the callbacks of `psuservice.c` |
| `Config` | the command line, loading, saving the defaults, what is made of the strings, the fork of `-d`, kills and restarts, edits of the file | `psuservice.c:26-169`, `main` |
| `RingBufferLemmas`, `RingBufferProofs`, `RaderProofs`, `PsuProofs`, `Crc8Proofs`, `CommandStreamProofs`, `ConfigProofs`, `Induction` | theorems and what they rest on | section 5 |
| `MCRingBuffer`, `MCRader`, `MCCommandStream`, `MCPsuService`, `MCConfig` | instances for TLC | section 3 |

How state maps. Variables keep the names of the C statics and fields: `fifo` is
`raderFifo` with `raderBuf` as `rdata`, `rdaerCmdFlag` and `raderDlen` are the
statics, `uart_fd`, `tcp_fd`, `udp_fd`, `net_addr` the fields of `psus_data`,
`uartFd`, `tcpFd`, `udpFd`, `rfds`, `wfds` the locals of a pass. `ret`, `uartTx`,
`tcpTx` are what the last call returned and passed to `write`. `kern`, `uartSt`,
`tcpSt` and the four queues are the kernel's side; `origin`, `fresh`, `crossed`
and `peer` (whom the present connection goes to) are history variables that
properties read and no action's guard does; so is `lost` in `Config`.

How modules compose. `CommandStream` and `PsuService` extend `Rader`, which
works on a ring of `RingBuffer` and frames of `Erup`; `CommandStream` gives
`Rader`'s constant operator `Crc8` the real checksum. `Config` extends
`IniFile`, `Utils` and `LogFilter`. `RingBufferUse` instantiates `ByteQueue`,
`Rader` instantiates `ResponseAssembler`, each with its refinement mapping.

How actions map. In `Rader` an action is a whole C function. In `PsuService` a
pass is cut before each system call on a descriptor, because there the
surroundings may have changed something: `OpenUart`, `StartTcp`, `StartUdp`, one
of `Select`/`SelectTimeout`/`SelectError`, then `TcpWritable`, `Uart` (and
`AutoF`), `Tcp`, `Udp`, `Stdin`. `Skip` is a handler whose descriptor is not
ready. A handler that calls into `rader.c` *is* the corresponding `Rader` action
conjoined with its own changes.

Data. Bytes of answers are drawn from two or a few values, or marked with the
command they belong to. Payloads are one letter; the payloads and tokens that
`strcasecmp` recognises are given as sets. `StrToInt(buf) && 0xFF` is modelled by
what it yields, 1 or 0. The checksum is a constant operator of `Rader`: the
assembly needs only that sender and receiver compute the same function, and
`rader_assembly` and the service's runs use a cheap one. `tcp_stream` uses the
real one and has a fault model for it: a burst of up to eight bits in a row may
be inverted anywhere in the data or the checksum of a packet. (Nothing in the
code covers the header; a packet damaged there is not in the model.) `printf`,
`dump_buffer` and the calls of the log are left out.

Files. `IniFile` works on lines: headers, entries, loose entries
(`name : value`, or white space around the `=`), notes, text that is none of
these, and blank lines, each possibly indented. The two parsers differ, and the
model keeps the difference. `ini_parse` compares whole names, lets the last entry
win, takes loose entries, and takes an indented line for the continuation of the
entry before it; `parse_file` accepts any prefix of a name, takes the first entry,
and sees neither loose nor (but right after a header) indented ones. Saving is
cut between the `fopen` that empties the file and the `fputs` that fills it.
Values are strings, because `Utils` computes with them. Not in the model:
comments behind a value, lines beyond 200 bytes, files beyond 16 KB, `%` in a
file (the writer copies the rest of the file through `sprintf`).

Environment taken as given. `FD_ISSET` of the descriptor numbers -1 and -2 (a
failed `StartTcpSocket`) is false: on the targets it tests bits 63 and 62, which
are descriptors the process never has. The builds with `RADER_PASS` and
`PSU_DEBUG` are not modelled; neither is switched on in the repository.

## 3. The runs

| run | checks | instance |
|---|---|---|
| `ring_any` | types, positions, copies and reads in bounds for any caller, `ringbuffer_skip` excepted | ring of 3 bytes, requests of up to 7, reads of up to 4, 8-bit `rbUint` |
| `ring_queue` | `RoomSpec` implements `ByteQueue` | ring of 5 bytes, all buffers over two byte values |
| `rader_assembly` | `AnswerInProgress`, `NothingCutOff`, `ReplyFits`, `Rader` implements `ResponseAssembler` | ring of 7, answers of 1 to 4 bytes, every read of up to 3 bytes, good, cut, damaged and doubled packets, `cls`, hexadecimal tokens |
| `tcp_stream` | `TakenInOrder` | three packets, also one whose payload begins like a packet, at most one damaged, cut anywhere; the real checksum |
| `psu_commands` | `OwnAnswer`, `SameConnection`, `AutoFTaken` | commands from all four sources, reconnects |
| `psu_failures` | `DescriptorsOwned`, `UsesOpenDescriptors`, `ConnectedIsUp` | every failure of `AllFailures`, blank console lines |
| `config_start` | `SavedSoFar`, `SettingsComplete`, `ReadBack`, `WriteIsLocal`, `WrittenIsLoaded`, `ParsersAgree`, `WorksAsConfigured`, `RunsOnFile` | the 13 settings of `psuservice.def`; the command line of `README:8` with `-Log` and `-d`; kills at every point, a read-only disk, and a full one after which saving goes on; edits: lines added, values changed (also to "018" and to a `selectTimeout` that is no number), the file removed |
| `psu_liveness` | `BusyEnds`, `SlotFreed`, `ConnectsToAddressed`, `DatagramsTaken`, `CloseEndsDeadConnection` | two UDP hosts that say "close socket!", commands at the console, refused connections, servers that hang up, a serial line that loses bytes, a device that is unplugged |

The largest is `psu_failures` with 4.9 million distinct states, then
`psu_commands` with 3.9 million; `psu_liveness` has some 210 000,
`config_start` and `tcp_stream` 80 000 each. Assumptions that the runs evaluate check pure
functions against reference definitions: `CheckValue` and `LongDivision` (the
checksum against its published check value and against polynomial long
division), `NumbersReadBack`, `FieldsReadBack` and `ParametersFound` (the
conversions of `Utils` undo the usual ways to write what they read). Two more check
that assumptions fit the code: `RealSizes`, and `RealPackets` (`PacketAssumption`
for the radar's own commands, reads of 4096 bytes and every burst).

Four runs look for a violation and find it; each checks what a comment of the
code says:

| run | the comment | the code |
|---|---|---|
| `ring_skip` | `ringBuffer.c:79` "skip output data" | a skip at the last slot does not wrap `out`, and a second one takes it beyond what a read puts right: the next read comes from outside the memory |
| `tcp_partial` | `rader.c:132` "need continue recv data" | the part that was read is forgotten |
| `config_interrupted` | `psuservice.c:26` "create one and fill in its default values" | a first start killed while saving leaves an unfinished file; later starts leave the other settings NULL, and die of it if one is `network.ipaddr` or `log.file` |
| `psu_path` | `psuservice.c:455` the client answers along the original path | every reply goes to the TCP connection |

The one of the ring does not make the service misbehave, which never skips. One
skip at the last slot does no harm by itself: `out` is then `mask + 1`, the length
is still right (the subtraction is unsigned), and `ringbuffer_out` and
`ringbuffer_out_byte` wrap before they read. It takes a second skip with a byte
in the ring, to `mask + 2`, for the positions to be lost. The
room `ringbuffer_unused` reports is `Size` too large once `in` has wrapped below
`out` (lemma `UnusedValue`), against the comment at `ringBuffer.c:13`;
`NothingCutOff` shows that the service's ring never wraps while an answer is
being assembled. (`ringbuffer_in` returns the ring's length where `ringBuffer.c:130-131`
speaks of the number of copied elements; `rader.c:77` relies on the former, and
`ByteQueue` has it so.)

Other differences between the code and what is written about it, met while
modelling. They are in the model as the code has them, without a run of their own:

* `psuservice.sh:42` starts the service with `--config $CONFIGFILE --log
  $LOGFILE`. `GetCmdParamValue` (`utils.c:602`) takes the next argument for a
  value only if it does not start like a switch, and an absolute path does: both
  values come out empty (`ParametersFound`). A service the script starts opens no
  configuration file, runs on the defaults, cannot save them, and logs to no file.
  `README:8`, which puts a colon, works.
* `StrToInt` (`utils.c:532`) makes a capital hexadecimal digit small and then
  subtracts `'A'`: each counts 32 too many, and "0x1A" is 58 (`NumbersReadBack`).
* The comment at `utils.c:802` lists the parities N, E, O and S; the code knows
  `n`, `N` and `E`, and with any other `com_open` fails at every attempt. The
  format in the comment at `utils.c:879` (`com=...,s=...`) is not parsed.
* `README:9-11` shows a `--cmd:` switch; nothing reads one. `README:24-32` puts
  the length at offset 4 of a frame; the code has it at offset 1.

Bounds, and why they are enough.

* Sizes: `RaderAssumption` is what the assembly needs of the sizes
  (`DataLen + MaxRead <= Size`, `DataLen + 6 <= FrameBuf`, lengths that a signed
  `char` can frame). The small instances satisfy it with equality where it
  matters (4 + 3 = 7 and 4 + 6 = 10 in `MCRader`), the sizes that are compiled
  in satisfy it (`RealSizes`, evaluated by every run of `Rader`), so the theorems
  hold of them.
* `MaxIn`, `MaxOut`: requests longer than twice the ring, reads longer than it.
* `MaxSent`: three packets, so that a cut can span packet boundaries on both
  sides of one. `MaxHits`: one of them damaged, before, between or after good ones.
* `MaxQueue`: one packet waiting per socket and one line at the console. The
  handlers take one item per pass, so a longer queue only repeats passes.
* `MaxLine`: bytes waiting on the serial line (three in `psu_commands` and
  `psu_path`, two in `psu_failures` and `psu_liveness`); a radar that is asked
  while so much is unread does not answer. Three hold the tail of one answer and
  the next one; two hold a whole answer, which is what the other two runs need.
* `Fds`: four numbers for three descriptors, so that a leak of one is visible
  as such before numbers run out, and reuse of a number happens.
* `MaxEdits`: three edits of the file, enough to add a section with an entry, a
  duplicate of a section, a name that is a prefix of another, or an entry and a
  line that continues it, and to change what one of them says.
* `FewEdits`: two edits of a file that was not saved completely, because there
  are many more such files: those that any sequence of full disks and kills
  leaves.
* `Failures`: which failures a run allows; `psu_failures` allows all.

Deadlock is checked in every run.

## 4. Fairness

Only `LiveSpec` states any.

* `WF(Process)`: the process is an endless loop that the kernel schedules; where
  `select` or `scanf` wait, the action is not enabled.
* `SF(Accept)`: a server that is asked again and again accepts some time.
* `SF(TcpConnected)`: some time it also stays until the process has looked at the
  new connection. Without these two the properties below would be false for the
  trivial reason that no connection ever comes up.

Nothing is assumed of signals, failures, hang-ups or inputs.

There is no timeout in the code, so what ends a command is an answer or a new
connection, and the two properties about it say so, on a line that may lose
bytes and a device that may be unplugged. `BusyEnds`: a command ends, unless its
connection stands and bytes of its answer are owing (`Owed`: fewer are in the
ring and on the line than it waits for), which nothing but `cls` or another
connection puts right. `SlotFreed`: once there is no connection, even such a
command ends, at the next one, or the
process was told to end. Datagrams that close the connection over and over
can put the end off, which is why both have a waiting datagram as a way out;
`ConnectsToAddressed` has it too, for a datagram that is waiting may change the
address. The run opens the serial port in the first place: a port that cannot be
opened, which leaves a command as little hope of an answer as an unplugged
device, is in `psu_failures`, for safety.

`DatagramsTaken` needs that nobody types a blank line: `scanf` then waits for a
token and the whole service with it. The code has no defence, and with blank
lines the property does not hold; `psu_failures` has them.

## 5. What is proved

The ring. `RingBufferLemmas` states what each ring function preserves or returns
(`UnusedValue`, `InSound`, `InWithoutWrap`, `OutSound`, ...). On it rest

* `RingBufferProofs`, for `AnySpec` (any caller that does not skip): `UseTypes`,
  `PositionsStayInside`, `CopiesStayInside`, `NoByteFromOutside`. The inductive invariant is `UseInv`:
  the ring is sound (both positions are slots) and what was handed over is made
  of bytes. The argument for the copies is that `in + unused = Size + out` in
  both cases of the wrong formula, so the second `memcpy` is never longer than
  `out`.
* `RingBufferProofs`, for `RoomSpec`: `RoomIsQueue`, that `RoomSpec` implements `ByteQueue` for
  every size. The mapping reads the queue off the slots from `out` to `in`; for
  each operation a lemma says what it does to that sequence (`InPuts`,
  `OutTakes`, `PeekByteIsFirst`, `SkipDrops`, ...), with a case for each way the
  stretch can lie across the end of the memory. The invariant `Held` lets `out`
  stand one behind the last slot, where `ringbuffer_skip` can leave it; the one
  call after which the queue would be wrong is the skip that `RoomSpec` excludes
  and `ring_skip` exhibits. The assumption `Wide` (`2 * Size < Word`) excludes
  only a ring of exactly half the word's range.

The assembly.

* `RaderProofs`: `TypeCorrect`, `AnswerConsistent`, `NothingIsCutOff`,
  `EveryReplyFits`. The inductive invariant is
  `RaderInv == Sound(fifo) /\ RaderTypeOK /\ AnswerInProgress`.
  `AnswerInProgress` alone is not inductive: that `rader_recv` leaves `in` short
  of `raderDlen` uses that `ringbuffer_in` neither clamps nor wraps, which needs
  a sound ring with `out = 0` *and* the size assumption. `NothingCutOff` follows
  from the invariant and `DataLen + MaxRead <= Size`.
* `AssemblesAnswers`, that `RaderSpec` implements
  `ResponseAssembler`. What is pending is `rdaerCmdFlag` where `raderDlen` is
  positive, what was heard is the unwrapped content of the ring; the proof is one
  step per function over `RaderInv`.

Induction over data. The library's induction theorems take an operator as a
parameter, which the installed provers cannot instantiate. `Induction` gets
around this with sets: that a set of numbers has a least one (`Least`, from the
well-foundedness of `<`) gives induction for a *set* (`SetInduction`,
`LoopInduction`: the set of all turns after which something holds), and
`LoopRuns` gives the run of a loop as a function, which is what a recursive
function in a definition (`run[n] = step(run[n - 1])`) denotes. The loops of
`crc8`, of `ini_parse_file` and of the handler's calls are reasoned about so.

The checksum and the command packets.

* `Crc8Proofs`: `Crc8Loop` says that the recursive function of `crc8` is the run
  of its loop, and two runs, over the message sent and the one received, are put
  side by side. A turn is linear (`EightTurnsLinear`): how the two registers
  differ depends on the inverted bits alone, not on the data. It is injective
  (`EightTurnsInjective`): registers that differ stay different while the
  messages agree. What is left is a burst over two bytes: what its first byte
  does to the register is never undone by its second (`BurstNotUndone`, from
  where the lowest bit of the first falls out). `BurstCaught` puts these
  together.
* `CommandStreamProofs`: `DamagedCaught` concludes that a packet of any command,
  hit by a burst of up to eight bits in a row where the checksum covers it, data
  or checksum, fails the check of `rader_cmd`.
* `CommandsTakenInOrder`, that `TakenInOrder` holds of `Spec` of `CommandStream`.
  The inductive invariant `StreamInv` says that the unread stream is *laid out*
  (`LaidOut`): each of its bytes lies in a packet that was sent or in one that
  was damaged, the first of which may have lost its beginning; and that the
  places, in `sent`, of the commands taken are before those of the packets that
  still lie on the stream whole (`Ordered`). A read that begins at the beginning
  of a packet takes it if it is whole and intact; one that begins anywhere else
  takes nothing. The latter is where `PacketAssumption` comes in: no packet holds
  another one after its first byte. It is not true of every payload (one that
  holds a whole packet, checksum and end mark included, is taken for that packet
  when TCP cuts right before it), but of every command the radar knows: TLC evaluates it for
  the packets of its instance and, in `RealPackets`, for all six letters and
  "close socket!" under each of the 1151 bursts at every place. `Crc8IsComputed` says that the
  constant `Crc8` is the function of `Crc8.tla`, as it is in that instance.

The configuration. `ConfigProofs`, for every table of settings, every set of
lines and texts an editor may add, and every sequence of kills and restarts.

* What the parsers find: `KeyLinesIs` and `KeyLinesAlike` (what `parse_file`
  finds depends on the kinds, names and indentation of the lines up to it),
  `ScanSteps` (`ini_parse_file` line by line), `HandledIs` (of several calls about
  a setting the last counts), and `WrittenIsRead`: what `write_profile_string`
  writes is what `read_profile_string` reads, in *any* file, with a case for each
  of the three things the writer does.
* What a write does to what the service loads, `WritesStayLocal` and
  `WritesAreLoaded`: `WriteIsLocal` and `WrittenIsLoaded` in *any* file without
  ambiguous names and misread lines. The scans of the two files are followed side
  by side. `LineIs` says what a single line does, `FoundSteps` what it adds to
  what was found; `SameWordsIs` and `SameState` say when a line does the same in
  both scans, although it has another number in each, and `TailKept` that what
  is found then stays the same but for the setting written. There is a lemma for
  each of the three things the writer does: a value replaced
  (`ReplacedIsLoaded`), a line added under a header (`AddedIsLoaded`), a section
  added at the end (`SectionIsLoaded`); `WrittenOutcome` puts them together. The
  second is the hard one: the line that stood at the head of the section loses
  its indentation, and the scans may differ in `prev_name` until an entry or a
  header comes (`FollowsStep`). An indented line that ini_parse takes by itself
  would from then on continue the new entry; no line does where none is misread.
  A file may hold the setting more than once, and the writer change an entry that
  is not the last: the service then loads what was written or what it loaded
  before (the third part of `TailKept`), and nothing else.
* `ParsersFindTheSame`: in such a file the two parsers find the same
  (`ParsersAgree`). An entry `parse_file` finds is one that `ini_parse` takes by
  itself, under the same section (`KeyLineSays`, from `SectionScanned` and
  `AfterHeaderIs`); that no other line is about the setting is the hypothesis
  `OneEntry`.
* What saving builds: `Saved(file, J, values)`, for a set `J` of places in the
  table, says that every line of the file is blank, the header of a setting of
  `J`, or an entry of one with its value under its header. `SavingStep` adds a
  place to `J`; a full disk, which empties the file, leaves the empty set, and
  saving goes on from there (the history variable `lost` is the last setting so
  lost: the file then has `lost + 1` up to `next`); and
  `SavedIsRead` and `SavedIsLoaded` say that both parsers find what was saved. It
  needs `NamesAssumption`: no section of `psuservice.def` is a prefix of another,
  nor a key of one in its section; `parse_file` would take the one for the other.
* What edits leave: `Complete(file)`, that `ini_parse` makes a call about every
  setting. A line more undoes no call and another value changes no name
  (`LineKeepsComplete`, `ValueKeepsComplete`).
* The invariant `IInv` (theorem `ConfigInvariant`) puts this together with the
  place of the process: while it saves, the file has the settings from `lost + 1`
  up to `next` (`Saving`); otherwise, unless a start was cut short or met a full
  disk, the file is `Complete`, so the settings have all values (`CfgComplete`), and they
  are what `ini_parse` finds in the file (`CfgOfFile`). None of the properties is
  inductive by itself: that a setting is there *after* edits and restarts rests
  on what saving built before them. From it: `ConfigTypes`, `SavedStaySaved`,
  `SettingsStayComplete`, `WritesAreRead`, `RunsOnItsFile`. The second and the
  last are stated for a service whose command line names the file (`Meant`), the
  first and the third under `JoinedAreText`: that a line, as part of a value, is
  a string. That is so; TLAPS does not know that a string is a sequence.

The service. `PsuProofs`, for `Spec` of `PsuService` with any number of
descriptors, inputs and failures:

* `KernInv` puts types, `DescriptorsOwned`, the cached descriptors of a pass and
  `ConnectedIsUp` together. They are inductive only together: a handler closes
  what it cached, so ownership needs that the cached number is still the field's,
  and that needs to know what was closed earlier in the pass. From it:
  `ServiceTypes`, `NothingLeaks`, `NothingUsedAfterClose`, `NoFalseConnection`.
* `OrderInv` relates the place in the pass to the command slot and the
  connection: `AutoFIsTaken`. `SerialInv` follows the connection a command was
  accepted on: `RepliesStay`.
* `RepliesAreOwn`. The invariant `OwnLine` says that, from a
  command forwarded on a silent line on, whatever lies on the line *and* in the
  ring carries its mark; `RecvStores` (of `RaderProofs`) says what of it a
  reply is made of. It needs that "close socket!" is no command of the radar's
  (`PsuAssumption`): the one call that forwards bytes without recording who
  asked.
* `AssemblyInService`: every step of the service is a step of `Rader` or leaves
  its variables alone, so its invariants hold inside the service.
* `ServiceAssembles`: the service as a whole implements
  `ResponseAssembler`, with all its sources, failures and lost connections. Each
  handler makes at most one call into `rader.c`; the lemmas of `RaderProofs`
  say which step of the assembler that is. It assumes `AnyRead`, that `UartReads`
  holds every read of 1 to `MaxRead` bytes: a read the assembler may not hear
  could not be mapped.

Assumptions: `RingAssumption` (a ring of at least two bytes, a word twice as
wide), `UseAssumption`, `RaderAssumption`, `ReadsAssumption`, `PsuAssumption`,
`StreamAssumption`, `PacketAssumption`, `ConfigAssumption` and
`NamesAssumption`, which TLC evaluates on every run of a module that extends
theirs; and the hypotheses of single theorems, `Wide` of `RoomIsQueue`, `AnyRead`
of `ServiceAssembles`, `Crc8IsComputed`, `JoinedAreText` and `Meant`.

Only model-checked: `WorksAsConfigured`, which compares what the conversions of
`Utils` and `LogFilter` make of a file with examples written out by hand (TLAPS
knows strings as values, not as sequences of characters, so `StrToInt("0x10")` is
no number to it; that the settings converted are those of the file is
`RunsOnItsFile`); and liveness, which is out of the prover's reach.

## 6. Not modelled

* Of `utils.c`: `HexEncode` (a printout), `ExtractFilePath` and the `mkdir` of the
  log's directory, and what nothing calls (hexadecimal decoding, prefixes, IP
  classes, `min_value`, `sum_value`, `com_recive`, `com_write` and others).
* Of `xLogMessage.c`: the module mask, which the service never changes from "all
  modules", and the lock, which one thread takes.
* Of `ini.c`: comments behind a value, over-long lines and files, `%`, and
  `read_profile_int`, which nothing calls.
* `printf` in the signal handler, which may meet a `printf` it interrupts: the
  handler then exits, and what matters of it is what it closes.
* A short `write` of a reply on the non-blocking socket: nothing in the code
  notices it. A `write` to a reset connection is modelled (`killed`).
* Address and port details of a datagram: `net_addr` keeps only whose address it
  is. What `ParseIPAddr` makes of the configured one is in `Config`.
* Late bytes of a cancelled command: modelled, and the reason for `fresh` in
  `OwnAnswer`. The code has no defence against them.
* The build files, which have no state.

## 7. Plan

What is left, in the order of what it would add.

1. `IniFile`: comments behind a value, where the two parsers differ once more,
   and the limits of 200 bytes a line and 16 KB a file.
2. `Config` with the script's command line as a second instance, so that
   `RunsOnFile` is checked where it says least.

A model of one reader and one writer in two threads (`ringBuffer.c:133`) was
considered and dropped: nothing in the service is threaded.
