# Verification of lib_device_control

`lib_device_control` carries small control commands from a host to the tasks of an xCORE
device. A host names a *resource* (one byte), a *command code* (one byte, bit 7 is the read
bit) and a payload of some bytes; the device finds the task that registered the resource and
calls `write_command` or `read_command` of its `control` interface. The same library serves
four transports: I2C, SPI, USB and xSCOPE, one of them per build.

This directory holds TLA+ models of that code, TLC configurations that check them on small
instances, and proofs checked by TLAPS that hold for every value of the constants. Paths
below are relative to the repository (`src/` in `PROJECT.json`).

## 1. The system

### 1.1 Components

| component | code | state it keeps | operations |
|---|---|---|---|
| resource table | `lib_device_control/src/resource_table.xc`, `control.xc:20-51` | `resource_table[256]`, `g_reserved_id`, `reserved_id_specified` | `control_init`, `control_register_resources` (one call of `register_resources` per task, `resource_table_add`), `resource_table_search` |
| dispatch | `control.xc:76-148` | `last_status` | `write_command`, `read_command`, `special_read_command` |
| I2C device | `control.xc:53-74,150-367`, `adapters/transport_i2c.xc` | `struct i2c` (state, resource id, interface, code, lengths, payload) | write start, read start, byte written, byte read, stop |
| SPI device | `control.xc:465-641`, `adapters/transport_spi.xc` | `struct spi` | byte supplied, byte required, end of transaction |
| USB device | `control.xc:369-425`, `adapters/transport_usb.xc` | `last_status`, `request_data` | SET request, GET request |
| xSCOPE device | `control.xc:427-463`, `adapters/transport_xscope.xc` | one word buffer for request and response | upload |
| I2C hosts | `host/src/device_access_i2c_rpi.c`, `..._i2c_xcore.xc` | none of their own | init, query version, write (with status query), read, cleanup |
| SPI host | `host/src/device_access_spi_rpi.c` | none of its own | init, write (with status query), read |
| USB host | `host/src/device_access_usb.c` | device handle | init, query version, write (with status query), read |
| xSCOPE host | `host/src/device_access_xscope.c` | `last_response`, `last_response_length`, `record_count`, shared by two threads | connect, write, read, callbacks of the endpoint library |
| message builders | `host/api/control_host_support.h` | none | `control_xscope_create_upload_buffer`, `control_usb_fill_header`, `control_build_i2c_data`, `control_build_spi_data` |

Left aside: `control_host_util.c` (delays and printing), the build configuration, the
examples and the tests. The tests were read for what a legal master sends.

### 1.2 How they interact

At start-up the transport task calls `control_init`, then `control_register_resources`, which
calls each application task in turn. From then on a transport peripheral calls the adapter,
the adapter calls a `control_process_*` function, this searches the table and calls the one
application task, and blocks until the task has answered. So a device is one sequential
program driven by two environments: the master on the bus, which may do anything at any byte,
and the application tasks, which answer as they like. The results travel back in three ways:
as an ACK or NACK of the byte that completed the command (I2C), as the answer of a *status
command* to the special resource 0 (SPI, USB), or in the response itself (xSCOPE).

### 1.3 What is hard, and what would make each part correct

* **Registration** may fail half way, and there is no roll-back. Correct: a lookup only ever
  leads to a task that listed the resource; the result says exactly whether all were
  registered; the function comes back.
* **I2C** has one struct for the command in hand, cleared by nothing: a write start only
  changes `state`. The master may begin anew anywhere, stop anywhere, read twice, go on after
  a NACK, and write or read too much. Correct: nothing of an old command gets into a new
  call, a command is executed once, the ACKs tell whether it was, the reply that is read is
  the reply that was given, a truncated transaction is noticed.
* **SPI** is full duplex: requests for a byte to send and bytes that arrive interleave in any
  order, and `read_command` is called by the first *request* after the header. A read takes two
  transactions, and the master may begin something else in between. Correct: as above, and
  the transactions do not leak into one another.
* **The status** must survive until it is asked for.
* **USB**: a SET request that fails is neither acknowledged nor stalled, so the host gives up after
  500 ms; it may also give up while the application takes its time, and begin the next command
  with the device still at the old one. The status is a second transfer that may fail by itself.
  Correct: a success the host reports is one of this command, whatever is left of earlier ones.
* **xSCOPE** shares `record_count` and `last_response` between two threads of the host without a lock,
  waits without bound, and uses one buffer on the device for everything. Correct: the callback
  never runs while the command resets the count or reads the response; the user gets the result of
  the call this command made; the wait ends.
* **A host and its device** keep each other's state in mind without talking about it. On I2C a transfer
  may be cut off at any byte, and what is left in the struct meets the next one; on SPI nothing on the
  bus tells the host anything, and one transaction too many puts host and device out of step for good.
  Correct: what the user is told is true of the command the user gave, on every transport. This is the
  module `ControlService`.

`PROJECT.json` lists the hazards one by one with the line where each bites.

## 2. The modules

| module | what it is |
|---|---|
| `Control` | vocabulary: result codes, read bit, special resource, lookup, the calls of the `control` interface |
| `Registry` | abstract: a registry in which tasks take free resources in turn |
| `ResourceTable` | start-up of a device, one loop iteration per step; implements `Registry` |
| `ResourceTableProofs` | its theorems |
| `I2CDevice` | the I2C transport under an arbitrary master |
| `I2CDeviceProofs` | its theorems |
| `SPIDevice` | the SPI transport under an arbitrary master |
| `SPIDeviceProofs` | its theorems |
| `ControlService` | abstract: what a host may expect of a write or a read, whatever the transport |
| `I2CHost` | the two I2C hosts driving `I2CDevice`; implements `ControlService` |
| `I2CHostProofs` | its theorems |
| `SPIHost` | the SPI host driving `SPIDevice`; its writes implement `ControlService` |
| `SPIHostProofs` | its theorems |
| `USB` | the USB transport end to end: host, control transfers, endpoint 0 |
| `USBProofs` | its theorems |
| `Xscope` | the xSCOPE transport end to end: host with two threads, link, device; implements `ControlService` |
| `XscopeProofs` | its theorems |
| `ControlLemmas` | what the proofs about every transport need to know of bytes, calls, lookups and sequences |
| `MCI2CDevice`, `MCSPIDevice`, `MCI2CHost`, `MCSPIHost`, `MCUSB`, `MCXscope` | the resource table of the instances TLC checks |

All but `Registry` extend `Control`. A transport takes the table as
a constant: after `control_register_resources` nothing in the code writes to it.

### 2.1 ResourceTable

`phase` is the place of the transport task in the code: before `control_init`, after it, at
the top of the loop of `control_register_resources`, inside `resource_table_add`, after the
return. `j` and `i` are the two loop variables, `listed[k]` is what task `k` answered (the code
keeps only `r[]`, which is `listed[j]`), `ret` the result, `route` the last lookup. Actions:
`control_init`, `control_register_resources`, `register_resources` (the task answers),
`AddEntry` (one iteration of `resource_table_add`), `AddFails` (any of its early returns: an
interface number that is reserved, a resource that is reserved, beyond the table or taken),
`AddReturns`, `RegisterReturns`, `Search`. Before `control_init` static storage is zero, so
every entry names interface 0; that is the initial state.

### 2.2 I2CDevice

One action per event of the bus and branch of `control_process_i2c_*`, each including what the
adapter in `transport_i2c.xc` makes of the result (ACK or NACK):

| event | code | actions |
|---|---|---|
| write start | `..._write_start` | `WriteStart` |
| byte written | `..._write_data` | `SendResid`, `SendCmd`, `SendLength`, `SendFirstByte`, `SendByte`, `SendRefused`, `SendOverrun`, `SendByteTraps` |
| read start | `..._read_start` | `ReadStart`, `ReadStartFails`, `ReadStartRefused` |
| byte read | `..._read_data` | `ReadFirstByte`, `ReadByte`, `ReadOverrun`, `ReadByteTraps` |
| stop | `..._stop` | `Stop` |

The first eight variables are the fields of the struct and `last_status`. The others
record what happened since the last start: bytes `sent`, whether one was `nacked`, the `calls`
made, the bytes `got`, and results. They have no influence on the device (`bus` apart, which
says what the master may do next; the lengths of `sent`, `got` and `calls` only carry the bounds).

`TRAP` is the state of a tile that xC stopped at an index outside an array. A byte read
beyond the reply is not assigned by the code; it is a free choice from `Junk`. A read
callback that fails may or may not have filled in its buffer; both are allowed.

### 2.3 SPIDevice

One action per branch of `control_process_spi_master_supplied_data` (`Supply*`),
`..._master_requires_data` (`Require*`) and `..._master_ends_transaction` (`EndOf*`). Between a
reply and the transaction that shifts it out the device is in `READ_DATA`. `asked` is the reply of
the command in hand, `owed` the reply the current transaction is for. A datum with
`valid_bits` other than 8 is ignored by the code and left out. The length of an SPI read is not
compared with the buffer; for a longer one the call may trap or, where the slice is not checked,
go through: the model allows both.

### 2.4 ControlService

`busy` (is the host in one of the two functions), the `request`, the `log` of calls the tasks received since
it was made, and the `result`. `Begin`, then `Execute` for a call, then `Finish`. For a request of the set
`Promised` there is at most one call, it is the one asked for, and a result that says success is *honest*:
the call was made, it returned success, and a read hands out its reply. For other requests anything may
happen, so the service says how a host recovers from them. Each host says what it promises; a request may
always fail.

### 2.5 I2CHost

`pc` is the place of the host in a transfer (`start`, `sending`, `taking`), `goal` what the transfer is for
(the initialisation, a write, the status query after it, a read), `todo` the bytes still to be written. Actions: the
three functions of the API (`control_init_i2c`, `control_write_command`, `control_read_command`), the steps of a
transfer (`Start`, `Sends`, `WriteSent`, `Turns` for the repeated start, `Takes`, `AllTaken`), and the three
ways it ends early (`ReadRefused` by the driver, `NotAcknowledged` by the device, `BusFails`). `driver` tells the Raspberry
Pi from the xCORE where they differ: only the xCORE sets or clears the read bit, only the Raspberry Pi
writes something in its initialisation (the header of a write to the special resource, which the device refuses at its
last byte: the function reports success all the same), only the xCORE ignores a failed status query. The
drivers of the bus are external. Of them the model takes: a byte that is not acknowledged fails the transfer, and a
transfer may fail at any time, with a stop on the bus or without one. Each step of the host is a step of
`I2CDevice`, so the theorems about an arbitrary master apply.

### 2.6 SPIHost

`todo` are the bytes still to be shifted in, `slots` the number still to be shifted out. `ShiftsIn` and
`ShiftsOut` interleave as far as the SPI slave allows, which is external: n requests in a transaction of n bytes,
each before the byte shifted in at the same time and at most `AHEAD` bytes earlier. `WriteSent`,
`HeaderSent` and `ReplyTaken` are the ends of the transactions with what the host does next. The function
that builds a message compares the length with the size of the whole message, so payloads of
`SPI_DATA_MAX_BYTES` + 1 to `SPI_TRANSACTION_MAX_BYTES` bytes overflow an array of the host; these are left out. Longer
ones make an empty message and are modelled, with a device that may or may not notice.

### 2.7 USB

Host and device in one module. `host` is the place of the thread of the command (idle, in the control
transfer of the command, in that of the status query), `setup` the SETUP at the endpoint that the
device has not taken yet, `ep0` and `stage` the request the device is at and how far it is, `answer` how the
open transfer ended. A request carries `live`: does the host still have the transfer open? The
actions of the host are the calls (`control_write_command`, `control_read_command`), what follows each return
of `libusb_control_transfer` (`TransferFails`, `ReadReturns`, `WriteQueries`, `WriteReturns`) and `Timeout`, which
stands for any way a transfer ends without the device (time, bus reset, unplugging). The actions
of the device are the steps of `USB_H2D_VendorRequest` (`Receive`, `Set*`) and `USB_D2H_VendorRequest` (`Get*`),
called from endpoint 0 as in `examples/usb/device/src/endpoint0.xc`, whose standard requests stall what
comes back as an error. Of libusb and lib_xud, which are not part of the repository, the model takes:
a SETUP that was not taken may be replaced by the next one, or be gone when the host gives it
up, or be processed too late; data and answers only pass while the transfer is open.
`status`, which `control_write_command` returns unset when the query failed, is any byte of `Junk`. The
buffer `request_data` is not a variable: every request writes the bytes it uses.

### 2.8 Xscope

The host connects first: `control_init_xscope`, `register_callback` for each probe of the device, `Connected` once the
probe of the library is known. Then there are three threads: that of the command (`Begin`, `Reset`, `Upload` or `UploadFails`, `Return`), that of the
endpoint library, which runs `record_callback` in two steps (`RecordCopies`: the response is replaced;
`RecordCounts`: it is counted) or at once for a record of another probe (`RecordIgnored`; the application
sends those at any time, `OtherProbe`), and `xscope_control_client` on the device, one action per path of
`control_process_xscope_upload` together with the `xscope_core_bytes` that follows. `uplink` and `probe` are
the packet and the response under way. The one buffer of the device is a variable: a packet lands on
the start of whatever was there, and `Respond` sends the first bytes of it. The pad byte of a packet, which
the host does not set, and bytes read beyond the end of a response are from `Junk`. What the
endpoint library promises is external: an upload is refused or arrives once and in order, so does a
response, an empty upload brings the device nothing. `last_response` and `record_count` are read and
written in program order (`record_count` is volatile, `last_response` is not; a build that reorders
the two is outside the model).

## 3. What TLC checks

| run | module | what it shows |
|---|---|---|
| `resource_table` | `ResourceTable` | `RoutesToClaimant`, `VerdictExact`, `SuccessRoutesAll`, `RegistrationReturns` (liveness), and `ImplementsRegistry` (refinement) |
| `i2c_device` | `MCI2CDevice` | `DispatchedAsSent`, `KindFromReadBit`, `AtMostOnce`, `AckedWriteExecuted`, `NackedWriteNotExecuted`, `ReadIntegrity`, `StopDetectsTruncation`, `TrapsOnlyWithoutPayload` |
| `spi_device` | `MCSPIDevice` | `DispatchedAsSent`, `OneCallPerCommand`, `ExecutedIffComplete`, `ReplyThenZeros`, `BetweenTransactions`, `StatusOfLastExecuted` |
| `i2c_host` | `MCI2CHost` | `RetryIsSafe`, `WithinAnnounced`, and `ImplementsControlService` (refinement) |
| `spi_host` | `MCSPIHost` | `ResultOfThisCommand`, `InStep`, and `ImplementsControlService` (refinement) |
| `usb` | `MCUSB` | `SuccessMeansExecuted`, `ReplyOfThisRead`, `StatusOfThisWrite` |
| `xscope` | `MCXscope` | `NothingInFlight`, `AnswerUnderWay`, `ResultOfThisCommand`, `HostReturns` (liveness), and `ImplementsControlService` (refinement) |
| `i2c_overrun` | `MCI2CDevice` | violated: `OverrunDiscarded` |
| `i2c_host_success` | `MCI2CHost` | violated: `SuccessMeansExecuted` |
| `spi_host_success` | `MCSPIHost` | violated: `SuccessMeansExecuted` |
| `xscope_unknown` | `MCXscope` | violated: `SuccessMeansExecuted` |
| `xscope_hang` | `MCXscope` | violated: `LegalCommandReturns` |

Each passing run checks a type invariant as well. What the promise of `ControlService` covers differs: on I2C the
requests the documentation allows, on xSCOPE those for registered resources, on SPI the writes among those that are
legal and for a registered resource (a read on SPI reports success in any case; that its data are the reply of its
own call, even of one that failed, is `ResultOfThisCommand`). `RetryIsSafe` is the other direction on
I2C: unless the bus failed, what was reported as failed had no effect. `WithinAnnounced` says that these hosts
never drive the device into the states in which `OverrunDiscarded` fails.

Each property of a passing run has a mutant in `PROJECT.json`: a plausible bug, written next to
the definition it replaces (`..._NoLengthTest`, `..._StaleIfnum`), that violates it.

### 3.1 The instances and why they are enough

*Bytes.* The read bit is the constant `READ_BIT`; with 8 for 0x80 a byte has 16 values, of which
each field takes those the code tells apart.

*Resource table.* Three interfaces of which the last has the reserved number (so the wrap-around
of the unsigned char is at its boundary), answers of up to two ids out of five: the reserved one,
two ordinary, the last of the table, one beyond it. Empty answers, duplicates in one answer,
clashes between two answers, and a clash behind an entry that was accepted all occur, and so do a
second `control_init` and a second registration.

*I2C and SPI devices.* A payload buffer of two bytes and lengths 0 to 3: nothing, shorter, equal, and one
more than the capacity. Two registered resources at different interfaces, an unknown one and
the special one; a write code and the two read codes of the special resource. The application
succeeds or fails. The number of bytes in a command is bounded by `SENT_MAX` = 6 (`FRAME_MAX` for
SPI): header, a full payload and one more, which is where the state machines settle in their
overflow states; bytes read by `GOT_MAX` = 4 (`OUT_MAX` = 3), calls of a command by `CALLS_MAX` = 2,
so that repeated read starts occur. These bounds limit the environment only and stand in the guards
of what the master does. Commands follow one another without bound, so everything an abandoned
command can leave behind meets every next command.

*I2C hosts.* The same buffer of two bytes; lengths 0, 2 and 3, that is none, a full payload and one more than the
limit; a NULL payload for each; a code with the read bit and one without for either function; a
registered, an unknown and the special resource. Requests that are legal and those that are not
follow one another without bound, and each may be cut off at any byte. The fingerprint of a state (`HostView`) leaves
out the `verdict` of the last stop only, which no property of the hosts is about and no action reads.

*SPI host.* A read is padded to eight bytes whatever the buffer, so here the buffer takes five bytes, which
makes the largest message eight bytes long; lengths 0, 1, 5 (full) and 9 (beyond every limit), a NULL payload,
codes with and without the read bit. `AHEAD` is 4, the most for which the reply cannot be
asked for after the five padding bytes have been used up.

*USB.* Limits of one byte on the device and two on the host, lengths 0 to 3: none, fitting, refused
by the device, refused by the host. A registered, an unknown and the special resource; two codes,
each with its read bit set or cleared by the host; one byte of payload and another of reply, since a
call is told from another by its code and kind. Up to one request at the device and one at the
endpoint, both of which may be left over from commands the host gave up. Nothing else is bounded.

*xSCOPE.* An upload of two words: eight bytes, four of data; lengths 0, 1 and 3, the last more than the
words and less than the data. A registered, an unknown and the special resource, two codes. Memory
that was not set reads zero, which is `CONTROL_SUCCESS`, or seven. Stale bytes of the buffer are then the
payload of an earlier write, the reply to an earlier read, or junk, all different. One record of the other probe is
under way at a time.

*Deadlock* is checked for `ResourceTable` and `USB`. In I2C and SPI a trap really stops the tile, and
on xSCOPE the host really waits for ever after an empty upload, so there, and for the hosts of I2C and SPI, whose
bounds on the bytes of the bus can be reached, `CHECK_DEADLOCK` is off.

### 3.2 Fairness

`ResourceTable` and `Xscope` have a liveness property. `RegistrationReturns` holds under weak fairness of the steps
of `control_register_resources`. The transport task runs on its own logical core, and
`register_resources` is answered because the application tasks serve their `control` interface in
their select loop; an application that never does is outside the promise. `HostReturns` holds under weak fairness of the three
threads of xSCOPE, each of which is scheduled by its system: the command thread sleeps and polls, the
endpoint library delivers its records (those of another probe do not keep it from it), the device selects. It is
stated for packets that are not empty; for an empty one it is false, and `xscope_hang` shows that legal commands make one.
Nothing is assumed about the master of I2C or SPI, nor that a user calls: those models, their hosts, and USB, have safety
properties only. (On USB the host returns because libusb limits the time, which a model of `Timeout` would
merely repeat.)

### 3.3 Where the code and its documents disagree

* `i2c_overrun`: after a write command of length zero further bytes are not discarded: they are
  stored and acknowledged, `payload_len_transmitted` never equals the length again, and in the end the
  index leaves the buffer. `TrapsOnlyWithoutPayload` says that this happens for length zero only.
* `i2c_host_success`: the Raspberry Pi sends the command code of a write as it is, and the documentation of
  the function names the range of the *read* codes for it. Such a write goes out as a header, for which no task is
  called; the status query cannot tell, because the device stores the result of *every byte* in
  `last_status`, those of the query's own header included; the user gets success.
* `spi_host_success`: on SPI a command to an unknown resource leaves `last_status` alone, so
  the query that follows answers with the result of an earlier command.
* `xscope_unknown`: for an unknown resource the device returns before it sets `ret` in the response,
  which then holds the pad byte of the host's own packet; the host takes zero for success.
* `xscope_hang`: the builder compares bytes with words, so a payload of 65 to 252 bytes, which the
  documentation allows, is uploaded as nothing, and the host waits for a response that cannot come.

Two things the code does not do as one would expect turned out harmless, and the properties say so. The status query
on I2C always answers success, but it is only made after every byte of the write was acknowledged
(`AckedWriteExecuted`). The USB and xCORE hosts return a status that a failed query leaves unset, but only for
writes that were executed (`SuccessMeansExecuted` of `USB`, `ImplementsControlService` of `I2CHost`).

## 4. What is proved

TLAPS checks these theorems for every resource table, number of interfaces, table size, buffer
capacity, byte width, set of inputs and bound. The assumptions are those named in the modules:
`ControlAssumption` (the version and the special resource are bytes), `ResourceTableAssumption` (no more
interfaces than an unsigned char counts, special resource inside the table), `I2CAssumption`, `SPIAssumption`,
`USBAssumption` and `XscopeAssumption` (sizes that fit a length byte, the table an array of interface numbers,
inputs that are bytes), `HostAssumption` of `I2CHost` (which hosts there are, and that the special
resource is the number 0 that `control_init_i2c` writes out) and of `SPIHost` (a padded header fits a message, and
the SPI slave asks for a byte at most four bytes early).

**`ResourceTableProofs`.** `Typing`: type correctness, and with it that no index of a loop leaves its
array. `Invariance`: an inductive invariant that says what the loops have achieved so far: every
entry of the table was listed by the task it names; as long as `ret` is success, every answer dealt with
so far is in the table, without duplicates; once it is failure, some answer cannot be registered
whatever comes later. From it follow `RoutesAreClaimed`, `VerdictIsExact` and
`SuccessRoutes`. None of these is inductive by itself: that the verdict is exact needs to know, at the end
of the loop, why each iteration succeeded. `Refinement`: the start-up implements `Registry`; each
`AddEntry` is a `Take`, each return from `resource_table_add` a `Pass`.

**`I2CDeviceProofs`.** `Typing`, then `Invariance` of `IInv`, whose parts are: `Place` (the state tells
how many bytes have been sent), `HeaderAsSent` and `DataAsSent` (which fields of the struct are those of this
command, and which may be left over from an earlier one), `BusState`, `Pending` (what a command
has not done yet in each state: no call before its last byte, no refusal that the task could later
contradict), `CallsFollow`, `ReplyReady` (the buffer holds the reply of the read call that succeeded, and
how much of it is read) together with the properties. The properties alone are not
inductive: that a call carries what was sent needs to know that the struct does, which the code only
promises state by state, since `WriteStart` clears nothing. The proof has one lemma per action; `QuietSend`
(a byte without a call), `Dispatch` (the byte that completes a write), `ReadCallRight` and `SameHistory`
carry what several actions share. The theorems are `CallsAreWhatWasSent`, `ReadBitDecides`, `OneCommandOneCall`,
`AckMeansExecuted`, `NackMeansNotExecuted`, `ReplyIsRead`, `StopTellsTruncation` and `NoTrapWithPayload`:
all properties of the run `i2c_device`.

**`SPIDeviceProofs`.** The invariant distinguishes the two kinds of transaction. In an ordinary one (`Position`,
`Gathered`) the state tells how many bytes of the command there have been, and the struct holds exactly those; in
the transaction of a reply (`Replying`) nothing is dispatched and the count says how much is out; in
between (`Fetched`) a reply is kept and nothing else, and `Fresh` says where the struct is as good as
new. `CallsSoFar` is what makes `OneCallPerCommand` inductive: a call in the middle of a transaction was a read, so no
write follows it. All properties of the run `spi_device` are theorems.

**`USBProofs`.** The device may be at a request the host gave up while the host is at the next one. `OpenTransfer`: at
most one request is *live*, and it is the one the host waits for. `Answered` and `Quiet`: nothing of an
answered transfer is left on the device, so the status query finds it at rest. `Executed`: an answer that says
success is the truth about the call of this very request, and `last_status` is still its result. Hence
`SuccessIsExecution`, `ReadsOwnReply` and `StatusIsOwn`.

**`XscopeProofs`.** `OneAtATime` follows one command: it is in the packet, the response, the callback or the count, never
in two of them, which is why the threads need no lock (`NoRace`). `AnswersAreTrue` says the same of its
content: whatever is on its way back is the result of the one call that was made (`OwnResult`). `AnswerNotLost`: the answer to a packet that was sent is always in one of
these places, and the callback knows it for what it is; this is the part of `HostReturns` that does not need fairness. `Refinement`: each step of
host, link and device is a step of `ControlService` or none.

**`I2CHostProofs`.** A step of the host is a step of the device under some master, so `IInv` of `I2CDeviceProofs`
holds of every state and half the work is done. What is added in `HInv`: `Transfer` with `Progress` (what has been sent and
what is still to be sent make up the message of the transfer), so the header the device holds is that of the request;
`LogOfRequest` and `CallsOfTransfer` (the log has the calls of this request, one at most when it is legal); and
`QueryAnswered` (the device acknowledges a status query byte for byte and answers success), without which a
failure reported after a write that was executed could not be excluded. The theorems are `HostTyping`,
`HostsKeepTheirWord`, `FailureMeansNotDone` and, by mapping each step to `ControlService`, `HostsServe`: all
properties of the run `i2c_host`.

**`SPIHostProofs`.** Again each step of the host is one of the device under some master, and `IInv` of `SPIDeviceProofs`
comes for nothing. But neither `ResultOfThisCommand` nor `InStep` follows from it: on SPI the host looks at nothing before the last
transaction is over, so what makes its result right lies up to three transactions back. `HInv` therefore follows the one call
of a legal request (`ResultUnderWay`): made in the transaction of the write, or by the request for a byte that fetches the reply
of a read; then held in `asked`, or in the status that `asked` will answer the query with; then `owed` and shifted out, which
is the `Promise`. Three parts carry this. `Exchange`: the bytes in the device and those still to be shifted in make up the
message, and in and out are at most `AHEAD` + 1 apart. `InTime`: while the device is in `READ_DATA_START` there is
still a byte to be asked for, so a header is always answered before its transaction ends; this is where the
five bytes of padding and the bound on `AHEAD` are needed. `OwnTransaction`: a request finds the device waiting for a header. The lemmas
`HeaderAwaits` (a complete header of a read leaves a reply behind), `SecondIsQuiet` (a transaction of zeros makes no
call and leaves none) and `WriteExecuted` are the three ends of transactions; `SecondIsQuiet` also holds of the header of a
code of the wrong kind, for which the device never was in `READ_DATA`, and so gives `InStep` for every request. The theorems are
`HostTyping`, `CommandsServed`, `StayInStep` and `HostServes`: all properties of the run `spi_host`.

**Only model-checked:** the two liveness properties, `RegistrationReturns` of `ResourceTable` and `HostReturns` of `Xscope`, which are
out of the prover's reach; of the latter `AnswerNotLost` proves that what the host waits for never gets lost, so that only the
scheduling of the threads is left to TLC. Every other property of a passing run is a theorem. For `AHEAD` beyond its bound nothing is claimed.

## 5. What is not modelled

* Opening and closing of the USB host, and the set-up of the SPI peripheral and the cleaning up of the others, which
  change no state that is modelled. `control_query_version` is the read of the special resource that each host's read
  includes.
* Payloads for which the SPI host overflows its own array (254 to 256 bytes), and reads of more than the
  device's buffer through the SPI host: the outcome is not defined. The device's side of the latter is in `SPIDevice`.
* `upload_len_exceeds_xscope_limit`, which cannot be true: the builder never returns more. On xSCOPE and USB, a write with
  no payload but a length (`payload == NULL`).
* That USB implements `ControlService`: it does not, since the device may execute a command the host has given up
  while the next one is already asked for. What is true instead are the three properties of `USB`.
* Whether the transfers of I2C and SPI end: that is up to bus drivers that are not part of the repository.
* Masters of USB other than this host, which could send fields wider than a byte.
* `valid_bits` other than 8 on SPI, and the results of the SPI callbacks, which the adapter drops.
* `debug_printf` and its build switches; the compile-time choice of the transport.
* Time: clock stretching while the application answers, and the delays of the hosts.
* The application's freedom to keep a reference to a payload after the call: xC forbids it.

## 6. Plan

Done: the devices, the hosts, the abstract service, and the proofs of all safety properties. Left, in this order:

1. **Start-up and service together**: a lookup while registration is under way cannot happen in one task; a model
   in which the transports take the table from `ResourceTable` instead of a constant would say so.
2. **Opening and closing** of the USB host, with the error paths that release the device.
