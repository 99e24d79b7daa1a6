# A specification of the flexsoc_cm3 host

`flexsoc_cm3` is a command that runs a Cortex-M3 system in an FPGA (or in a
simulation) from a host.  The host reaches the system's bus through a serial
link, and serves bus transactions that nobody in the FPGA answers with plugins.
These modules specify the host's concurrent core (the link, the threads, the
accesses, and the circular buffer between them), what plugins make of a bus
transaction, how the bridge to a remote target is brought up, and what the system
map leaves in the device and on the host.  Paths are relative to the
repository's `src/host` (`flexsoc/`, `cli/`, `target/`), line numbers are those of
this commit.

## 1. The system

### Parts, state, operations

| Part | State it keeps | Operations |
|---|---|---|
| `flexsoc/Cbuf` | `_buf`, `widx`, `ridx`, `full`, a mutex, two condition variables | `Write`, `Read` |
| `flexsoc/flexsoc.cpp`, threads | `kill_thread`, `slave_lock`, `slave_pkt`, `recv_cb`, `mbuf` | `flexsoc_open`, `flexsoc_close`, listen thread, slave thread, `flexsoc_register`, `flexsoc_unregister` |
| `flexsoc/flexsoc.cpp`, accesses | `api_lock`, `tbuf[2]`, the four sizes | `flexsoc_read`, `flexsoc_write` (all widths), `flexsoc_hispeed` |
| `flexsoc/flexsoc.cpp`, packets | `write_lock` | `flexsoc_send`, `payload2cmd`, `cmd2payload` |
| `flexsoc/TCPTransport`, `FTDITransport` | socket or FTDI handle, `rlock`, `wlock` | `Open`, `Close`, `Read`, `Write`, `Flush` |
| `target/Target` | nothing but the device's CSRs, `apsel`, `remote_timeout` | reset, slave enable, IRQ lines, aliases, bridge registers and accesses |
| `target/PluginTarget` | the thread to signal | accesses with byte masks, IRQ lines, `Exit` |
| `cli/flexsoc_cm3.cpp` | `shutdown_flag`, disposition of SIGINT | the command itself |
| `cli/plugini` | the plugin array, the list of loaded plugins | `plugin_init`, `plugin_handler`, `plugin_cleanup` |
| `cli/sysmap_parse` | the `PluginTarget` | `sysmap_parse`, `sysmap_cleanup` |
| `cli/remote` | nothing on the host | `remote_open`, `remote_close` |
| `cli/plugins` | Memory: its store; Redirect, UnitTest: nothing | `ReadW`, `WriteW` |
| gateware | CSRs, FIFOs, host master, host slave | performs accesses, forwards transactions |

### How they interact

```
   main thread --+                                            +-- CPU
                 +-- flexsoc_read/_write -- flexsoc_send -->  |
  slave thread --+   (api_lock)            (write_lock)       +-- host master
     |  ^              ^                                      |
     |  | slave_lock   | Cbuf (mbuf)                          |
     |  +--- listen thread <--------------------------------  +-- host slave
     +------ SlaveSend (flexsoc_send) --------------------->
```

An access sends commands and reads as many response bytes from `mbuf`.  The
listen thread puts responses into `mbuf` and a forwarded bus transaction into
`slave_pkt`, and unlocks `slave_lock`; the slave thread runs the plugin, which may
make accesses itself, and replies.  SIGINT (from the user, or from a plugin
through `PluginTarget::Exit`) ends the main thread's loop and starts the cleanup.

### What is hard about it

* **Two conversations on one link.**  Responses carry neither an address nor a
  caller: only `api_lock` and the order of packets attribute them.
* **A mutex used as a semaphore** (`slave_lock`) hands over an unprotected buffer.
  That this is enough rests on the device forwarding one transaction at a time.
* **Condition variables tested with `if`.**
* **A debug port behind a bridge**, reached by commands that time out silently,
  with an address register (`apsel`) that keeps what the last call left in it.
* **Three widths at four alignments** on the bus, masks in between.
* **Re-entrance through the bus.**  An access of the host may hit a region that a
  plugin on the host serves.
* **Shutdown** runs while the CPU, a plugin and the device may be in the middle of
  something; globals are cleared without a lock, the `PluginTarget` is deleted.
* **Registers that outlive the command.**  Aliases, remaps, `slave_en`, `cpu_reset` and the bridge's registers
  (`brg_en`, `brg_ahb_en`, ...) are reset with the device, not by the host: each start finds what the last
  one left, which may have been killed between two register writes.
* **Registers shared by lines and windows.**  32 interrupt lines, or four remote windows, are changed
  by reading and writing one register.
* **A device that disappears**, between two packets or within one.
* **Boundaries**: buffers filled to the last byte, at two speeds and three widths;
  indexes at the end of an array; packets in pieces; short writes.

Each of these, with the line where it bites, is an entry of `hazards` in
`PROJECT.json`, with the properties that watch it or the reason why none does.

### What makes each part correct

* Cbuf: every byte is read once, in order, with its value; nobody sleeps while
  what he waits for is there.
* Threads: a forwarded transaction is served once and the bus gets its reply; a
  response reaches its caller; every access returns; SIGINT ends the command in
  order.
* Accesses: element k of the block gets the k-th response; the buffers suffice;
  an error is not lost; the transfer ends.
* Packets: both ends agree where packets start; what is copied into `slave_pkt` fits.
* Plugins: a transaction reaches the first plugin whose region contains it, changes
  and returns the bytes it addresses and no others, and is replied to with its length.
* Remote: success means a port that is up, and only then is the bus bridge switched on; the AP chosen
  is the one driven; `remote_open` returns and `remote_close` leaves the bridge off.
* System map and loader: once the map is read, the bus is redirected and the bridge maps
  what its lines say and nothing else; transactions are forwarded only to a command that
  has its callback, its `PluginTarget` and the plugins of the map in order.
* IRQ lines: a level that was set stays until it is cleared.

## 2. Modules

| Module | Models |
|---|---|
| `ByteFifo` | what `Cbuf` promises: a bounded queue of numbered bytes |
| `Cbuf` | `Cbuf.cpp`, line by line in its control |
| `CbufProofs` | proofs about `Cbuf`, for every size |
| `Flexsoc` | main, listen and slave thread from `plugin_init` to the end, with the device |
| `FlexsocProofs` | proofs about `Flexsoc`, for every setup and number of transactions |
| `BlockTransfer` | `flexsoc_read`, `flexsoc_write`: two buffers, pipelined |
| `BlockTransferProofs` | proofs about `BlockTransfer`, for every buffer size and length |
| `TransferOrderProofs` | which response belongs to which element, on top of `BlockTransferProofs` |
| `Framing` | `flexsoc_send`, the reassembly in `flexsoc_listen`, both transports |
| `FramingProofs` | proofs about `Framing`, for every buffer and any pieces |
| `Remote` | `remote_open`, `remote_close`, the bridge accesses of `Target`, with the bridge and a debug port |
| `RemoteProofs` | proofs about `Remote`, for every target and number of polls |
| `ByteMem` | what plugins promise the CPU: memory made of bytes |
| `Sysmap` | `sysmap_parse`, the plugin loader, `plugin_init`, `plugin_cleanup`, over several starts of the command |
| `SysmapProofs` | proofs about `Sysmap`, for every map, library and number of starts |
| `Irq` | the interrupt lines and the methods that change them |
| `PluginBus` | `plugin_handler`, `Memory`, `Redirect`, `PluginTarget`'s masks |
| `PluginBusProofs` | proofs about `PluginBus`, for every array of plugins |
| `MC...` | constants for TLC, nothing else |

The modules meet at queues.  `Flexsoc` uses `mbuf` as a queue of responses, which
is what `Cbuf` is shown to be; it uses a link of whole packets, which is what
`Framing` shows the link to be when writes are not cut short; and its accesses are
one command and one response, where `BlockTransfer` shows what pipelining adds.
Its slave thread runs a plugin as one of three kinds; `PluginBus` shows what the plugin
does with the transaction.  `Remote` runs before the CPU and before any plugin, so main is alone
on the link and a register access of the bridge is one step.  `Sysmap` runs between the two: `plugin_init`
reads the map, again with main alone on the link; its end is the first step of `Flexsoc`'s `Program`.

### Cbuf

The fields have the names of the class.  A method is one action if it does not
wait.  If it waits, it is two: `WriteWait` or `ReadWait`, and, after a signal,
`WriteResume` or `ReadResume`, which do NOT look at the condition again because the
code does not.  `writer` and `reader` are the places of the two threads; a signal
moves a `waiting` one to `woken`.  Between the signal and the resumption the other
thread may run.  Bytes are represented by their positions in the stream, so that a
byte in the wrong place is seen.  `StartPacket` and `StartRecv` are the callers:
`flexsoc_listen` and `flexsoc_recv`, whose loops call again for what is left.

### Flexsoc

`Program` lists what main does; `mpc` is its place in it.  Steps that access the
device are four actions: entering, `ApiLock`, `ApiSend`, `ApiRecv`.  The listen
thread separates the copy to `slave_pkt` from the unlock of `slave_lock`; the slave
thread separates the wake-up, the test of `kill_thread`, the test of `recv_cb`, the
call (which reads `recv_cb` again), the plugin, its access, the reply.  `setup`
chooses what the plugin does, where the binary is loaded, and whether the device may be unplugged:

* `plain` answers by itself (Memory), `nested` makes an access first (Redirect),
  `exit` calls `PluginTarget::Exit` when written to (UnitTest);
* `ram` is memory of the SoC, `plugin` a region that the plugin serves.

The user's ^C may come at any moment from `plugin_init` on, before the handler of SIGINT is installed
(`flexsoc_cm3.cpp:189`) too, as the first SIGINT and once; later ones are plugins'.  `slave_en` and `cpu_run` start as a command that ran to
its end leaves them.

A call through a cleared `recv_cb`, and the use of a deleted `PluginTarget`, end in
`process = "crashed"`; a SIGINT with the default disposition in `"killed"`; a call of `err` in `"exited"`.

`DeviceLost` empties both directions of the link.  From then on `Send` is `err`, because `Write` of the FTDI
transport reports the loss, and the listen thread, whose `Read` reports it too, unlocks `slave_lock` and ends
with `kill_thread` still false.  The slave thread takes that for a transaction and runs the plugin on
the old `slave_pkt`; `InvalidLen` is the case that there never was one.  `SendOrStop` is the slip.

### BlockTransfer

`loc[t]` holds the locals of the function, with their names (`i`, `idx`, `bi`,
`process`, `rcnt`); `done` counts elements whose response was processed and stands
for `read` or `written`.  The loop body is `Fill`, or `Flush`, `ReceiveOlder` and `Put` when
the buffer is full.  `tbuf` is shared by all callers, as in the code.  `Hispeed` happens
between main's transfers, without `api_lock`, as in the code.

### Framing

`SendWrite` is one round of `flexsoc_send`'s loop and passes the whole buffer each
time, as the code does.  On the other direction `ReadHeader` and `ReadRest` are the two
reads of `flexsoc_listen`, `ReadRest` with as many bytes as the transport has; `ReadHeader` alone looks for the loss of the device.  `SendWriteLost` ends
the process: FTDI's `Write` reports the loss and `err` follows, a socket's raises SIGPIPE.  A socket's `Read` never reports it.  The two
directions share nothing but the device; the instance explores each by itself.

### Remote

`pc` is the place in `remote_open`, named after what it does; `div`, `n`, `i` are its locals,
`memap` its `apsel` and `apsel` the one of `Target`.  `todo` holds the register accesses that a call
of `RemoteRegRead`, `RemoteRegWrite`, `RemoteAPRead` or `RemoteAPWrite` makes; each is `Start` (the write to
`brg_ctrl`), `Poll` and `Finish`.  `Perform` is the bridge, at any time or never, so every access may run
out of polls, and may still be performed afterwards or be replaced by the next.  The port keeps
`SELECT`, so an access after a lost selection goes to another register or AP than meant.  `target` is what is
connected: the smallest divisor at which the wire works, the list of APs, whether CSW has one size,
whether the CPU stops, and what `remote_open` finds, left by a command that was killed: the bridge's registers (`brg`)
and the power of the debug part.  `BridgePort` is what the gateware connects to the bridge: three of those four registers,
not `brg_csw_fixed`.

### PluginBus

A word is a function from its four lanes to bytes; a mask is a set of lanes; a shift by `8 * n` moves
lanes.  `Unmatched`, `HandleWrite` and `HandleRead` are the three ways through `plugin_handler`.  The
contents of the stores at the start are a constant (`Contents`): `Memory` does not clear what `malloc` returned.
`ByteMem` knows nothing of words, plugins or masks; `ByteAt` says which lane of which
plugin an address is.  The host master of the gateware is taken to ignore the two low address bits of a word
read, which a byte or half-word read through `Redirect` needs.

### Sysmap

A line of the map is the record of its tokens' values; `ReadAlias`, `ReadRemap32`, `ReadRemap256` and
`ReadPlugin` are the four keywords, `ReadFails` every `err` on the way.  An alias is four steps: choosing the
register (`Slot`, with the read of code alias 0) and writing base, end and offset one after the other.  A remap
is one step: its one write is the only change.  An address is its upper byte, so that `Space` is 256 and
sums wrap as in 32 bits.  `Load` is `plugin_load`, `Library` what `plugin_open` and `dlsym` find.
`Start`, `End`, `Killed` and `PowerCycle` are the lives of the command and of the device; `before` remembers the
CSRs at the start.  `Bus` is the redirection in `flexsoc_cm3.sv`.

### Irq

`level` and `edge` are sets of bits per register.  `IRQClr` is two steps because it makes two accesses, the others one.
`raised` remembers which lines were set and not cleared.

### Slips

Some definitions are marked *slip* and used by nobody.  Each is the definition
that follows it with a mistake that would be easy to make: a reset forgotten, `>`
for `>=`, a lock not waited for.  `mutants` in `PROJECT.json` pairs each property with a
slip that breaks it, which shows that the property can fail.

## 3. Runs

Bounds are chosen so that indexes wrap, buffers fill and switch, and every thread
can be overtaken at every step.

| Run | Shows | Bounds, and why they are enough |
|---|---|---|
| `cbuf` | bounded, no lost wake-up, implements `ByteFifo`, reads and stores finish | 4 bytes, packets and reads up to 3, a stream of 10: the indexes go round twice, the buffer gets full and empty at every index |
| `flexsoc` | transactions conserved, the plugin runs on the pending one, responses reach their caller, the first SIGINT kills only during the start and with the CPU in reset, a crash only at the end of the cleanup; the bus is answered, accesses return, the command ends, the threads are joined, a lost device ends the process | all five combinations of plugin and load address that work, each on a device that stays and on one that may be lost at any step; 4 transactions: two for a load and its verification, two of the CPU, so that one can overlap the cleanup |
| `flexsoc_load` | **violated**: main's access returns, when the region loaded belongs to a plugin that makes accesses | 2 transactions |
| `block_transfer` | responses in order, auto-increment, buffer bounds, outstanding bound, errors, termination | buffers of 6 and 5 commands; lengths that leave a buffer exactly full, that switch once, that switch back and process; one nested caller; one bus error; two transfers per caller |
| `framing` | packet boundaries, order and completeness in both directions; `slave_pkt` is not overrun; the listen thread ends when the device is lost between packets | two buffers of each sender, three packets of the device, in any pieces, either transport, loss of the device at any byte |
| `framing_short` | **violated**: packet boundaries, with short writes | one buffer each |
| `remote` | success is reported, and the bus bridge switched on, only with a port that answered and is powered; after an error, and in the end, the bridge is off, but for registers found on (below); only the AP chosen is written, the bus bridge uses it, and a CPU that can be is halted; `remote_open` returns | divisors 0 to 2, three polls or less in every loop, four AP indexes; no AP, one, several, MEM-APs at the first and the last place of a list, a list that is full; wires that work from each divisor on, or never; one-size CSW; bridge registers and debug power as a killed command leaves them, or off; an access may be given up at any point |
| `remote_checked` | **violated**: success means that a MEM-AP was found (that the CPU was halted is checked no better, `remote.cpp:165`, but is not what the trace shows) | a port with one AP of another class |
| `plugin_bus` | every access has the effect and the answer it has on bytes of memory | 16 addresses with gaps before and behind, a `Redirect` that hides half of a `Memory`, all widths and aligned addresses, all data over two byte values |
| `sysmap` | the CPU's accesses and the remote windows go where the map says, the interface is enabled only while it is served | maps of three lines, then of two on the same device; six aliases that overlap, fill both code registers, start at 0 or end at the top; eight remaps, in one word or two, decimal and hexadecimal, allowed or refused; plugins of every kind in `Library`; killed at any step; power-cycled between the starts or not |
| `sysmap_force` | **violated**: the map's aliases are in force, on a device that was used before | one line, two starts |
| `irq_level` | **violated**: a line stays set until it is cleared.  The trace is `IRQSet` writing the whole register; the race of `IRQClr`'s two accesses is in the model too, behind it | two threads, two registers of two lines |

The violated ones are disagreements between the code and what it or its
documentation says; `findings` quotes the lines.  A map's lines are of one kind in each execution of `sysmap`, with one
alias among the plugins: the kinds change different registers, and only plugins change the host's state.

`CHECK_DEADLOCK FALSE` is in every configuration: the command ends, streams and
transfers are bounded, and a process that has ended does not move.

### Fairness

Only weak fairness, of threads and of the link: a thread that can take a step
takes one eventually, a byte that was sent arrives.  pthread mutexes are not
assumed to be fair: which of two waiting threads gets a lock is open, and progress
does not need it because every caller makes finitely many accesses.  Nothing makes the
CPU access a plugin, the user press ^C, or a caller start a transfer or a packet.
A read or write that transfers nothing is a stuttering step: the fairness of the link says
that a loop which polls succeeds at some time.

Nothing makes a device disappear, and nothing has a time limit.

Several properties of `Flexsoc`, `Framing` and `Remote` say exactly when the code is right, because it is not always:

* `JoinReturns`: `flexsoc_close` returns, unless `kill_thread` is set while a plugin is about to make a master
  access: the listen thread ends at its next `Read`, and the response is never received.
  `ShutdownCompletes` leaves out plugins that make accesses for the same reason.
* `CrashOnlyInCleanup`: a call through the cleared `recv_cb`, or a plugin with a deleted `PluginTarget`, is possible,
  but only for a transaction under way when main has put the CPU into reset and unregistered the callback.
* `LossEnds`: a lost device ends the process while main needs the device.  After main's last access the slave thread uses up the
  unlock before `kill_thread` is set, and `pthread_join` never returns; a plugin that makes accesses may wait
  for `api_lock`, which main holds, instead of sending.
* `ListenEndsWhenClosed`: after a loss within a packet the listen thread adds `DEVICE_NOTAVAIL` to `pread` round after round,
  until the sum overflows (`ReadRestLost`, which keeps the first); TCP never reports a loss.
* `FirstInterruptGraceful`: a single SIGINT kills the command if it comes before its handler is installed: ^C during the start, or
  a plugin's `Exit` when main's own load reaches it.  The property says that the CPU is in reset then, and that later on the first
  SIGINT never kills.
* `BridgeOnlyWhenUp`: `brg_ahb_en` found on stays on through all attempts to connect, which clear `brg_en` only (`remote.cpp:102`);
  and when the divisor asked for is too large, or every divisor failed, `remote_open` returns without clearing either (71-73).
  `remote_close`, which follows in any case, clears both.
* `Configured` says of `brg_csw_fixed` what the register holds, and no more: "Set value for state machine" says `remote.cpp:183`,
  but the bridge does not get the value, because its port is commented out in `flexsoc_cm3.sv:206` and the register is only read back (178).
  What `remote_open` found out about the sizes of the AP changes nothing.  No run shows this disagreement: it is in the wiring, which has no steps.
* `flexsoc` leaves out plugins that make accesses together with binaries loaded into their region, which hang before
  the command runs (`flexsoc_load`).

`AliasesOfMap` speaks of maps that fit the registers, and of code aliases on a device whose code aliases were unused:
`sysmap_force` shows what happens otherwise.  `EnabledIsServed` leaves out starts that find `slave_en` set by a
command that was killed: nothing in the code clears it before the plugins are ready.
`Remote` assumes only that main goes on: the bridge may never answer, and `OpenReturns` holds nevertheless.
`DrivesChosenAP` and `Configured` are about runs in which no access was given up (`expired`): after a time-out the host
works with a value that nobody read, which the code does not notice.  Both leave out ports without a MEM-AP
(`remote_checked`) and ports whose list of APs reaches the last index but one (254 in the code, 2 in the instance):
the scan then goes on to the last index, 255, which `RemoteAPRead` takes for "no AP given", reads the AP before it once more, and
a MEM-AP there is chosen as number 255 (`Target.cpp:315`, `remote.cpp:123-141`).  The exception was found by the proof of `Configured`:
it used to leave out only ports that have an AP at the last index itself.

main's loop `while (!shutdown_flag)` is modelled as reading the flag each time, as the default
build (without optimisation) does.

## 4. Proofs

Assumptions on the constants are stated where they are declared; the program's
values satisfy them.

**Cbuf** (`CbufProofs`): for every `Size` that divides 2^32 (16K does; the unsigned
subtraction in `SpaceAvail` needs it), every packet length and every read shorter than
`Size`, on a platform where only a signal ends a wait (POSIX allows other wake-ups, and
with one the code reads an empty buffer or overwrites a full one):

* `TypeCorrect`: `[]TypeOK`; both copies stay inside the array.
* `Bounded`: `[]OccupancyBounded`.
* `NobodyLeftAsleep`: `[]NoLostWakeup`.
* `Refinement`: `Spec => Fifo!FifoSpec`.

`OccupancyBounded` is not inductive: it says nothing of where the bytes are, and not why
a resumed thread finds what it waited for.  The invariant `IInv` adds three things.  `Counted`: the
bytes between the indexes are as many as were put and not taken.  `Stored`: the k-th of
them lies at `Slot(k)` and is byte `ntaken + k`.  `Reasons`: a thread waits only when it must, and a
woken one finds the buffer not empty (not full).  `Reasons` is where the missing second test is
justified: there is one reader and one writer, so nobody can take away what a signal
announced.  `WriteStep` and `ReadStep` show that the two critical sections keep
`IInv` and are steps of the queue; `NextStep` goes through the actions.

`BlockTransferProofs` proves `BuffersSuffice`, `Spec => []TypeOK`: the commands gathered fit
into `tbuf`, the responses expected for one buffer fit into `rbuf`, and the indexes stay in
range, for every transfer length and width, and for both speeds, whatever their sizes
(`Low >= 5`, `High >= Low`, the only assumption on them; the code has 9 and 180).  A plugin's transfers are
one element, as in `master_read` and `master_write`.  `TypeOK` is not inductive: the code tests whether a
buffer is full with `==` on reads, and adds to `rcnt` without looking at a limit.  The
invariant `IInv` is `Types`, and `Sized` for each caller:

* `Fits`: the bytes expected for the current buffer are bounded by its index, so a bound on
  the index bounds the responses; it is suspended only between choosing the other buffer
  and receiving what that one still expects (`pc = "older"`);
* all bytes expected are at most `ResponseSize` for each element not processed;
* the read index is at most the speed's limit in every state that fills: past the first command
  it moves by one, and `main`'s speed does not change under a transfer, so the
  equality test cannot be jumped over;
* until the first two buffers were used, nothing is expected for the second.

`PutSized`, `FlushSized` and `ReceiveSized` are the arithmetic of the three steps that change
a caller's locals; `CallerStep` and `NextStep` go through the actions.

**PluginBus** (`PluginBusProofs`): for every array of plugins that `PluginAssumption` allows (aligned regions whose size is
a power of two, below the top of the address space, at most one `Redirect` so that no two share the target's
memory) and every initial contents,

* `TypeCorrect`: `[]TypeOK`; no read reaches beyond a word and no write beyond a store;
* `Refinement`: `Spec => ImplementsByteMem`.

`TypeOK` is inductive, and strong enough for the refinement, whose weight is in lemmas about addresses: `MatchingOwner`
(the search finds the first region that has the address), `RequestFacts` (an aligned access stays in its word, and its
mask is one that `PluginTarget::WriteW` decodes), `SpanPlace` (a byte is accessed exactly if it is in the same word and its
lane in the mask), `ReadBytes`, `MemoryWrites` and `RedirectWrites` (what a read returns and a write changes, byte for byte).

**Order of the accesses** (`TransferOrderProofs`), for every buffer size, length, width and speed, on top of `BuffersSuffice`:

* `InOrder`: `[]ResponsesInOrder`; `Increments`: `[]AutoIncrement`; `Bounded`: `[]OutstandingBounded`;
  `NoneSilent`: `[]NoSilentError`.

None of the four is inductive: the response that is read now was asked for two buffers ago.  `Pipeline` follows an element
from `Put` to `Receive`: the elements from `done` to `i - 1` of the transfer that holds `api_lock` are, in this order, those of
the responses in `mbuf`, of the commands on the link and of the commands gathered, and the device stands just behind the last one
it performed.  `Expected` says that the bytes in `rcnt` are whole responses to exactly the elements that are not processed, so a `Receive` of
`rcnt[b]` bytes takes what is there, and at the unlock nothing is left for the next caller; that is where a nested transfer of
a plugin could take the response of another.  A bus error stays among the responses (`Unseen`) until `Status` ends the program.

**Flexsoc** (`FlexsocProofs`), for every set of setups and every number of transactions, with the device lost at any step or not:

* `TypeCorrect`: `[]TypeOK`; `Conservation`: `[]RequestConserved`; `Serves`: `[]HandlerServesPending`; `ToOwner`: `[]ResponseToOwner`;
  `Graceful`: `[]FirstInterruptGraceful` (whoever raises the SIGINT, and whenever); `CrashAtEnd`: `[]CrashOnlyInCleanup`.

The invariant `IInv` counts.  `Conserved`: a transaction that the bus waits for is in one of the places link to the host, listen thread,
`slave_lock`, slave thread, link to the device, and after the callback is unregistered in one or none.  `Outstanding`: the response of the one
caller in `flexsoc_recv` is in one of the places link, bus, link, `mbuf`.  Since there is at most one of each, what a
thread finds in a shared buffer is what it waits for (`Carried`, `Owned`).  The properties say
when they hold, and that has to be justified from the device's state: `Progress` says how far main has come for it (nothing is forwarded before
`SlaveEn`, the CPU runs only between two steps of `Program`), and `Interrupts` counts the SIGINTs there can have been (one for
each transaction handled, one of the user, and one more when a lost device makes the slave thread run the plugin on an old transaction).

**Remote** (`RemoteProofs`), for every target, list of APs, number of divisors and number of polls, with any access given up:

* `TypeCorrect`: `[]TypeOK`; `BridgeUp`: `[]BridgeOnlyWhenUp`, whatever is found in the bridge's registers; `OnlyChosenWritten`: `[]DrivesChosenAP`; `ConfiguredRight`: `[]Configured`.

`BridgeOnlyWhenUp` is proved without the assumption that accesses succeed: `Asked` says that a power-up acknowledgement is never read unless
the port gave it, even when the command performed is one that the host has given up.  The other two need `Choosing`, under the
same conditions as the properties.  The host does not see when the bridge performs a command, so the invariant speaks of `Left`, the accesses that
are not performed, and `Result`, what the present call will return, which the host's own steps do not change.  `Progress`: `Left` is the rest of the
accesses of the place in `remote_open` (`Script`), and those performed had their `Effect`, on `SELECT` above all.  `Found`: the APs before
`i` are present and `memap` is the last MEM-AP of them, which is the one that `Target`'s `apsel` holds while it is driven.

**Framing** (`FramingProofs`), for all buffers of packets, all payload lengths with a code, any pieces and either transport:

* `TypeCorrect`: `[]TypeOK`; the reads stay inside `pkt[17]`, unless the device is lost within a packet.
* `InStep`: `~ShortWrites => (Spec => []FramesIntact)`.  Without the hypothesis it is false (`framing_short`).
* `InOrder`: `[]DeliveredInOrder`; with `SlavePacketAssumption`, which is the device's part (no transaction of the bus is longer than an
  address and a word), what is copied to `slave_pkt` is a whole packet of at most nine bytes: nothing on the host looks.

`FramesIntact` says something about the next byte, and the invariant something about all that are on their way: `Leads(R, q, r, s)` says that
the bytes of `q` take a receiver `R`, which accepts only the byte that it should get, from state `r` to state `s`.  `Framed`: the bytes
on the link lead the device to the end of a packet, with every packet of every finished buffer received; a buffer under way is
written whole or not at all, and then it `Carries` exactly the sender's next packets.  `Listening` says the same for `flexsoc_listen` and what
the device has sent, and `Holding` that the part of `pkt` not yet dispatched is what follows in the stream.  That a buffer is whole packets is induction
over the sequence of lengths, and the buffer is a fold: as the induction theorems cannot be used, `Flattens` takes the fold's
recursive function out of its definition and `BufferCarries` looks at the least number of packets for which the claim would fail.

**Sysmap** (`SysmapProofs`), for every set of lines, every library, any number of starts with maps of any length, power cycles
between them and a command that is killed at any step:

* `TypeCorrect`: `[]TypeOK`; `RemapsHold`: `[]RemapsOfMap`; `EnabledServed`: `[]EnabledIsServed`; `AliasesHold`: `[]AliasesOfMap`.

The properties compare the registers and lists with the lines read so far, so the invariants grow line by line (`MapGrows`: the
new line is the last, the others stay).  `RemapInv`: a window holds the remap of the last line accepted for it; a line changes one
byte of one register (`WindowRead`), and the newest line is the last (`MaxNew`).  `ArrayInv` and `ListInv` say the same of the
peripherals and of the loaded plugins, and `ControlInv` that the interface is enabled after everything else is in place and
disabled before anything is taken away.  `AliasesOfMap` speaks only of a map that has been read; the invariant must also say what an alias
register holds between its three writes (`WrittenAt`: the fields written are the line's, the others are what was there before) and which
register that is: `NoCode`, `OneCode`, `TwoCodes` are the only forms a map that `Fits` can have, and a map that fits has fitted after
each of its lines (`FitsBack`), which is where "the first alias is not at base 0" is needed: `Slot` takes a register with base 0 for unused.

**Model-checked only**: all liveness (`RecvCompletes`, `PacketStored`, `CpuRequestAnswered`,
`AccessCompletes`, `ShutdownCompletes`, `TransferCompletes`, `PacketsArrive`, `PacketsDispatched`,
`OpenReturns`, `JoinReturns`, `LossEnds`, `ListenEndsWhenClosed`), which the provers cannot treat.  Every invariant and both refinements
that the passing runs check are proved.

## 5. Not modelled

* Byte order, alignment and the values of data: an element is its number.
* The inside of the gateware's FIFO and bus IP, which the repository only
  instantiates.  The device is an environment that performs commands in order and
  forwards one transaction at a time.
* In `Flexsoc`: `--gdb`; a map without plugins; loss of a TCP peer, which the host cannot tell from
  silence (`Framing` has it).  Main's transfers are single accesses, so a block write into a plugin's region whose later
  commands delay the plugin's reply on the link is not seen.
* In `Flexsoc`: starts with `slave_en` or the CPU left on by a command that was killed (`Sysmap` has them).
* In `Framing`: what follows the overflow of `pread` after a loss within a packet, two million rounds later (undefined behaviour).
* In `BlockTransfer`: `dev->ReadSize` and `dev->WriteSize` at the start of a transfer, which set sizes of the transport's own transfers.
* In `Remote`: a bridge that reports an earlier command done while the host polls for the next, and a command that a killed process left under way;
  `Start` is the writes of `brg_data` and `brg_ctrl` in one step.
* In `Cbuf`: destruction, failure of malloc, wake-ups without a signal.
* In `PluginBus`: regions whose size is not a power of two (their accesses beyond the store), a
  `Memory` without store, packets of the wrong length (the process ends).
* `RemoteReadW`, `RemoteWriteW`, `RemoteTimeout`, `remote_dump`: nothing calls them.
* In `Sysmap`: text that is no number (`stoi` throws), a window that is checked as one number and used as another beyond
  `brg_remap32` (0x9: what the generated CSR class does with it is not in the repository), the arguments of plugins,
  running out of memory.  The list functions that nothing calls.
* In `Irq`: that lines without a plugin may be driven by gateware.
* Opening, closing and flushing the transports; what dlopen does; argument syntax; plugin arguments (strings and
  files, no state that is kept); logging.

## 6. Plan

The modules, in the order in which they were written: `Cbuf` with `ByteFifo`, `Flexsoc`, `BlockTransfer`, `Framing`,
`Remote`, `PluginBus` with `ByteMem`, `Sysmap`, `Irq`.  All safety properties of the passing runs are proved; `Irq`
shows a property of the documentation that does not hold.  What could follow: the block write of main into a plugin's region
(the hazard at `flexsoc_cm3.sv:298`), which needs `BlockTransfer` and `Flexsoc` in one module, and regions of `Memory` whose size is no power of two.
