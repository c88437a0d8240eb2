# A verification project for the fc-bootloader

The flight computer bootloader is a small bare-metal C program for two Cortex-M7
parts, the Microchip V71 and the radiation hardened RH71. It serves seven remote
calls over a USART: a host client (`tools/blcli.py`) erases an application
partition, sends an image chunk by chunk, has it committed page by page, selects
it and starts it. These modules model the program from the flash controller's
command register up to the client's retry loop, TLC checks them on small
instances, and TLAPS proves the properties that matter most for every value of
the constants.

Paths below are relative to the repository: `src/common/sll.c` is the C file.

## 1. Inventory

| Part | State it keeps | Operations | Makes it correct |
|---|---|---|---|
| Partition table `src/drivers/flash.c` | constant table | `flash_get_partition` | bootloader partition only in the RAM build; partitions disjoint, multiples of an erase block (the configuration's business: nothing checks it) |
| Flash drivers `src/drivers/v71_flash.c`, `rh71_flash.c` | locals only; the controller's latch, `EEFC_FCR`, `EEFC_FSR` | `flash_erase_partition`, `flash_write_page`, `wait_fsr_frdy` | one command at a time; the right pages change; an error is reported; the bootloader never changes |
| Bootloader service `src/common/services/bootloader.c` | `page_buffer` | `bl_ping`, `bl_writePageBuffer`, `bl_erasePageBuffer`, `bl_eraseApp`, `bl_writePage`, `bl_setBootAction`, `bl_boot` | a page is programmed only with the CRC the client gave |
| Boot state `src/common/system.c` | `boot_entry_g`, `boot_enable_g` | `sys_set_boot_action`, `sys_set_boot_enable`, `sys_boot_poll`, `BootJumpASM` | only the partition last acknowledged is started, after its reply |
| Reset, startup, main loop `src/arch/arm/vector.c`, `src/main.c` | `.bss`, `.data`, in RAM that survives a reset | `reset_handler`, the `*_init` calls, then poll, poll, ... | every reset leads to the loop, with no stale state and nothing used before it is set up; every request is answered |
| Watchdog `src/drivers/v71_watchdog.c`, `rh71_watchdog.c` | a counter that runs from reset | `watchdog_disable` | it never cuts a flash command short |
| Console `src/common/console.c`, `printf.c` | none | `_putchar` | the message before the jump gives the reply its time |
| Link layer `src/common/sll.c` | decoder state, index, CRC, one 133-byte buffer | `sll_decode`, `sll_encode` | exactly the well-formed frames are reported; no write outside the payload |
| CRC `src/common/crc.c` | two constant tables | `crc_16ibm_update`, `crc_32` | a register clocked with its own bytes is zero; pages that differ in a byte differ in CRC; both ends compute the same |
| Moon codec, server, shims `src/common/moon/` | `message_g`, in place in the link layer's buffer | `moon_server_poll`, dispatch, seven shims | a complete request calls its method with its own bytes; the reply names its request |
| USART `src/drivers/x71_usart.c` | hardware registers | `usart_read` (non-blocking), `usart_write` (blocking) | one byte of receive buffer: overruns are lost silently; `usart_write` returns two characters before the line is idle |
| Client library `tools/erpc`, `tools/bootloader` | sequence number, decoder | `perform_request` | a stale reply is not taken for the answer |
| Command line client `tools/blcli.py` | position in the image, error count | `main`, `send_page` | the image it reports as written is in the flash |

**Interaction.** There is one thread on the device and no interrupt handler is
used: `main` calls `moon_server_poll` and `sys_boot_poll` for ever. A poll takes
one byte from the USART through the link layer; the byte that completes a frame
makes it decode the header, call the service, write the reply over the request
in the same buffer, and transmit it, all before it returns. A service call that
touches the flash spins on `EEFC_FSR`. So the concurrency is between the
processor and the flash controller, between the processor and the shift
registers of two transmitters, between the device and the client, and
between both and a line that loses, spoils and delays bytes, with a reset
possible at any point.

**Hard behaviours.** A command issued while another is in progress; a command
that fails half way through a loop; a reset in the middle of an erase; address
arithmetic in 16-bit, masked and shifted forms that differ between the two
series; one buffer that is request, reply and frame; header fields left over
from the previous request; the application taking over the USART while the last
reply is still leaving it; a reply later than the client's timeout; a chunk sent
twice; a commit whose reply is lost. Each is listed under "hazards" in
`PROJECT.json` at its line, with the properties that would catch it going wrong.

## 2. Modules

| Module | Models | State ↔ code |
|---|---|---|
| `Flash` | both flash drivers, the partition table, and the controller (external) | `pc`, `page`, `partition`, `ret` are the driver's locals and where it is; `flash`, `latch`, `fcr`, `fsr` the controller. Actions: `EraseCall`, `WriteCall` (entry up to the first poll), `EraseIssue`, `WriteIssue` (a command word), `EraseCheck`, `WriteCheck` (the status after it), `Returned`; controller: `Complete`, `CommandError`, `LockError`, `FlashError`; `FlashReset`. |
| `AlignedFlash` EXTENDS `Flash` | `Flash` with partitions of whole erase blocks | an assumption only: nothing in the code checks it (section 7) |
| `Bootloader` EXTENDS `AlignedFlash` | the service, the boot state, the main loop; a reset and all of startup as one step | one action per method (`bl_*`), `FlashReturned`, `Reply`, `sys_boot_poll`, `NoFrame`, `Reset`; `page_buffer`, `boot_entry`, `boot_enable`, `vtor`; `loop` is where `main` is |
| `Main` EXTENDS `Bootloader` | the program from reset to jump: `reset_handler`, the initialisations, the loop over both USARTs' transmitters, the watchdog | `copy_data`, `zero_bss`, `watchdog_disable`, `usart_init`, `flash_init`, `Banner`, `moon_server_init`; `ServerPoll`, `ServerReply`, `BootMessage`, `putchar`, `BootPoll`; board: `Shift`, `FlashController`, `BoardReset`. `stage` is where startup is, `usart` what is set up of each, `tx` and `due` the characters in the transmitters, `printing` what is left of the message |
| `BootControl` | abstract: what the boot methods promise | `selected`, `armed`, `owed`, `running` |
| `Store` | abstract: what `bl_eraseApp` and `bl_writePage` promise | `stored`, `buffer`, `job`, `was`, `answer`: one job at a time changes its own pages only, and is answered with success only when it is done |
| `Crc` | `crc.c` and the CRCs of `moon_transport.py`, at full width | registers are sets of bits; no state |
| `Sll` | the link layer's decoder and encoder around one buffer | one action per decoder state, `sll_encode`; `frame_buffer`, `length`, `state`, `idx`, `crc` |
| `Link` EXTENDS `Sll` | both ends of the line byte by byte: the USART driver under `Sll`, and the frame encoder and decoder of `moon_transport.py` | client: `HostSend`, `HostRead` (one action per decoder state: `HostSync1` ... `HostCrc2`), `HostTimeout`; device: `DeviceRead`, `DeviceReply`, `DeviceWrite`; line: `Deliver` (with overrun), `NoiseAtDevice`, `NoiseAtHost`, `Quiet`. `rhr` is the receive holding register, `unsent` what `usart_write` still holds, `hstate`, `hlen`, `hdata`, `hcrc` the client's decoder |
| `MoonServer` | codec, server, service table, generated shims, reading and writing the one buffer | `moon_server_poll(f)` is the whole handling of frame `f`; `buffer`, `header`, `len` |
| `Rpc` EXTENDS `MoonServer` | the generated client and its codec against the server: a call from its arguments to its result | `perform_request` (pack, handle, check the reply), `OtherFrame`; `sequence` |
| `Session` EXTENDS `Bootloader` | `blcli.py` and the client library against the service, over a faulty line | `Send`, `Receive`, `Timeout`; `TakeRequest`, `ServerReply`, `ServerStep`; `LoseRequest`, `LoseReply`, `DeviceReset` |
| `FlashProofs`, `BootloaderProofs`, `MainProofs`, `CrcProofs`, `SllProofs`, `MoonServerProofs`, `RpcProofs`, `SessionProofs` | the theorems | |
| `MCFlash`, ... | small instances for TLC | |

Composition: `Flash` is inside `Bootloader`, which is inside `Session`, so a
client's request runs through the service down to single controller commands.
`Main` is the same service in its surroundings, and implements `Bootloader` with
a refinement mapping that hides what startup has not set up yet (`Base`): what
is shown of `Bootloader`'s one-step reset holds of the seven steps and of any
RAM they start on.
Below the message there are two more layers: `Sll` inside `Link`, where bytes
become frames, and `MoonServer` inside `Rpc`, where frames become calls. `Link`
shows that what reaches the server is a frame with a matching CRC and that a
request sent again gets through a line that has become quiet; `Rpc` that a frame
becomes the call that was made, arguments and all, and that its reply is taken.
`Session` starts from there: messages in place of frames, calls in place of
bytes, and a frame that does not come through as a lost one.

**How data is abstracted.** Addresses are counted in pages; the drivers'
arithmetic on them (16-bit wrap, 12-bit mask, shifts by 2 and 4) is kept. A page
is the set of its cells that are not FF, so programming is union and erasing is
the empty set: the flash's own rule that a write without an erase leaves old and
new bits combined. The client pads short pages with FF, that is with nothing.
In the state machines the CRC of a page is a constant operator, `crc_32_page`, and
`crc_16ibm_update` one on registers and bytes with the residue property as its
only assumption (`CrcAssumption`), so that the theorems hold for every CRC. `Crc`
has the real ones: `Session` is checked with its CRC-32 of the page's bytes,
`Link` with a narrower one clocked through a table in the same way (`MCLink`),
`Bootloader` with one that has collisions. The tables of 256 words in `crc.c`
and `moon_transport.py` are the division by their polynomial in `Crc`; that the
four tables have these words was compared by a script outside TLA+, and TLC
evaluates the two check values. Bytes are real bytes in `MoonServer` and `Rpc`,
where packing is the point; the four bytes of a CRC are one number. `call`,
`before`, `request`, `acked`, `rx`, `frame`, `called`, `sent`, `erased`, `hrx`, `asked`
are history variables and no action's guard but a bound reads them.

**External.** The flash controller, the reset, the line and the hardware USART
are not in `src/` and are modelled from the way the code uses them: a transmitter has a holding
and a shift register, RAM survives a reset, a command
takes time, ends ready, can be refused (command, lock and flash error bits), and
a reset in the middle of one leaves its target pages undefined.

## 3. Runs

| Run | Module, cfg | What it asks |
|---|---|---|
| `FlashRH71` | `MCFlash` | On the RH71: a write or erase that returns 0 changed exactly its pages (`WriteProgramsItsPage`, `EraseBlanksPartition`), one that fails changed nothing outside the partition, if the page number was one of its own (`FailureConfined`), no sequence with errors and resets touches the bootloader, no command is written to a busy controller, every call returns |
| `FlashV71` | `MCFlash` | The same driver shape with the V71's address arithmetic, and with a controller that reads FARG the other way: still one command at a time, the bootloader is out of reach, and every call returns |
| `Bootloader` | `MCBootloader` (`Main`) | From a power-up with any RAM, startup, loop, service and resets over the driver: an answer of 0 is true of the flash, with the buffer that has the client's CRC, and no page changes but those the request named (`ImplementsStore`); a page changes only under a request that names it (`OnlyNamedPagesChange`: the pages of its own partition, except that a page number beyond the partition names a page of the next one), no command outlives its request or runs under the watchdog, the application started is the acknowledged one and starts after the reply has left (`ReplyLeavesBeforeJump`), the server always comes back to its poll (`ServesAgain`), and the whole implements `Bootloader` (`ImplementsBootloader`) and `BootControl` |
| `Link` | `MCLink` | Any bytes at all into either end's decoder: exactly the well-formed frames are reported at both ends, with their payload (`DecodesExactlyFrames`, `HostDecodesExactlyFrames`), both ends write the same frame for the same payload (`EncodersAgree`), a frame ends, nothing but the payload is written. And from whatever state that left: a request sent until it is answered is answered (`GetsThrough`), although `receive` gives up at the first wrong frame and the next request then overruns a device that is still writing |
| `MoonServer` | `MCMoonServer` (`Rpc`) | Complete, cut, unknown and broken frames in any order: a complete one calls its method with its own bytes whatever the buffer held; the reply names the request. Between them every call of the client reaches its method with its arguments (`ArgumentsArrive`) and returns (`CallsReturn`) |
| `Session` | `MCSession` | A whole session with lost frames, late replies and a reset, under the CRC-32 of `crc.c`: stale replies are recognised, an image reported as written is there and is what the application starts from, no page is programmed twice after a successful erase, the client ends, an application starts when it ends well (`StartsWhenDone`), and the device's part is a behaviour of `Bootloader` |

Two properties are proved and not run on their own, as a property of a run says more:
`BlankPageGetsItsCrc` (of `ImplementsStore`) and `EncodesFrame` (of `EncodersAgree`).

Six more runs each show a disagreement between the code and what the
repository says of it; section 7 lists them.

**Bounds and why they are enough.** `FlashRH71`/`FlashV71`: two erase blocks per
partition, so the erase loop goes round and its end condition matters; two
calls, so the second meets what the first (or its failure, or a reset) left;
page numbers at the first and last page, one beyond the partition, one beyond
the device, and the one whose 16-bit sum wraps to the bootloader. The V71 run
keeps the real literals 32 and 0xFFF and a device of 288 pages. `Bootloader`: a message of 5 characters, the fewest for which the reply is
always gone (with 4 TLC finds the jump overtaking it) and the hardest case of the real
24;
three requests, the shortest sequence that selects, is refused another
selection, and boots; two-byte pages, chunks that overlap and one that runs
over the end; a CRC with a collision; about 185,000 states. `Link`: finite without a bound (two-bit bytes, payloads
to 2, so length 3 is too long and the sync bytes occur in payloads). Noise hits
one end in a behaviour, as the two decoders share nothing and the quiet phase
meets each in every state it can have; the two requests have frames that end in
the first sync byte, the worst for what follows them. `MoonServer`: finite
without a bound; every method, every place a frame can be cut, an unknown
service, method and version, odd and wrapping sequence numbers in the frames
and four in the client (the theorems have all 32), and arguments whose bytes
all differ, so that no two can be exchanged unseen. `Session`: two pages, the second short, in
one-byte chunks, under the real CRC-32; two errors per chunk instead of five; two faults, enough for a lost reply and a stale one behind it;
one reset; four sequence numbers. The real 32 are safer: a stale reply needs the
number to come round (`StaleRepliesRecognised` has them). The runs of section 7 ask for no more than their
trace needs, so that the shortest one is the one described. The bounds are constants: `MaxCalls`, `MaxRequests`,
`MaxResets`, `MaxFaults`. `MaxCalls` and `MaxRequests` of `Session` are larger
than what its session can use.

**Deadlock.** It is off where the bound on calls stops the system, after a bus
fault (the processor is in its fault handler's loop), in the application, and
when the client has ended (`Session`) or has its answer (`Link`). It is on in
`MoonServer`.

**Fairness.** `FairFlashSpec`: weak fairness of the driver's steps (the one
thread is always running when it is in a driver; no interrupt can hold it) and
of the controller (the data sheets promise FRDY after every command). Without
the second `wait_fsr_frdy` spins for ever: it has no timeout (hazard
`v71_flash.c:247`). `FairMain` has weak fairness of startup, of the loop and of the
driver's steps inside a request for the same reason, and of the transmitters,
which shift as long as they are clocked. Without the last `usart_write`, which has no
timeout either, waits for ever. Requests and resets are never forced. `FairSession` has weak fairness of the
client, whose every wait has the serial port's timeout, of the device's loop and
of the hardware. `FairLink` has weak fairness of the client, the device and the
line's delivery; nothing forces `Quiet`, so `GetsThrough` is about the time after
the noise, and asks for it no more than that it ends. No run uses strong fairness. `Main` makes one
assumption on time that is not fairness: no request is complete before both
transmitters are empty. The shortest frame has five characters, the receiver
keeps at most one of them while `usart_write` waits, and both directions have the
same rate, so four more arrive while two leave. `SessionEnds` holds because
faults do not have to stop: each failure of a chunk counts, and every other
stage ends at the first failure.

## 4. Theorems

All are for every value of the constants that satisfies the named assumptions.

- **`FlashProofs`**. `FlashTypeCorrect`, `FlashInvariant`, `BootloaderSafe`,
  `CommandDiscipline`. The invariant is `FlashInv`: at most one command and only
  in the two states that issued it; an erase in progress is aimed at a block inside
  the partition, because the masked and shifted FARG gives back the block
  the loop is at; a write is within 16 bits of the partition, or faulted before the
  command; and from these, commands miss the bootloader. The last conjunct alone
  is not inductive: the erase loop's next block is only known to be in the
  partition because the loop's page is a multiple of 16 and so is the end.
  `BootloaderSafe` needs `Shielded`: not the RAM build, and either stores outside the
  device fault or the series is V71, since on the RH71 the range check lets every
  page through and the 16-bit page can wrap.
  `EraseIsWhole`, `WriteIsExact` and `FailureStaysInside` follow the flash itself
  through a call, with two more invariants over `FlashInv`. `EraseInv`: at each turn
  of the loop the blocks before its page are blank and the rest is as it was at
  the call. `WriteInv`: until the command completes the flash is as it was and the
  latch holds the caller's buffer where the stores went; after it only the
  command's page may differ. `EraseIsWhole` is about FARG[15:2] (`EPA_FIELD = "page"`,
  section 7 has the other reading); `WriteIsExact` is about the RH71 with stores that
  fault outside the device, as the V71 commits another page for APP_2 (section 7);
  `FailureStaysInside` is about the RH71's flash build and page numbers of the call's own partition.
- **`BootloaderProofs`**. `ImplementsFlash`: every step of the service is a step
  of `FlashSpec` or leaves it alone, which carries the theorems above over
  (`ServiceSparesBootloader`, `FlashRests`). `ServiceTypeCorrect`. `BootsAcked` and
  `BootRefinement` from `BootInv`: the entry is the acknowledged partition's start,
  or the one whose reply is about to go out, and enabled means there is one.
  `PageArrives` puts the driver's theorems together with
  `CallOfRequest`, that the driver's call is the pending request's with the CRC of the
  buffer it was given: it has the assumptions of `WriteIsExact`, and holds for every CRC function.
  `ChangesAreNamed` is for every page number, on the RH71 with FARG[15:2] and faulting stores: what changes
  is named by the request being served. It does not say that the other partition never changes: it does not
  when the page number of every write is one of the write's own partition; for one that is not, the page it names
  may be the other partition's, and that page alone changes (section 7, `FlashRange`). `StoreRefinement` is the whole of it:
  the service implements `Store`, in the RAM build too. Its invariant (`FilesInv`) is the driver's
  two with `CallOfRequest`; `TargetsOfJob` says that a command in progress reaches only the pages of
  the request being served, so a completed, a failed and an interrupted command are all a
  step of the job, and `JobAchieved` that the driver's 0 means what the request asked for. `Store` promises
  nothing about a page number beyond the partition but that the page it names is the only one to change:
  the RH71 does not refuse it (section 7).
- **`MainProofs`**. `MainTypeCorrect`. `NoCommandUnderWatchdog` and
  `MainImplementsBootloader` from `StartupInv`: what each step of startup has done is
  there at every later stage, and nothing is asked of the flash before the loop; the mapping
  hides RAM until then, so a reset and the seven steps after it map to one `Reset` and
  stutters, and a power-up to `Init`. `ReplyLeaves` from `PhaseInv`: while
  the reply to `bl_boot` is leaving, what has left of the message and what is left of
  the reply are at most three characters together, since characters of both USARTs end
  in turn; with two more of the message in its transmitter at most four can have been
  written before the reply has gone. No fairness is needed. `MainImplementsStore` is `StoreRefinement`
  for the whole program: the driver does not know of startup (`FlashOfMain`), and what startup does to RAM
  is a change of `Store`'s buffer.
- **`CrcProofs`**. `TableIsDivision`: a step of `Update` is eight of the division, as
  shifting and exclusive or distribute over the low byte and the rest. `CrcResidue`:
  a 16-bit register is zero after its own two bytes and after no others, which is
  the residue property `CrcAssumption` asks of any CRC. `EndsAgree`: Python's unbounded integers under their masks compute
  what `uint16_t` and `uint32_t` do, byte by byte, and `PageCrcsAgree` for a whole page, as both folds
  are the same run of registers (`CrcIsLastRegister`: an induction over the page with
  `SetInduction`, which comes from the least member of a set of naturals). `PageCrcTellsApart`: pages that
  differ in at most four bytes in a row have different CRCs. A byte can be moved before the
  step it follows, one byte up (`ByteBefore`), so four updates are 32 divisions of the register
  xor one word (`FourUpdates`); dividing loses nothing (`Clock8Injective`), so the
  registers differ behind the word, and the same bytes never bring them together again.
- **`SllProofs`**. What the CRC of a sequence is, is an induction over the sequence:
  `CrcOf` is the last of a run of registers, one per byte, and that such a run exists,
  is the only one and grows with the sequence is shown with the same induction
  (`CrcProofs`, by INSTANCE). Then `SllInv` (`DecoderInvariant`): in each
  state of the decoder the bytes seen are that many bytes of a frame, with the register
  the CRC of the part they cover. It gives `FramesExactly`, `EncoderMakesFrames`,
  `FramesAreBounded` and `DecoderStaysInPayload` for every radix, sync sequence and
  payload limit. Exactness is two-sided: when the decoder reports, the residue
  assumption turns a register of zero into the frame's own CRC; when it does not, the
  state says which byte was wrong. `LinkInvariant` adds the client's decoder (`HostInv`),
  for which `HostFramesExactly` says the same; `LinkImplementsSll` carries the device's
  theorems over to the whole line (`DeviceFramesExactly`); and `ReplyFramesAgree` says
  that the two encoders, written apart in C and Python, make the same frame.
- **`MoonServerProofs`**. `ServerTypeCorrect`; `RepliesNameTheirRequest`: packing five
  fields into 24 bits and unpacking them are inverse; `CompleteRequestsAreCalled`.
- **`RpcProofs`**. `ArgumentsAlwaysArrive`, `CallsAlwaysReturn`, for all arguments of
  the interface's widths, all data a frame holds and all 32 sequence numbers. The
  frame of a call is shown to be a complete request byte by byte; then the lemmas of
  `MoonServerProofs` say that the server calls its method with those bytes and
  what its reply reads as. `RpcTypeCorrect` is the invariant: the server's `TypeOK`
  and five bits of sequence number.
- **`SessionProofs`**. `SessionTypeCorrect`, `SessionIsService` (every session is a
  behaviour of `Bootloader!Spec`), `SessionSparesBootloader`, for every image,
  chunk size, retry limit and number of faults. The invariant is
  `SessionTypeOK` with the service's: a request on the line names a chunk of the
  image, and that is why it is one `Bootloader` admits. Three theorems are about what is
  lost, late or left half done, with fewer faults than the 32 sequence numbers:
  - `StaleRepliesRecognised`. Messages are in the order of their requests, and at most as
    many requests old as there have been faults (`QueueInv`): the number cannot come round.
    Only chunks are ever left behind, since every other call that fails ends the
    session (`CurrentInv`), so no old commit, erase or boot is under way while the
    client goes on.
  - `PagesProgrammedOnce`. What an acknowledged erase left blank stays blank until the
    page's one commit is issued (`PagesInv`): a stale commit would be the last request of an
    ended client, and a reset in a command spoils only the page it was about.
  - `ImageArrives`. `BufferInv`: the page buffer is chunks of the current page over a
    buffer erased or cleared by a reset. A commit that is accepted has the page's CRC;
    if the CRC tells the page from those incomplete buffers (`NoCollision`, a property of
    the image: at most two buffers for each set of its chunks), the buffer is the page,
    and `WrittenInv` follows it into the flash and keeps it there until the application starts.

  The last two are about the RH71 with FARG[15:2] and an image that fits its partition.
  They need both: the V71 commits pages of APP_2 into APP_1, and the RH71's range check lets a
  longer image run on into the pages after its partition (section 7).

**Assumptions.** `GeometryAssumption`: partitions are not empty and fit the device, the device has at most 4096 pages (the mask's
width), the base address is a multiple of 4096 pages, on the V71 the bootloader
ends at or before page 32 (the literal of its write command). `AlignmentAssumption`:
partitions are multiples of 16 pages. The default sizes are; other sizes Kconfig accepts are not,
and what comes of that is the run `FlashMisaligned`. `InputAssumption`,
`ServiceAssumption`: inputs are of the widths of the generated interface, the CRC
of a page is an integer. `MainAssumption`: the message has at least five
characters. `SllAssumption`: the payload limit fits a byte.
`LinkAssumption`: requests fit a frame, and the answer is a payload, as the server writes it
into the buffer of the frame it answers.
`CrcAssumption`: the residue property of the CRC. `ServerAssumption`: frames are at
most what the link layer delivers. `CallsAssumption`: arguments have the widths
`struct.pack` accepts and the data fits a frame. `SessionAssumption`: the image is cut into
pages, and its chunks are among what `Bootloader` is asked. TLC evaluates each of
them on every run of its module.

## 5. Only model-checked

- Liveness: `CallReturns`, `ServesAgain`, `SessionEnds`, `StartsWhenDone`,
  `GetsThrough`, and `BootControl`'s fairness of the start in `BootControlFromReset`
  (its safety part is `BootRefinement` and `MainImplementsBootloader`).
- The session on the V71: the theorems about contents are the RH71's.

## 6. Not modelled

`printf.c` (third-party; formatting only: what is printed counts as characters, and only
for the message before the jump), pins, baud rates and the order of the register
writes in `__usart_init`, `rh71_usart.c` and `v71_usart.c` (not in the build any more), the
Python eRPC server side (not used by the client), Kconfig and the build, and
`flash_erase_range` of the RH71 (nothing calls it). `BootJumpASM` is modelled by
what it does to VTOR; the branch and the stack pointer are not. What the application
does with the USART is outside the model: `ReplyLeavesBeforeJump` is what it may
rely on.
`GetsThrough` leaves out frames with the sync sequence inside: for a decoder that
has lost its place their false start can swallow the next true one, time after
time (dropping the condition shows the cycle); `send_page` then gives up after
its retries.
`bl_boot` does not look at what it starts: an erased partition is started as
readily as a good one. What can be stated is the whole system's part,
`ImageIsWritten`: the application of a session whose client saw no failure starts
from the image that was sent. `StartsWhenDone` leaves out a reset between
the selection and the boot: the client drops the results of both calls and exits
with 0 all the same.

## 7. Where the code and its documentation disagree

| Run | What it shows |
|---|---|
| `FlashV71App2` | `v71_flash.c:367` commits page `32 + page` whatever the partition: a page for APP_2 is programmed into APP_1 and 0 returned |
| `FlashRange` | `rh71_flash.c:388` compares a page offset with an absolute address, so its "Invalid page number" check refuses nothing: a write of the page behind APP_1 is answered with 0 and has programmed the first page of APP_2 |
| `FlashMisaligned` | `flash.c:25-30` validates the partitions' sizes but not their alignment, and `rh71_flash.c:362` rounds the page of an erase down: with a bootloader of 10 kB, erasing APP_1 erases the last pages of the bootloader, which `flash.c:60` allows only in the RAM build |
| `BootloaderVtor` | `system.c:52` "Set new vector table" stores the address of a parameter |
| `MoonServerShort` | `server.c:48`, `server.h:52`: the read length is never used, so no frame is too short. An empty frame behind an erase of APP_2 runs `eraseApp` once more, on the reply in the buffer: the result 0 is taken for the id of APP_1 |
| `SessionErase` | `blcli.py:117` reports a successful erase without looking at the result, and goes on to the first page |

The first three and the fifth bound what the passing runs may claim: writes of APP_2 are
checked on the RH71, what a write may change is told by the page it names, not by its
partition, partitions are aligned, and `CompleteRequestIsCalled` is about complete requests.

One disagreement is inside the sources and cannot be settled from them. The comment above the erase
command (`v71_flash.c:274`, `rh71_flash.c:350`) gives FARG[15:4] = page / 16; the code
encodes FARG[15:2] = page (`v71_flash.c:29`), as `v71_flash.c:69` says. `EPA_FIELD` chooses how the
controller reads the word. The runs take the code's reading, under which the driver
erases what it means to. `FlashV71` takes the comment's, under which it does not (erases land at four
times the distance, and `EraseBlanksPartition` is not one of its properties), but even then leaves the
bootloader alone.

## 8. Plan

Done, in this order: `Flash`, `Bootloader` with `BootControl`, `Sll`, `MoonServer`,
`Session`, their proofs, `Link`, `Rpc` and its proofs; `Crc` at full width, `Main`
from reset to jump, their proofs, the theorems about the flash's contents and about sessions, the exact frames of both
ends of the line, and `Store`. Next:

1. The frame loss of `Session` as an abstraction of `Link`: `Session` would then implement an
   abstract line that loses, delays and never invents messages, and so would `Link`.

## 9. Running

    tlc -config FlashRH71.cfg MCFlash.tla
    tlapm FlashProofs.tla

and likewise for the other runs of `PROJECT.json` and the other `*Proofs` modules.
