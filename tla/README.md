# Verification of hypervisor_last

`src/` is a small 32-bit kernel for one x86 processor: a boot sector that loads
it from a floppy, real-mode setup, and a C kernel that draws a desktop and
serves a keyboard, a PS/2 mouse and a console on COM1.  Beside it stand TLA+
models of its parts, the TLC configurations that check them on small instances,
and TLAPS proofs of what matters most.

## The system

| part | state it keeps | operations |
|---|---|---|
| byte rings (`fifo8.c`) | `struct fifo`: buffer, head, tail, free, size, flag, all `unsigned char` | `fifo_init`, `fifo_put`, `fifo_get`, `fifo_status` |
| interrupt handlers (`start.c:563-596`, `int_entry.s`) | none of their own: they fill the rings | `inthandler21` keyboard, `24` COM1, `2c` mouse, `27` spurious |
| kernel thread (`start.c:430-482`) | the rings, EFLAGS.IF, the 8259 masks | boot sequence, then a loop that serves the keyboard, the mouse, the console, in this order |
| keyboard handler (`start.c:318-371`, `keyboard.c`) | the cursor `screen_pos` | draws the key pressed |
| mouse handler (`start.c:373-428`, `mouse.c`) | `mouse_status`: phase, packet, position | decodes packets, moves the pointer |
| console (`console.c`, `serial.c`) | `cmd`: line, pos, count | edits a line, runs `help` and `e820` |
| memory map (`start.c:143-210`) | `mem_map`, `free_memory`, totals | reads the firmware's table once, at boot |
| paging (`mmu.c`, `libmmu.s`) | page directory and eight tables | built once; CR3 loaded before, CR0.PG set after the drawing |
| boot sector (`bootsector.s`) | disk address, destination, retry count | loads the kernel, retrying each sector |
| real-mode setup (`lowlevel_init.s`) | 8259, 16550, firmware memory table, the first GDT | programs the devices, enters protected mode |
| descriptors and palette (`start.c:42-100`, `250-287`) | the IDT, a second GDT, the VGA's palette registers | fills them once, before the first interrupt |
| memory test (`memtest.c`, `libmemtest.s`) | none of its own; CR0's cache bits | pattern test of a range; its only call is commented out |
| `mm.c` | a table of free blocks | only `memman_init` is called; `memman_free` is a stub |
| formatting (`sprintf.c`, `ctype.h`, `string.c`) | none | `sprintf`, `vsprintf`, `number`; comparing |
| `font.c`, `font.h` | none | glyph data |

How they interact: a device raises its line; the 8259 latches the edge; the
handler, with interrupts off, acknowledges, reads one byte and puts it in the
device's ring.  The loop tests the three rings with interrupts off.  It takes a
keyboard or mouse byte before it enables interrupts again; the console's byte is
taken by `get_serial_fifo` after `io_sti`.  With all three empty it executes
`sti; hlt`.  Before the loop runs, each part relies on what the one before left:
the boot sector on the firmware, `lowlevel_init.s` on the two sectors the boot
sector keeps at 0x70000 (the first GDT lies there), the kernel on the segment
base 0x10000 in that GDT, on the 8259s' vectors, and on its code lying in memory where
it was linked.

What makes the parts correct:

* rings: bytes leave once, in order; a byte is refused only by a full ring, and
  remembered; no count passes the size, whatever interrupts a read;
* handlers: no interrupt before its gate and its ring; every level acknowledged;
  no device whose full buffer has lost its interrupt;
* kernel thread: no `hlt` over a waiting byte; what waits is served;
* keyboard handler and drawing: nothing outside video memory, keys in reading order;
* mouse handler: the pointer moves as reported, on the screen, and a lost byte does
  not misalign it for ever;
* console: Enter runs what the user sees; no byte outside the buffer;
* memory map: each entry stored once, the same rows wherever they are shown;
* paging: the processor goes on where it is when paging is turned on;
* boot sector: the image as the drive's tracks make it, the loader intact, an end
  whatever the drive does;
* setup and descriptors: chips as the kernel relies on them; every interrupt that
  is let in finds its gate, its segment and its handler;
* formatting: each directive prints what it promises, from its own arguments, and
  no format is read past its end;
* memory test: the first faulty address, memory and cache left as found.

What is hard in it: the interleaving of handlers with the loop; the wake-up
from `hlt`; the order of the boot sequence relative to `io_sti`; edges the
8259 forgets at ICW1; one-byte-per-interrupt reading of a sixteen-byte receive
FIFO; rings at their limit; the read-modify-write of `fifo->free` with
interrupts enabled; firmware interrupts between the port writes of the setup;
reads that fail and are tried again; numbers that five files must agree on
before the first interrupt; memory that nothing has cleared; a cache between
the memory test and the memory.

## Modules

### Fifo8

One ring, as operators on the value of a `struct fifo`.  All counts wrap at 256.
`fifo_get` is split at its two stores (`take_head`, `release_slot`), because the
build has no `-O` and compiles `fifo->free++` to a load, an add and a store.

### BoundedQueue

What an input ring promises: bytes come out once, in order; a byte is refused
only when `Capacity` bytes wait, and a refusal is remembered.

### Kernel

The thread of `kernelstart` and the handlers.  `pc` walks through the boot
sequence, then the loop; each action is one access to what handlers share with
the thread.  A handler is one action because the gates are interrupt gates
(`AR_INTGATE32`): it runs with interrupts off from the gate to `iretl`.

| variable | code |
|---|---|
| `fifo` | `key_fifo`, `mouse_fifo`, `serial_fifo` |
| `pc`, `cur`, `data`, `reg` | position in `kernelstart`, the branch taken, the local `data` of each branch, the register in `fifo->free++` |
| `intr`, `halted` | EFLAGS.IF, waiting in `hlt` |
| `gates` | entries set by `set_gatedesc` |
| `irr`, `isr`, `enabled` | requests, levels in service, masks of both 8259s |
| `obf`, `rx`, `timeout` | the i8042's output buffer, the 16550's receive FIFO, its character timeout |
| `backlog` | history: bytes accepted and not yet delivered |

Modelled of the hardware, and only as far as the code relies on it:

* The 8259s are edge triggered and prioritized; the slave comes in on the
  master's input two; ICW1 forgets latched edges.
* The i8042 holds one byte at a time and raises its line again when the mode
  byte is written (as the emulator the Makefile starts does).  The mouse sends
  nothing before `enable_mouse`; a key may already be pressed at boot.
* The 16550 raises its line at the threshold (14 of 16 in `lowlevel_init.s`) or
  after a silence.  The sender is quiet until `init_pic`.
* `sti` takes effect after the instruction that follows it.

The steps of `fifo_get` up to its first store are one action: the tests it makes
can only be changed by handlers in the direction that keeps their outcome.

### Console and LineEditor

`Console` is `serial_console` with `read_cmdline`, `findcmd`, `strncmp` and
`write_serial`: `cmd` is `struct cmdline` (buffer, pos, count), `term` what the
user's terminal shows, `ran` what the last Enter did.  One action for each kind
of byte `get_serial_fifo` returns: `insert_char`, `delete_char`, `enter`.  A text
the console prints is one character.  A store outside the buffer sets `wild`, and
nothing is claimed after it.  `LineEditor` is what the user expects: a line, and
an Enter that runs the first command whose name the line starts with.

### MemMap

From the firmware's list to the screen.  `first_call` and `get_next` are the two
`int 15h` calls of `lowlevel_init.s` with the continuation value `ebx`;
`mem_init`, `walk_free`, `walk_reserved`, `find_top` are the parts of
`drawing_mem_map`; `e820_rows` is what the command of that name prints.  `Word`
is the width of `int`, so that sums and low halves wrap.  `store` puts a block in
`free_memory`; the code makes no test of the index, so a block too many goes behind
it (`store_behind`): over `max_free_mem`, over padding or over eight bytes of
`mem_map` (`Over`), in the order in which the build lays them out.  The search for the first empty
entry then ends somewhere behind the array.  What is read before and behind
`free_memory` may be anything.

### Mouse and Pointer

`Mouse` is `mouse_handler` byte by byte (`wait_ack`, `first_byte`, `second_byte`,
`third_byte` are its phases 0 to 3) with the mouse that sends the packets and a
ring that may refuse bytes (`Drop`).  `Pointer` is what the user sees: a position
that moves as the mouse reports.  `images` is where the pointer has been drawn
and not painted over; `Redrawn` is the erasing of the old image and
`draw_mouse_on_screen`.

### Screen

Where each operation draws: `drawing_desktop`, the rows and totals of
`drawing_mem_map`, and `keyboard_handler` with `print`, `show_code`, `ignore`.
Every operation leaves the boxes it drew in `drawn`.  `putfont8_string` is kept
with its two nested loops, whose column is never set back: that is why a row
after the first holds no character.  Scan codes behind the end of `scancode`
read whatever the linker put there: both outcomes are allowed.

### BootSector

The two read loops of `bootsector.s` with their retries: `second` (the second
sector of the loader, and the copy of both to 0x10000), `rest` (35 sectors, two
heads, two cylinders), `fails`.  `ram` has an entry for each 512 bytes of the
640 KB in reach.  On a drive with fewer sectors per track than the loop reads, a
sector beyond the track's last fails every time.

### Descriptors

`set_segmdesc` and `set_gatedesc` with their shifts and masks, and the
processor's side: the base and the limit of a segment, the offset and the kind
of a gate.

### Setup

From real mode to the first interrupt of the kernel.  `Program` is what
`lowlevel_init.s` and the beginning of `kernelstart` do, instruction by
instruction: port writes, `cli`, `lidt`, `lgdt`, the switch, then `init_palette`,
`init_gdtidt`, `init_pic`, `sti` and the two masks.  They reach two 8259s, a
16550, the VGA's palette registers and the descriptor tables in memory, with
firmware interrupts in between while they are enabled.  A loop that writes one
value all over a table (`set_segments`, `set_gates`) is one step: interrupts are
disabled and nothing else runs.

| variable | code |
|---|---|
| `ip`, `intr`, `pmode` | the next instruction, EFLAGS.IF, CR0.PE |
| `pic`, `uart`, `dac` | the chips' registers |
| `gdtr`, `idtr` | what `lgdt` and `lidt` loaded |
| `idt`, `spare` | the tables `init_gdtidt` writes, at the address its pointers have in the segment |

`HandlerAt` and `GdtOffset` are the linker's and the assembler's: where the
handlers are in the kernel's segment, where `gdt` is in the sector.

### Startup

The composition of `BootSector`, `Setup` and `Mmu`: `load` until the image is
there, `setup`, and with interrupts enabled `build`.  `Physical` leads a linear
address through the page tables once paging is on.

### Mmu

`init_page_directory` (`clear`, `fill`, `link`), `loadPageDirectory`,
`enablePaging`, and the processor's walk (`Translate`).  Addresses are in pages;
where the linker puts the two arrays is any of `Layouts`.  Nothing clears .bss,
so both arrays begin with whatever memory holds (`Leftover`).

### Sprintf

`vsprintf` as the loop it is: `literal`, `percent`, `flag`, `width`, `point`,
`prec`, `qualify`, `convert`, each moving `at` (the pointer `fmt`) over the
characters it reads, and `number` as an operator on words of `LONG` values.  A
`va_arg` chooses any value a caller may pass; `args` and `marks` remember what
each directive took and where its text begins.  `want` is the list of directives
whose text `fmt` is; the promise (`Right`) is told in terms of `want` and the text
alone.  A caller's directives (`Directives`) have no width of zero, which would be
read as a flag, and widths and precisions well within an int (`Most`), so that the
model need not wrap the sums that `number` makes of them.  It differs from ISO C in what the code does on purpose or not: zeros
that fill the width are kept when a precision is given, `#` adds a prefix to
zero too, `+` and a space are ignored by unsigned conversions.

### Memtest

`memtest` with `memtest_sub`: `probe` (the AC bit), `disable` and `enable` (the
cache), and one action per access to the word.  The machine maps each word to a
chip; a chip holds some bits fast at one or at zero, so that it may be memory,
ROM, an open bus or broken, and several words may reach one chip.  `line` is the
cache.

## Runs

A module whose name ends in MC gives the constants that a .cfg cannot state.

| run | instance | shows |
|---|---|---|
| `kernel_rings` | a keyboard ring of 2 slots with two key values, the others 1; receive FIFO of 1 | rings set up before interrupts, exact, emptied before `hlt`; 8259 and i8042 agree; the keyboard and the mouse ring implement `BoundedQueue` |
| `kernel_console` | a console ring of 2, receive FIFO of 3 with threshold 2, up to 3 undelivered bytes | the inductive invariant; what holds of a ring read with interrupts enabled: it never over-reports, keeps the order, drops nothing needlessly |
| `kernel_live` | rings of 1, FIFO and threshold 2 | who is served, and that no pending interrupt is slept through |
| `console_edit` | two characters, two names of two of them, lines up to 4 in a buffer of 5 | the console implements `LineEditor`; the terminal shows the line |
| `console_overrun` | a buffer of 3 | a store outside the buffer (below) |
| `memmap_walk` | every list of 2 to 4 entries, usable or not, with bases from 0 to beyond a word and lengths of 0, 6 and 16; words of 4 bits, so that bases, lengths and totals wrap; `free_memory` of 3, so that four usable blocks run over it | the table and the rows are right for each list; the total for those that fit `free_memory`; the top of memory for those that `Plain` describes |
| `memmap_pages` | two blocks that have a length | no page is ever free (below) |
| `mouse` | steps and flights past every edge of a screen of 24 by 48, up to two refused bytes at any place | the pointer stays on the screen, follows the mouse until the first loss, and packets are found again |
| `screen_keys` | the real screen, all scan codes, memory maps up to 12 entries | drawing stays in video memory; keys in reading order; the first 965 of them drawn |
| `startup` | the real counts, drives of 18, 35 and 36 sectors per track, every pattern of failures; three firmware masks, the inputs a PC uses; handlers where `gcc` and `ld` put them and one at the end of the first track; 8 tables of 128 entries, two layouts, cleared and uncleared memory | the image each drive makes, or the error message after five failures; chips as needed; every interrupt enters its handler, and memory there holds the handler's sector, before and with paging; the identity mapping, at every moment of its construction |
| `sprintf` | words of 7 bits, shorts of 4; all conversions, up to two flags, widths, precisions and stars; pairs of directives; every text of up to three of eight characters | directives right, formats read to their end and no further |
| `memtest` | four words on three chips, five kinds of chip, two wirings, every range, with and without a cache | the first fault, memory and cache as before, an end |

### Bounds, and why they are enough

* Rings of one and two slots reach empty, full, refusal and wrap-around of head
  and tail; the counts' width (256) is not reached in a run and is covered by the
  proofs, for every size from 1 to 255.  A size of 256 and more is excluded by
  the type of `fifo_init`'s argument; the program uses 32 and 128.
* `MaxBacklog` bounds how many accepted, undelivered bytes of the console the
  history keeps: at the bound the serial handler waits.  It is at least the ring's
  size, so that the ring overflows below it.
* `LineLimit` is below the buffer's size in `console_edit`; `console_overrun` is
  the other case.  `TxReady = {TRUE}` there, since a dropped echo is not on the terminal.
* `MaxLost = 2` lets two losses fall into one packet or into two.
* Keys are counted up to `MaxKeys = 1000` and the screen is full after 965.
  Failures are counted up to one more than five.
* `startup` has Size = 140 sectors as the program does, and page tables of 128
  entries instead of 1024, which reach past the kernel's 640 KB and the tables at
  0x26f800; `retry` bounds failures itself.
* In `sprintf` a word of 7 bits has magnitudes of up to three digits in base 8 and
  10 and two in base 16, wider and narrower than the widths and precisions; -64 is the
  least long.  Three characters are enough to break off a format in each part of
  a directive.
* In `memtest` `TOP` is 16, so that ranges end below, at and beyond the wrap of the
  counter.  `start` is a multiple of four, as an address of words is.
* The 8259s, the i8042, the 16550, the firmware, the page walk and the floppy
  drive are external: they are modelled as the code uses them.

## Findings

* `console_overrun`: `read_cmdline` stores a byte at `pos` without a test against
  `MAXSIZE_CMD`; the test that prints "command is too long" (`console.c:82`) comes
  with Enter, when the bytes are already stored.
* `memmap_pages`: `mem_init` marks every page used and `while (len_mem-- == 0)`
  frees none of a block that has a length, so `mem_map` tells nothing about a page,
  where `mmu.h:14` has an entry of 100 mean a used page.

Met while modelling, kept in the models as the code has them, without a run:

* `lowlevel_init.s:104` does not test `ebx` after the first call: a firmware list
  of one entry would be stored twice (`MapAssumption` asks for two entries).
* An entry of length zero is not ignored, as `lowlevel_init.s:88` wants, but ends
  the search for the top of memory: what lies behind the empty one is not counted, and
  if the first block is empty `free_memory[-1]` is read.  `memmap_walk` has such lists,
  and `PagingTop` claims nothing of them.
* `drawing_mem_map` makes no test of `free_memory`'s bound (`start.c:181`): an
  eleventh usable block is stored behind it.  `DrawnRight` and `TypeOK` say what holds
  all the same: the rows, and the total as some word.
* The boot sector reads 35 sectors of a track, not 18 as the comment at
  `bootsector.s:124` says.  The image is therefore in the order of the disk only on a
  drive that has 35.  A floppy of 18 is never loaded: the 19th sector fails five times
  and the error message comes.  One of 36 is loaded to the end without its 36th sector
  of every track, so that all behind the first track lies one, two or three sectors too
  low.  `ImageByTracks` states the three cases; `InterruptsReachHandlers` holds on the
  third only because the handlers are linked into the first track.
* The first write to the 16550's interrupt enable register is 1, received data
  available, not "Disable all interrupt" (`lowlevel_init.s:116`); nothing harmful
  follows (`DevicesReady`).
* The comment at `lowlevel_init.s:195` counts five entries in 32 bytes and those at
  226 and 242 give the segments base 0; there are four and the base is 0x10000, as
  `lowlevel_init.s:237` says and the kernel relies on (`Linear32`).
* A range that is memory up to the top of the address space makes `memtest` run
  round for ever (`MemtestEnds`); the last word of a range that is no multiple of
  four is tested whole.  Nobody calls it.
* Eight tables map 32 MB, not the 512 MB of `mmu.h:10`; `VaIsPa` says what is
  mapped.
* The command `help` prints nothing.

Two things the models show and no document denies.  `fifo->free++` in
`get_serial_fifo` can lose the count of a byte that arrives in its middle: the
console's ring then reports fewer bytes than wait, never more
(`SerialNeverOverReports`), and a byte may stay until the next one comes.  And
`inthandler24` reads one byte per interrupt, so below the threshold the rest of
the receive FIFO waits for its timeout, and a FIFO filled past its threshold
while the line stays raised gives no further edge: `kernel_live` therefore takes
a FIFO no deeper than its threshold.

## Fairness

* `Kernel!FairSpec`: the thread executes its instructions (weak fairness), a
  request that comes up again and again with interrupts enabled is taken (strong
  fairness of each handler, since the loop disables interrupts in every pass, and
  the devices are slower than the instructions between two `sti`), and the 16550's
  timeout runs.  Nothing is assumed of when users type.  The keyboard comes first
  in the loop and is served whatever happens; the mouse if keys stop, the console
  if both do: the properties say exactly that.
* `Mouse!FairSpec`: a byte in the ring is handled (this is what `kernel_live`
  shows), and the mouse goes on being used, if only its buttons.
* `Startup!StartupSpec`: the firmware answers each call, and the processor executes
  the instructions of the setup and of the construction of the page tables.
  Nothing is assumed of which reads succeed.
* `Sprintf!Spec` and `Memtest!Spec`: the one thread there is goes on (weak
  fairness of the next step).
* The other modules claim safety only.

## Proofs

`KernelProofs` proves for every ring size from 1 to 255, every set of device
bytes and every depth and threshold of the receive FIFO that `Inductive` is an
invariant of `Kernel!Spec`, and from it the type invariant, `RingExact`,
`InterruptsAfterSetup`, `NothingLeftInService`, `ControllersAgree`,
`SerialNeverOverReports`, `SleepsOnlyWhenDrained`, and that the keyboard's and
the mouse's ring implement `BoundedQueue`.

`Inductive` is a conjunction of named parts, since none of the properties is
inductive alone.  The rings' contents are related to the history by slot
(`buffer[(head + k) % size]` is the k-th undelivered byte), which needs that
counts stay within the size, which for the keyboard and mouse needs that no
handler runs between the loop's test and the last store of `fifo_get`, which needs
`intr` to follow `pc`, which needs that no interrupt is taken before `io_sti`.
That the i8042 never locks up needs the relation between its output buffer and
the requests of both 8259s.  The refinements follow with the undelivered bytes
as the queue, one step of the handler or of `release_slot` at a time.

The console's ring is read with interrupts enabled, so its count may be wrong.  What
is right all the same is its contents: `SerialHeld` says that the last `size`
undelivered bytes lie in the buffer from `head` on and that `tail` follows them, by
positions alone.  With it `SerialInOrder` and `NoNeedlessDrop` are proved, although a
byte may come in between any two accesses of `fifo_get`.

`MouseProofs` proves, for a screen of any size and any set of moves, that the
pointer stays on the screen (`PointerOnScreen`), that no image of it stays behind
(`OneImage`) and that `mouse_handler`
implements `Pointer` until a byte is lost (`PointerFollowsMouse`).  The invariant
behind the second, `Tracking`, says which bytes of which packet are in `buf` and
which are on their way in each phase: the position alone says nothing between the
first byte of a packet and the third, when it moves.

`StartupProofs` proves the parts of the start-up one after the other, and then what
only holds of them together.

* The boot sector: `ImageByTracks`, `LoaderIntact` and `FiveTries` for any number of
  sectors, heads and cylinders that fits below the loader.  `KernelInOrder` is the case
  of a drive with as many sectors per track as the loop reads; on any other the image is
  not in order, or not loaded.  The invariant, `Loading`,
  counts the sectors in place from cylinder, head and sector: the segment register
  follows that count, and so do the sectors that are where they belong.  `FiveTries`
  needs that `si` and the failures since the last success are the same.
* Descriptors: gates and segments lose nothing of an address of 32 bits, nor of a
  limit (`GateKept`, `SegmentKept`).
* Paging: for every number of entries and tables, every layout and whatever the
  arrays held before, `Built` is invariant, and from it `VaIsPa` and `NoHalfTable`.
* The setup: `DevicesReady`, from the invariant `Ready`.  That says for each
  instruction which writes have reached the chips, the palette and the tables.
  The setup of real mode leaves the 8259s to the firmware, whose interrupts move
  their in-service bits between any two instructions up to the `cli`: of these
  chips nothing is certain until `init_pic` initializes them again, of all else
  every write counts from where it is made.
* The whole: a behaviour of `Startup` is one of each of its parts (`Composition`),
  so their invariants hold together (`StartupSafe`).  `InterruptsReachHandlers`
  needs all of them: the setup runs only after the loading has ended well (`Loads`), so
  the first track is in place and the handlers with it, the first GDT is in the sector that `LoaderIntact` keeps, the interrupt table and the handlers
  are reached through page tables that map every page to itself, and `Ready` has a
  gate for each vector the two masks let through.

`MemMapProofs` proves `TableComplete`, `DrawnRight`, `TypeOK` and `PagingTop` for every
list of two or more entries, those that run over `free_memory` included.  What a
property claims for some lists only it says itself: the total is right if the usable
blocks fit `free_memory` (`Fit`), its index stays inside if they leave it an empty entry
(`Fewer`), and the top of memory is right if besides some block is usable, none is empty
and all come in order, disjoint and below 4 GB (`Plain`).  `Walking` says what
has been drawn and summed up before the entry the walk is at; `Kept` and `Tops` what
`free_memory` holds of the blocks before it, so that the first empty slot is behind
the last usable block.  What the recursive functions of the model come to is proved
by a least counterexample (`Least`).

`ConsoleProofs` proves that the console implements `LineEditor` for any command
names, any buffer and any lines, as long as no byte is stored outside the buffer
(`ConsoleEdits`), which is so when lines are shorter than it (`ShortLinesEdited`).
The proof of Enter compares what `strncmp` finds in the buffer, with the rests of
earlier lines behind the terminator, with what the line alone says.  `Echoing` ties
the terminal to the line: the prompt or nothing, the line, then spaces, with the
cursor at the line's end; the three characters sent for a backspace, or the text a
command prints, lead back to that shape only as a whole.

`ScreenProofs` proves that of any number of keys the first 965 are drawn and no other
(`ShownUntilFull`; a count, which says nothing of glyphs that overlap), in reading order
(`ReadingOrder`), and that nothing is
drawn outside video memory (`InVideoMemory`).  The cursor is a function of the
number of keys (`CursorPlace`): the nested loops of `print` step it on once for each
row they walk, six times near the top, once near the bottom, and after 965 keys
not at all.

`MemtestProofs` proves for any chips and any wiring, faults included, that memory
is left as it was (`MemoryKept`) and that the first faulty address is returned
(`FaultFound`).  Its invariant `Kept` says that the cache is empty and off, and that
only the word under test may differ from what it was; `Tested` that every word
before the counter is good.  `BothPatterns` is the heart: a chip gives back a
pattern and its inverse exactly when none of its bits is held fast.

`SprintfProofs` proves that no format is read past its terminator, because every
step over a character has first seen that it is not the terminator.  And it proves
`FormatsRight`, for formats of any number of directives, with any flags, widths and
precisions and any arguments.  Its invariant, `Follows`, says in each part of
`vsprintf` how far `fmt` has come in the text of which directive and what has been
made of that part: which flags, how many digits of the width and what they come to
(`Accumulates`), which stars are taken; and that every directive before has written
its promise between two marks.  Because the character after each part ends it
(`NextChars`: no digit follows a width, no flag the flags), reading takes the text
apart as `Render` put it together.  For numbers, `NumeralDenotes` shows by a least
counterexample that `number`'s digits are the shortest numeral of a word in each
base, and `NumberIs` that its six loops, whichever of them run, put the sign, the
prefix, zeros and digits in order and spaces on one side.

Assumed are only the modules' ASSUMEs: on the kernel's constants (ring sizes fit
a byte, the bytes of the devices are distinct from the markers), on sizes and
layouts, that formats are texts and what a caller may ask for and pass
(`FormatsAssumption`, `DirectivesAssumption`, `ArgumentsAssumption`), that a chip shows its fast bits from the
first, that the firmware's list has two entries or more and a usable block whose length is read
as zero begins within `mem_map` (a page of it is written without a test), that the characters one
types are not control characters nor the console's own messages, and on the places
of the parts in memory (`PlacesAssumption`: the handlers in the first track of the image, `gdt` in its
sector, page tables that reach past the interrupt table).  Theorems with a further
hypothesis state it.

Model-checked only: all liveness (`InputsServed`, `UartDrained`, `PendingWakes`,
`Realigns`, `Ends`, `FormatEnds`, `MemtestEnds`), which TLAPS does not prove under
fairness.  Every invariant and every action or refinement property that a run
checks has a theorem.

## Not modelled

* `font.c` and `font.h`: 58000 of the repository's 60000 lines, all of them glyphs.
  They are data without behaviour, and most of what any count of lines finds
  unmodelled.
* The free block table (`mm.c`): `memman_init` clears it at boot and nothing reads
  it again; `memman_free` is a stub, so what a block freed would do cannot be told.
* Code that is never reached: `console.c` behind the return of `read_cmdline`
  (129-207), `isxdigit`, `int.c`, what is inside `#if 0`.
* Colours, the pixels of glyphs and of the pointer's image, the boot sector's
  message and video mode, `wbinvd`.
* The stack, and that the kernel's static storage other than the page tables begins
  at zero: nothing clears it, and the models start from zeros as in the emulator.

## Plan

The modules were built from the loop outwards: `Kernel` with the rings, then what
its branches call (`Console`, `Mouse`, `Screen`), what runs before it (`BootSector`,
`Setup`, `Mmu`, `MemMap`), their composition (`Startup`), and last the two libraries
(`Sprintf`, `Memtest`).  What would come next:

1. A composition of `Kernel`'s loop with `Mouse` and `Console`: the handlers as
   the loop's steps rather than an assumption, so that what a refused byte does to
   the pointer follows from the ring.
2. Proofs: that this composition implements its parts, as `Composition` does for
   the start-up, so that their theorems hold of it.
