# Specifications of the 32-bit kernel

TLA+ models of the kernel in this repository, the TLC runs that check them on small
instances and the theorems TLAPS proves about them for all instances. Every module names
the source lines its properties speak of; `PROJECT.json` maps each definition to the lines
it stands for.

## 1. The system

A small kernel for 32-bit x86. The boot sector loads it with the firmware's disk service,
switches to protected mode and starts `kernel_main`. From then on there are exactly two
contexts on one CPU: the main thread, which boots and then idles in a loop, and the
keyboard interrupt handler, which may run between any two instructions of the main thread
once `kernel.c:99` has enabled interrupts. The interrupt gate clears IF, so the handler
itself is never interrupted. Nearly all work after boot happens in the handler: it echoes
keys, reads and writes disk sectors, and opens and reads files. Devices act beside both.

| component | source | state it keeps | operations |
|---|---|---|---|
| text console | `kernel.c:399-514` | `VIDEO_MEMORY` (the cursor), the text buffer, the cursor register of the CRT controller | `print_char`, `print`, `clearScreen`, `update_cursor` |
| heap | `stdlib.c` | `heap_end` | `malloc`; `free` does nothing |
| keyboard handler | `kernel.c:263-387` | none of its own: it keeps typed characters on top of the heap | one interrupt per key: echo, `w` write sector, `q` read sector, `f` open file, backspace |
| boot sequence | `kernel.c:74-200` | locals of `kernel_main` | paging, interrupts, prints, file system, PCI search, main loop |
| virtual file system and tmpfs | `vfs.c`, `vfs.h` | `root_vnode`, `mounts`, `open_files[64]`, inodes and vnodes on the heap | `vfs_init`, `vfs_open`, `vfs_mkdir`, `vfs_read`, `vfs_write`, `vfs_lseek`, `vfs_close` |
| strings | `string.c` | the static pointer of `strtok` | `strtok`, `strchr`, `memset`, `memcpy`, `strcmp`, `strcpy` |
| ATA driver | `ata.c` | none; the drive has | `ata_read_sector`, `ata_write_sector` |
| interrupt set-up | `kernel.c:80-99,415-443,491-500` | IDT, PIC masks | `idt_set_gate`, `remap_pic`, `reset_keyboard` |
| paging | `kernel.c:554-571`, `kernel.asm` | the page directory, CR0, CR3, CR4 | `enable_pse`, `setup_paging_4mb_pages`, `loadPageDirectory`, `enablePaging` |
| PCI | `pci.c` | none; the machine's configuration space | `pci_init`, `pci_scan`, `pci_find_ehci`, `pci_enable_mmio` |
| DMA pool, translation | `mm.h` | offset into the pool, table of allocations | `mm_init`, `dma_alloc`, `dma_free`, `mm_dump_stats`, `virt_to_phys` |
| EHCI driver | `ehci.c` | register pointers, queue head and descriptor in the DMA pool | `ehci_init`, `ehci_init_auto`, `ehci_poll` |
| boot loaders, start-up | `*.asm` | registers | straight-line code |

How they interact. The handler and the main thread share the console, the heap, the file
system and `strtok`'s pointer, without locks. The handler never records how many characters
were typed: it pushes each one on the heap (`kernel.c:303`) and, when `f` is pressed, takes
as many bytes off the heap as the screen row has characters before the cursor
(`kernel.c:317,356`). The file system calls `malloc` and relies on every node staying where
it is; the handler's pops are the only thing that ever lowers `heap_end`. Driver calls made
by the handler poll the device with interrupts off, and the end of interrupt comes after
them. The EHCI driver takes its structures from the DMA pool and gives their addresses to a
device, which reads them behind the processor's address translation.

What is hard here, and hard to test:

* interrupts between any two accesses of the main thread: an update lost between a load and
  its store, a cursor checked and then moved, `strtok`'s place moved under its loops;
* two pieces of state that must agree but are changed by different code: the heap top and
  the screen row; the cursor and the CRT register; driver and drive in the middle of a
  transfer; a slot of `open_files` and the `file_t` in it;
* a `malloc` that fails in the middle of a call when nothing is ever undone;
* fixed-size tables with no bound check, and unsigned sums that wrap;
* devices that answer late, never, or after the driver has given them up;
* edges of the interrupt controller that come before anybody can take them;
* polling loops without a timeout, and a scan that recurses into whatever it reads.

What makes each component correct: the console never loses a character, never leaves
text behind a wipe, shows the cursor where it writes and stays on the screen; the handler
never takes or overwrites memory that somebody else got from `malloc`, opens the path the
user sees, and sees every key in order; tmpfs stays one tree with distinct names, paths
keep their meaning, failed calls have no effect, reads and writes stay in their file; a path
is split into its components, one after the other; the ATA calls move the sector they were
asked for and return; interrupts come through the kernel's own vectors; addresses mean the
same to the processor, the drivers and the devices; the PCI scan ends and reports each
function; DMA blocks are apart and aligned; a controller that runs has an intact list, and
the driver returns and tells the truth.

## 2. The modules

| module | models | extends or instantiates |
|---|---|---|
| `ScreenLine` | what the console promises: the text on the cursor's row | |
| `Console` | `print_char`, `clearScreen`, `update_cursor` at the level of bytes | refines `ScreenLine` |
| `Keyboard` | every branch of the handler, the heap and the row, kernel idle | uses `ScreenLine` for the row |
| `Strtok` | `parse_path` and `strtok`, access by access | |
| `Preempt`, `MCPreempt` | `kernel_main` from `sti` on, access by access, with keys in between | extends `Strtok` |
| `Vfs`, `MCVfs` | all of `vfs.c`; the inputs of its runs | |
| `Pci`, `MCPci` | scan and search; 480 machines | |
| `Paging` | the page directory, the processor's translation and `virt_to_phys` | |
| `DmaPool` | `dma_alloc`, `dma_free` and the pool's memory | extends `Paging` |
| `Ehci`, `MCEhci` | `ehci_init_auto`, and the controllers | extends `Pci` and `DmaPool` |
| `Ata` | both calls, and the drive | |
| `Irq` | keyboard, PIC, set-up and handler | extends `Ata` |
| `ConsoleProofs`, `KeyboardProofs`, `PreemptProofs`, `PciProofs`, `IrqProofs` | theorems about `Console`, `Keyboard`, `Preempt`, `Pci`, `Irq` | each extends its module |
| `VfsProofs`, `VfsCallProofs` | theorems about `Vfs`: its state, and what its calls do to it | the second extends the first |
| `EhciProofs` | theorems about `Paging`, `DmaPool`, `Ehci` | extends `Ehci` and `PciProofs` |

**Console.** `vm` is `VIDEO_MEMORY` as an offset, `vram` the text buffer byte by byte with
the byte below and the cell above the screen, `crtc` the cursor register as `update_cursor`
leaves it. `PrintChar` is one call with all its calls: newline, wrap, the `clearScreen` at
the last row, the cursor update. `ImplementsScreenLine` is the refinement: the row left of
the cursor, read from video memory, behaves as `ScreenLine`.

**Keyboard.** `heap_end` counts from `heap_start`; `heap` remembers what each byte was last
used for. A key is one action: `TypeKey` (echo and push), `WriteKey`, `ReadKey` (a sector of
512 bytes goes into a block of 100, and the block is printed, which may leave any text on
the row), `ClearKey`, `OpenKey` (pop, `vfs_open` and its mallocs, the messages printed). The
row is `ScreenLine`'s, which the `console` run justifies. Releases and keys without a
character change nothing and are not actions.

**Strtok** follows `strtok`'s two loops: each condition reads the static `last` afresh, and
`last++` is a load and a store. A place is an index into `parse_path`'s buffer; the handler's
parse leaves `last` at the end of the handler's path (`HandlersEnd`) or where its contents are
not known (`Stray`). `components` are pairs of places.

**Preempt.** The build does not optimise, so each `x += n` of the source is a load and a
store. `main` is the access the main thread makes next, `reg_main` its register. The stages of
`kernel_main` after `sti` are `boot` (any prints, mallocs and paths), `alloc` (the malloc after
the last `clearScreen`), `report` (what is printed on the controller), `idle`. A key is one
action, since nothing interrupts the handler; only `q` and `f` print in further steps, which
may leave the cursor anywhere a print can. `live_end` is a history variable, the end of the
last block the main thread got; `upset` and `spoilt` remember the cases a property leaves out.

**Vfs.** One action per call and outcome. Inodes are numbered as `malloc` makes them; a path
is the sequence of its components, cut to `MAX_COMPONENTS` as `parse_path` does;
flags are the set of their bits, so that `O_RDONLY` is the empty set, as 0 is. `oom` says which
`malloc` of the call fails, and the actions follow the code from there: `VfsOpenHalfDone` is
the call that has linked the new file into its directory when the next `malloc` fails.
Positions and sizes are numbers modulo `U32`; `Written` and `ReadCount` follow `memcpy`
through wrapped addresses, and `wild` records that a call left its buffer, after which the
model stops because its variables no longer describe the program. An entry past
`MAX_CHILDREN` is stored over the directory's name, as the layout of `tmpfs_inode` has it.

**Pci.** `stack` holds the scans in progress, one per level of the recursion, each with the
next function to look at. `pci_read_config` keeps the code's arithmetic on offsets, so that
the header type is read from where the code reads it. Nothing writes configuration space.

**Paging.** Boot turns on large pages, fills the directory, loads CR3 and turns paging on, one
action each. `Mmu` is the processor's translation, an external definition; `virt_to_phys` is
the walk of `mm.h`, with its own branches for large and small pages.

**DmaPool.** `DmaAlloc` keeps the code's arithmetic: the bytes skipped for the alignment, the
32-bit sums, the two bounds. `memory` is the pool's physical memory: the driver's stores, and
the `memset` of `dma_alloc`, reach it through `Mmu`; a device reads it as it is.

**Ehci.** `init` follows `ehci_init_auto`: search, the address from PCI or the next common one,
reset, the wait for the halted bit, the two allocations, the list, run, the wait for the start. A
bounded loop ends either way as long as its bit has not changed. `controllers` lists what was
found at the addresses tried, in order: a controller, something that never clears a bit, or
zeros. They reset, halt and start in steps of their own, also after the driver has gone on to
the next address. Other users of the pool (`Client`) come before and after.

**Ata.** `pc` follows the calls through their polling loops; a poll that sees BSY is a
stutter. The drive is external: it answers a command, or fails it, and commits a written
sector, each in its own time; reading the data port while it has nothing gives any word.

**Irq.** Scancodes are counted: `pressed` by the user, `sent` into the one-byte output buffer,
`handled` as the handler read them. `pic` is the master 8259 with vector base, mask, requests and
service; the timer is there because the firmware left its line open. `kernel_main` sets gates,
sends ICW1 (which forgets requests), ICW2 to ICW4 and the mask, enables interrupts and calls
`reset_keyboard`. The handler reads scancode and status, does the key's work (a whole call of
`Ata`, or nothing that waits) and sends the end of interrupt.

## 3. The runs

Bounds are the constants of each `.cfg`. Deadlock is checked in every run.

| run | question | bounds, and why they are enough |
|---|---|---|
| `console` | do the two cursors, the buffer and the row agree after any calls? | 3x3 cells, two glyphs: first, middle and last column and row differ |
| `keyboard` | can any keys take or overwrite boot's memory, or make the path differ from the row? | rows of 3, `Scratch` 2, `Sector` 3 (the overflow of `q` reaches past its block), a heap of 9 bytes: several pushes, an overflow and pops in any order |
| `preempt` | the same questions, and those of the cursor and of `strtok`, with keys between any two accesses of the main thread | 2 rows of 3 cells, blocks of 1 and 2 bytes, a heap of 5, paths with slashes in front, doubled and at the end, one longer than `MAX_COMPONENTS` = 2 |
| `preempt_open` | violated: `heap_end` is the end of the heap, with `f` during boot | same |
| `vfs_tree` | does the tree stay a tree, do paths keep their meaning, does the table follow the files, whatever fails or overflows? | 5 inodes, 2 entries per directory and 3 names (the third entry overflows), paths of up to 3 components cut to 2, a table of 1 slot for 2 files, every malloc failing in turn |
| `vfs_io` | do calls stay in their file, change only what they should, and leave nothing behind when they fail? | 2 files, 2 open at a time, 1 entry per directory (the second overflows), positions up to 2, writes of 1 and 2 bytes, seeks by -1 and 1, all three whences, mallocs failing; the two files are symmetric |
| `vfs_rdonly`, `vfs_entries`, `vfs_wrap` | violated: see section 5 | as above; `vfs_wrap` lets positions reach `U32 - 1` |
| `ehci` | is the scan right on every machine; does an address stay itself through the boot; are blocks apart; has every controller that runs a list of its own; does the driver return, and tell the truth? | 480 machines of 2 buses, 2 slots, 2 functions, with single, multifunction and bridge headers, and registers that look like them; 4 large pages of 4 pages of 4 bytes, so that the directory's addresses use all of `U32`; a pool of 8 bytes and 4 entries in the second page, room for two tries and not for three; 2 common addresses, a `bars[0]` that is set or not |
| `pci_bridges` | violated: see section 5 | same machines |
| `irq` | does every key reach the handler, in order and, but for one at most, once, does the handler return, and do its disk calls move the right sector? | 3 keys: one in the buffer at reset, one on its way, one behind; sectors of 2 words, 2 sectors, every command failing or not |

The inputs of `vfs_io` keep sums of positions and sizes below `U32`; that is the hypothesis
`NoWrap` of three theorems in `VfsCallProofs`, and `vfs_wrap` shows that it is needed.
`TreeAssumption` in `Pci` says that what the scan takes for a bridge leads to a bus of its
own with a higher number, as firmware numbers buses; without it the recursion of
`pci.c:135` need not end. `SpaceAssumption` is that reading any location gives something, as it
does on the machine.

Each property's exceptions are what the code does, found by TLC and kept as narrow as it
allows. `CursorHalfway` leaves out newlines printed by a key while the cursor is halfway:
they move it by an odd number of bytes. `BootKeepsHeapEnd` and `RowAboveLive` leave out `f`
during boot, which is the finding of `preempt_open`. `RowAboveLive` leaves out two more cases, both
within the newline that leads to the main loop: an Enter or a wipe between its two reads of the
cursor (`kernel.c:451`), after which it steps from the new place by what was left of the old row,
and a wipe just before its step over the last cell (`kernel.c:455`), which is then made on the
empty screen. In each the row may be longer than what was typed. `SectorMoved` leaves out a write the
drive fails, which returns 1 as well (`ata.c:73`). `FailedCallsPure` allows the new empty file of an
open one of whose later mallocs fails, and its pointer over the name of a full directory.
`KeysInOrder` lets a single scancode be read twice, whichever it is, if `reset_keyboard`
took a byte whose interrupt was on the way, since the handler is ahead by one reading from then on;
it claims nothing of keys before `reset_keyboard` but their order.
`InitReturns` excepts an address that reads as zeros: the wait at `ehci.c:121` has no timeout.

**Fairness.** `Console`, `Keyboard`, `Preempt` and `Vfs` assume none: nothing makes a
user press keys or a caller call, and no liveness is claimed. `Ehci` has weak fairness of
the scan and of the driver, which are straight code in one thread, and of the controllers
taken together, which end a reset and follow the run bit in their own time. `Irq` has weak
fairness of the processor (the main thread, the handler, the taking of an interrupt that is
asked for), of the keyboard controller, which passes on a byte when its buffer is empty, and of
`Ata`'s driver and drive; that a drive always ends what it is busy with is an assumption about
hardware, and the code has no timeout should it be false. The user and the timer have none.

## 4. What is proved

TLAPS proves these for every value of the constants that satisfies the named assumptions.

| theorem | says |
|---|---|
| `ConsoleProofs!ConsoleStaysTyped` | the console's state stays in its types |
| `ConsoleProofs!CursorStaysOnScreen` | both cursors are the same cell, and on the screen |
| `ConsoleProofs!NothingShowsBeyondCursor` | no text is left behind the cursor, also by a wipe that goes backwards |
| `ConsoleProofs!StepsChangeAllOrOneCell` | a call wipes the screen or changes one cell |
| `ConsoleProofs!ConsoleImplementsScreenLine` | `Console` implements `ScreenLine`, what the handler relies on |
| `KeyboardProofs!TypeCorrect` | the handler's state stays in its types |
| `KeyboardProofs!HeapStaysAboveBoot` | `f` never takes memory that boot allocated |
| `KeyboardProofs!BootMemoryStaysIntact` | no key overwrites it |
| `KeyboardProofs!PathStaysLine` | the path opened is the text on the row, if all of it was typed |
| `PreemptProofs!TypeCorrect` | main thread, handler and `strtok` stay in their types |
| `PreemptProofs!CursorStaysInReach` | a stale cursor never runs away from the screen |
| `PreemptProofs!CursorNeverHalfway` | a lost update never leaves the cursor in the middle of a cell |
| `PreemptProofs!HeapEndStaysEnd` | until the main loop starts, no key but `f` moves `heap_end` into a block |
| `PreemptProofs!RowStaysAboveLive` | in the main loop what `f` would take off the heap lies above every block, but after the three cases of section 3: `f` before the main loop; an Enter or a wipe at `kernel.c:451`, or a wipe at `kernel.c:455`, in the newline that leads to it |
| `PreemptProofs!ComponentsStayInOrder` | `parse_path` is given the components of its path in order, whatever `f` does to `strtok` |
| `VfsProofs!TypeCorrect` | the file system's state stays in its types |
| `VfsProofs!TreeStaysATree` | tmpfs stays one tree |
| `VfsProofs!SiblingNamesStayDistinct` | no directory holds a name twice |
| `VfsProofs!HandlesStayOnFiles` | a `file_t` leads to a file of the tree |
| `VfsCallProofs!TableAlwaysFollows` | a file opened while a slot is free takes one that was free, one closed leaves its slot, and no call touches the slot of another file |
| `VfsCallProofs!PathsStayStable` | a path that leads to an inode leads there ever after, while directories do not overflow |
| `VfsCallProofs!CallsStayInFile` | no read or write leaves its file, if no sum wraps |
| `VfsCallProofs!WritesStayInPlace` | a write changes no byte but its own, if no sum wraps |
| `VfsCallProofs!FailedCallsStayPure` | a call that returns -1 changes nothing at all, or has added one new empty file to a directory that had none of its name and changed nothing else, but the name of that directory if its entries were full; if no sum wraps and no position is `U32 - 1` |
| `PciProofs!PciStaysTyped` | scan and search stay in their types |
| `PciProofs!ScanAlwaysReports` | on bus 0, and on each bus that a reported function it takes for a bridge leads to, a scan reports function 0 of each device, and the other functions of each device it takes for one with several, once, and nothing else; what it takes for these it reads in the wrong byte (`pci.c:69`) |
| `PciProofs!SearchAlwaysFindsFirst` | the search finds the first controller, or there is none |
| `EhciProofs!DriverStaysTyped` | scan, paging, pool, driver and controllers stay in their types |
| `EhciProofs!ScanReportsToDriver`, `EhciProofs!DriverFindsFirst` | the two theorems on PCI hold with the driver and its controllers beside |
| `EhciProofs!AddressesStayIdentical` | through the whole boot an address leads to itself, for the processor and for `virt_to_phys` |
| `EhciProofs!BlocksStayApart` | blocks of the pool are in it, aligned and apart |
| `EhciProofs!ListsStayIntact` | a controller that runs has a complete list of its own, also one that was given up |
| `EhciProofs!InitializedStaysTrue` | `initialized` stands for a running controller with the driver's list |
| `IrqProofs!TypeCorrect` | keyboard, PIC, handler and drive stay in their types |
| `IrqProofs!VectorsStayOwn` | interrupts are taken through the kernel's own vectors only |
| `IrqProofs!TransferStaysInStep` | driver and drive are at the same word of the same transfer |
| `IrqProofs!SectorsAreMoved` | a read that returns 1 has moved its sector, and so has a write unless the drive reports an error, which the driver does not look at |
| `IrqProofs!WritesOnlyHitTheirSector` | a drive changes no sector but the one a write names |
| `IrqProofs!KeysStayInOrder` | from `reset_keyboard` on no key is lost, none comes after a later one, and one at most is read twice |

*Console.* `ConsoleInv` adds to the properties of the run that the cells of the cursor's row
before the cursor show glyphs (`RowShown`). That is what a refinement needs in which the line is
read back from video memory: `LineNext` takes each call to the step of `ScreenLine` it stands
for, `StorePuts` where the call stores one cell, `WipePuts` where it clears the screen, and a
newline begins an empty row because nothing shows beyond the cursor.

*Keyboard.* The assumption that carries the argument is `Scratch + 1 >= Cols`
(`BufferAssumption`; 100 and 80 in the code): the text `q` prints cannot be longer than the
block it mallocs, so the row can never be longer than what lies above boot's heap. `PathIsLine`
is not inductive: after `f` or backspace nothing says what the bytes below the row are.
`SuffixOnHeap` states the same for every suffix of the row that was typed, and is.

*Preempt.* The handler enters the argument through one lemma, `InterruptMoves`: whatever it
does, it leaves the main thread's registers alone, puts the cursor back on the screen or where
it was, and takes nothing off the heap during boot but by `f`. Against that the invariant says,
for each access the main thread may make next, how far its cursor and its register may be off
the screen (`ReachInv`), which of them is odd (`HalfwayInv`), that malloc's result lies below
what it takes for the end of the heap (`HeapInv`), and that `strtok` steps on only from inside
the path (`StrtokInv`). The bounds of `ReachInv` differ by one from access to access; none of
`CursorInReach` alone is inductive. `LastCell` and `OnScreen` are the arithmetic of C's
division.

`RowInv` follows the row through boot's last newline, whose loads and stores a key may come
between: the cursor to come is the head of a row, and past it by at most a cell for each key
typed meanwhile (`Following`, `Trail`), and each of those keys has pushed a byte above the last
block (`Room`), so that the row can only be longer than the room where a key moves the cursor by
more than a cell at one of two places within that newline, the cases `Spoils` names. `PathInv` counts: between
two components as many of them start before `strtok`'s place, and as many end there, as
`parse_path` was given (`SkipInv`), in a component the next one is under way (`TokenInv`,
`ScanInv`), and its end is the one `strtok` cuts and returns (`CutInv`, `ReturnInv`). Between
the load and the store of `last++` the place counted is the one in the register. An `f` that
moves `last` off the path moves it for good: the component under way may then run on to the end
of the path, but all that follow are `Foreign` (`GivenInv`), and without such an `f` nothing is
left out at the end (`UnmovedInv`). Which component is the n-th is said by cardinalities
(`Nth`), so nothing is shown by induction over the path; `NthUnique`, `StartsNext` and
`EndsNext` are what the steps need of them.

*Vfs.* The invariant `Inv` joins `TreeInv` (types, shape, distinct names) and the invariant of the
open files. Two conjuncts are there only for induction: `ChildrenInOrder`, a directory's k-th
entry is an inode with a number above k, which bounds how far `children` overflows; and
`VrefsCount`, the reference count of an open file's vnode is 2, of a closed one's 1, without which
the decrement at `vfs.c:278` might leave its type. `SiblingNamesDistinct` has to allow for names
overwritten by an overflow. No proof walks a path: `ReachesUsed` shows that whatever a lookup
returns is the root or a child of a directory, and the invariant speaks of those.
`PathsStayStable` rests on `KeepsLookups`: a step leaves what a lookup reads of an existing inode
as it is, but for one more entry at the end, so each lookup of a walk finds the same first match.
`TableAlwaysFollows` rests on `OpenTableSound`, which `Inv` holds too: the table has open files
only and none twice, so the slot a close empties is the only one of its file. `CallsStayInFile`
and `WritesStayInPlace` strengthen `Inv` by bounds on positions and lengths (`IoInv`), from which
every sum modulo `U32` is exact. `FailedCallsStayPure` needs them too, and besides that no
position is `U32 - 1`: `vfs_lseek` returns the new position, and that one, returned as an `int`,
is the -1 of a failed call that has changed the position.

*Pci.* On a machine of any size whose buses form a tree, the invariant of the recursion
(`ScanInv`) says of the stack that no bus has two scans on it (`OnceInv`), that every bus but 0
was entered through one bridge, which is reported (`EnteredInv`), and that nothing reported lies
ahead of the scan of its bus (`BehindInv`). A bridge is thus entered when it is reported and never
again, which is what keeps a function from being reported twice. `CoverInv` is what nothing may be
missed by: what is to be looked at on a bus the scan was led to is reported, or still ahead of the
scan of that bus; `LookedInv` is the converse, nothing is reported that is not to be looked at.
`SearchInv` says that the slots passed hold no controller. `PciPart` shows that the driver's steps
leave all of that alone, so both hold under it.

*Paging, pool and EHCI.* `PagingAssumption` (`U32` is as many bytes as the directory covers) makes
the directory the identity although its products are computed in an `int`, where they overflow
from the middle of the directory on (`ProductUnsigned`: the wrapped product, taken as unsigned, is
the right one); `PoolAssumption` says that the pool is in memory and no request so large that a
sum wraps. The blocks are in the order they were cut off, each behind the last, and that is what
is inductive. For the lists the invariant gives every controller that was told to run, whether it
has started or not, a complete list below the pool's offset, and the lists of earlier tries below
the queue head of later ones (`ListsInv`); so what a later try clears and writes lies above all of
them. `StageInv` says how far the list of this try is, and `StatusInv` what the driver knows of
the controller. Since `controllers` grows with each try, the theorem covers any number of
addresses. `FlowInv` adds where `ehci_init_auto` stands and which address it tries;
`EhciAssumption` says that none of the common addresses is 0, which the driver takes for none.

*Irq and Ata.* `DriveInv` ties the driver's place to the drive's state: the words left in the
drive are those the driver has not moved, those moved are the head of the sector, and a command
the drive works on is the one the driver waits for; without it a status read twice could belong
to two commands. `GateInv` is what the mask and the vectors are at each stage of the set-up. For
the order of the keys, `ReadInv` ties the output buffer to the requests of the interrupt
controller and to the handler: in the main loop a scancode that waits has an interrupt asked for
or a reading under way, and a reading for which nothing waits (`Surplus`) can only be the one
that `reset_keyboard` was too early for; the last scancode that can have been read is the last
one sent, or the one before if that still waits (`Top`).

Only model-checked: liveness (`ScanEnds`, `InitReturns`, `EveryKeyHandled`), since the prover
has no means for fairness, and the counterexamples of section 5. Every other property of a
passing run has its theorem. What `ScanReports` says of bridges and of devices with several
functions is about those the code recognises; that it does not recognise the right ones is the
finding of `pci_bridges`. Induction over data is beyond the provers, and nothing above rests on it: a
lookup is stated by the nodes on its way (`Reaches`) and the n-th component by counting (`Nth`),
not by recursion, and the theorems on them say what a step preserves.

## 5. Disagreements between the code and what is written about it

Each is the counterexample of a run.

* `preempt_open`: `f` pressed while the kernel boots takes the length of boot's own text
  off the heap, and `heap_end` moves into memory in use, boot's own (`kernel.c:356`).
* `vfs_rdonly`: `O_RDONLY` is 0, so `flags & O_RDONLY` is never true and a file opened for reading
  only cannot be read (`vfs.c:508`).
* `vfs_entries`: the 65th entry of a directory is stored past the array (`vfs.c:205` in the trace,
  which makes a directory, and `vfs.c:157` likewise for a file).
* `vfs_wrap`: after a seek to -1 the sum at `vfs.c:242` wraps, the file is not extended and the
  bytes are stored outside of it; the sum at `vfs.c:223` wraps likewise for a read.
* `pci_bridges`: the header type is read from the wrong byte of its register (`pci.c:69`), so
  bridges and multifunction devices are not recognised.

Seen while modelling, built into the models and given no run of their own:

* with the table full, `vfs_open` succeeds without a slot (`vfs.c:492`; `AddFile` keeps the branch
  and `TableFollowsFiles` holds nevertheless); a vnode's count never reaches 0 (`VrefsCount`);
  components past the 16th are dropped (`Return`);
* the EHCI search looks at function 0 of each slot only (`Search`; `FindsFirst` speaks of those);
* an Enter between the two reads of the cursor in boot's last newline leaves the cursor further to the
  right than was typed (`Spoils`; excepted in `RowAboveLive`): an `f` that comes next takes more bytes
  off the heap than keys have pushed;
* a write the drive fails returns 1 (`Settle`; hence the `~dev.err` in `SectorMoved`);
* `reset_keyboard`'s command 0xFF makes the keyboard controller do nothing, and the byte it reads
  as the answer is a key's (`ResetKeyboard`); if that key's interrupt is already on the way, the
  handler reads the byte again, as a key of its own (`raced`);
* a controller that starts late, after `ehci.c:145` has given it up, runs on with the list of its
  try (`ControllerStep`); it is never stopped;
* bus mastering is turned on only for a controller that PCI found; one found at a common address
  may not be able to read its list (`enabled`, in `InitializedRuns`);
* the head bit of the queue head is set as bit 30 (`ehci.c:57`), where that field is the
  multiplier; the models do not look into a queue head's fields;
* the kernel does not link `ehci.c`, and its calls are commented out (`kernel.c:184-193`); `Ehci`
  models the calls as that comment has them. `mm.h` defines the pool in every file that
  includes it, each with its own copy; `DmaPool` is the copy of `ehci.c`.

## 6. What is not modelled, and the plan

Not modelled, in parts that otherwise are: `ehci_poll`, the number of ports, `mm_dump_stats` and
`pci_dump_device` only print; `mm_init` sets what is zero already; `enable_cursor` and
`disable_cursor` choose the cursor's shape; `put_pixel` is for a graphics mode the kernel never
enters; the memory test of the boot writes one byte and prints whether it stayed. `memset`,
`memcpy`, `strcmp` and `strcpy` are modelled by what they do where they are called.

Left out for good: the boot loaders and start-up assembly (straight-line code before any
state is shared; the firmware does the work), `main.c` (an earlier kernel the build no longer
compiles), what `kernel.asm` keeps of it besides paging and the interrupt wrapper, the splash
screen and the delay loop, the colours of cells, the wording of messages, the contents of the
PCI vendor and class tables, and stack frames: where the compiler puts a buffer is not in the
source, and so neither is what an overrun of it or a read below the stack pointer meets.

What could come next, in order of weight:

1. the calls of `vfs.c` access by access, for a handler that opens a file while boot's own call
   is in the middle of linking one (`vfs.c:157`);
2. **AbstractFs**, a map from paths to contents, refined by `Vfs`, and the proof of the refinement
   from the invariants of `VfsProofs` and `IoInv`;
3. the boot's file-system calls composed with `Preempt`, so that `live_end` follows their mallocs one
   by one.
