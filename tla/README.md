# TrollOS in TLA+

A verification project for the TrollOS kernel: TLA+ modules of its core, the
configurations with which TLC checks them, and proofs that TLAPS checks.

TrollOS is a small Unix-like kernel for a 68040 board. It is one address space
with one stack and no threads of its own: the kernel runs when a process traps
(`trap #10`), when the VGA interrupt ticks, or at boot, and masks interrupts
while it runs. What is hard in it is therefore seldom two things at once. It is
what one system call leaves behind for another process to find (the root
pointer, the registers, a shared file entry), what a call leaves behind when it
fails half way, which order of earlier calls a list or a counter remembers, and
what happens when a table or the memory is full. Only the debugger stub talks to
another machine, over a line that may lose characters.

## 1. The system

| Part | State | Operations | Called by / calls |
|---|---|---|---|
| Frame manager, translation trees (`mmu/mmu040.c`) | free list of frames and its counter, a three-level tree per process, the root pointer registers, a stack of ten mapper pages | init, clear, free, clone, switch a userspace; allocate a page at an address | called by processes, `execve`, the ELF loader and the heap |
| Processes (`process.c`, `process.S`) | table of processes with saved registers, current process, last number given out | create, exit, wait, switch, save context, scheduler, timer entry | called by system calls and the timer; calls the MMU and the heap |
| System calls (`syscall.S`, `syscall.c`, `syscall/`) | a flag that asks for a context switch | fork, execve, exit, open, read, write; others return 0 | called by user code; call everything below |
| Heap (`util/mem.c`) | free lists, four of them "quick", headers in memory, end of the heap | `kmalloc`, `krealloc`, `kfree`, `ksbrk` | called by everything; `ksbrk` calls the MMU |
| VFS (`vfs.c`) and romfs (`modules/fs/romfs.c`) | file system types, mount table, global file table; romfs instances | mount, stat, open, open a device, read, write, seek, close | called by system calls and boot; calls devices |
| Boot (`kernel.c`) | | mounts the root, loads `/sbin/init`, jumps to it | calls everything |
| ELF loader (`modules/binformat/elf.c`) | | load a file into the designated tree | called by boot and `execve`; calls the MMU |
| Console (`modules/chardev/console.c`, `console-fb.c`) | escape-sequence parser, cursor, colours | write | called through the device |
| Devices (`device.c`, `modules/chardev.c`, `modules/blockdev/memblk.c`) | registry, queue of blocked readers, memory blocks | register, look up, read, write, wake up | called by the VFS |
| Debugger stub (`gdb-stub.c`, `debug.c`) | a stack of exception frames in an array, the registers of the program, two buffers, the handler of bus errors it borrows | catch an exception, receive and answer commands, continue | set up by `main()` if the kernel was given `debug`; talks to gdb |
| Module registry, devfs, SD card, SPI, UART | | | not started by `main()`; the SD card driver is not compiled |

`PROJECT.json` lists every part with its source files and says of each whether
it is modelled, and the hazards of each at their line.

What makes the parts correct:

* **Frames.** A frame is in one place only; what a failed clone built can still
  be freed; the list and its counter fit together; the mapper stack does not
  overflow; every loop ends. All of this is one promise to the rest of the kernel:
  a store of frames each of which has one owner or none.
* **Images.** What the loader puts into memory is the file; a clone has the
  contents of its original; a process sees its own stores and what it was forked
  with, and of others only what the code lets through: its parent's stores between
  the fork and the next switch, and those of a thread that exited into it.
* **Processes.** Whoever runs has its own registers and its own tree, and the
  kernel sees that tree; every running process gets the processor again; fork
  answers when the table is full; execve replaces the image of its caller and of
  nobody else but the newest process and the one an exited thread runs as.
* **Heap.** Blocks do not overlap, are not on two lists and are long enough;
  free neighbours are joined; nothing is lost; calls return.
* **Files.** A descriptor leads to an open entry and keeps leading to the same
  file; a position stays inside its file; entries are not lost; path resolution
  finds what the mounts say.
* **Console.** Whatever is written, the parser stores its arguments where they
  belong and counts them, and the cursor and what is drawn stay on the screen, which
  shows the end of the text.
* **Debugger.** Saved frames stay inside their array, a return never goes
  through an empty one, the program gets its bus errors back; a command arrives as
  it was sent, once, and its answer is taken for its answer.

Several of these do not hold of the code as it stands. Where the code comes
short of one, the model says what it does, and the property says how far the
promise goes (for instance, `OwnRegisters` says that whoever runs is the process
the table says or one that has exited, since `exit` returns to its caller). Where the code comes short of what
it says about itself, a run shows the counterexample (section 5).

## 2. Modules

| Module | Models |
|---|---|
| `FrameStore` | what the frame manager promises: an abstract specification |
| `Mmu040`, which implements `FrameStore` | `mmu/mmu040.c` |
| `Image`, over `Mmu040` | `modules/binformat/elf.c`, contents of frames, and what boot, `fork`, `exit` and `execve` do to them |
| `Process` | `process.c`, `process.S`, `syscall.S`, `fork`, `exit`, `execve`, bus errors |
| `Allocator` | what the heap promises: an abstract specification |
| `Heap`, which implements `Allocator` | `util/mem.c` |
| `Vfs` | `vfs.c`, `romfs.c`, `open`, `read`, `write`, and what `fork` and `execve` do to file tables |
| `ConsoleFb` | `modules/chardev/console-fb.c` |
| `Console`, over `ConsoleFb` | `modules/chardev/console.c` |
| `GdbFrames` | `gdb-stub.c`: exceptions, commands, the way back |
| `GdbLink` | `gdb-stub.c`: packets, with the host and the line |
| `MCMmu040`, `MCImage`, `MCProcess`, `MCHeap`, `MCVfs`, `MCConsole`, `MCGdbFrames`, `MCGdbLink` | bounds for TLC |
| `Screen`, over `ConsoleFb` | plain text on the frame buffer beside the same text on paper |
| `Image_proofs` (with `Mmu040`), `Process_proofs`, `Heap_proofs`, `Vfs_proofs`, `Console_proofs` (with `Screen`), `GdbFrames_proofs`, `GdbLink_proofs` | theorems |
| `NumberLemmas` | induction, recursion and division, for the proofs |

Definitions whose comment calls them *a faulty variant* stand beside the one they
vary. They are used by no specification: substituted for the original, they
show that a property would notice that mistake.

### Mmu040

A tree is a function from nodes, numbered in the order in which the nested
loops of the code visit them, to a frame, `NULL` (physical address 0, the ROM,
which is what an untested failed allocation leaves behind) or `INVALID`. `free_frame` is the list
as a sequence and `free_frames` the counter that `_alloc_frame` trusts. Each
call of `_alloc_frame` or `_free_frame` and each end of a loop is a step; `op`
says which table's loop the running operation is in. Operations do not
interleave, because interrupts are masked, but any allocation may fail in the
middle of one. `wild` records that the hardware began to walk a table nobody
wrote; nothing more is said of such a run.

`_build_free_frame_list` scans the boot loader's tables for the frames it must not give
out; which frames those are is the constant `Boot`, and the list is what the scan
leaves. Cache modes and write protection are left out, and the contents of pages are left
to `Image`. `mmu040_copy_from_userspace` and `mmu040_copy_to_userspace` have no
caller, and `mmu040_free_at` only panics.

`FrameStore` says what all this is for: a set of free frames and a set of frames
per address space, all disjoint, with steps that take a free frame, give one back,
or forget the free ones. `Owned` and `Listed` map the state of `Mmu040` to it, and
`ImplementsStore` is its specification under that mapping. Forgetting is there
because the code does it: "freeing" the ROM, mapped as a page once memory was
exhausted, makes it the head of the list, whose link reads as the end.

### Image

Adds to `Mmu040` what is in the frames, and puts its operations together the way
the kernel calls them: process_create and elf_load at boot; process_create, clone
and, if that fails, process_exit in `fork`; clear and elf_load in `execve`; switch and
free in `exit`. Each call runs to its end before the next begins; each allocation
in it is a step. A page has `P` cells; a cell holds zero, a byte of a file, what a
process wrote, the link word that `_free_frame` leaves, or part of a descriptor.
`call` says which part of a call comes next and, in the loader, at which section and
in which turn of `alloc()`'s loop it is. `Turn` gives the locals of `alloc()` in each
turn, and `Written` what `mmu040_fill_frame` does with them. The loader loads into
whichever tree the register designates, as the code does. Where the bytes of a
section run over the end of their page they go into the next mapper page, which still
maps a table: that ends the run (`"spilled"`). The file's header is good or bad by
choice, and a section header is its address, type, flag, offset and size; its pages
are pages of the user space (`FileAssumption`).

`current` is `_process_current`, which is not always the address space the register is
at: after `fork` the caller runs on with the register at the child, and after `exit`
the thread that exited runs on as the process made current. A store goes where the
register is (`Write`) and is labelled with the thread that makes it. `thread` (who
runs), `saved` (whose registers each entry holds) and `heir` (whose stores each address
space may show) are history; a thread has a new name whenever it changed its place, so
that `Isolated` can tell what a parent stored before the switch after a fork from what
it stored later. `execve` ends in a context switch (`ForcedSwitch`), the load at boot
does not. If the register is at a root table in the ROM or on the free list, nothing is
said of where a store goes (`WriteNowhere`).

### Process

One action is one trap or one tick, from the save of the registers to the
`rte`. `reg[p]` is the process whose execution the saved registers of `p`
continue, `cpu` the one the processor continues: both are `p` unless the code
mixed them up. `urp` and `window` say whose tree the user root pointer
designates and whose tree `map_current_userspace` copied. `image[p]` says what
the tree of `p` maps. An allocation succeeds or fails by choice. `halted` says how
the machine stopped: a panic, an endless loop, a bus error, a resume in
supervisor mode, or an address nobody set.

After an exit `cpu` is not `current`: the exited thread runs on. Whatever it does is
an action like any other, so a trap saves its registers over those of the current
process, and an `execve` of it gives that process an image it never asked for
(`"foreign"`). The search of `process_create` is `Turn`, `FreeAt`, `RefusedAt` and
`Endless`, by the candidates the loop tries; `refusals` counts how often it ended in
`-EAGAIN`. The switch that `execve` forces pops a frame at the user's frame pointer after
the `unlk` of `int_syscall`: whether that is a frame the `rte` accepts is a choice
between `Execve` and `ExecveHalts`. The system call number `SYSCALLS`, which
`syscall_stub` lets pass, is `SyscallBehindTable`.

`process_wait` has one caller, `fork` after a failed clone, for a process that
is already a zombie; its blocking branch is not reachable and not modelled. So
no process is ever blocked.

### Heap

A header at address `a` is `size[a]` and `next[a]`; the pointer to a pointer
`iter` with which the code walks is `NULL` at the head of the list and
otherwise the header whose `next` it points at. One action is one turn of a
loop, so a circle of `next` pointers is a run that never becomes idle. The
strategy is the one the build selects, quick fit. `ksbrk` always grants memory,
as it does in the code. The constants are aligned to the word, there are at most the
four quick lists of the build, and a page holds a block of each (`PageAssumption`; the
build has pages of 4096 bytes and quick blocks of up to 64): otherwise the loop that
cuts a fresh area would not turn and would put the area on the list uncut.

`Allocator` says what callers may rely on: blocks are given that are long enough and
overlap none that is held, and as long as a block is held nothing writes into it, not
even between two turns of a loop. `Blocks` (the lengths of the blocks callers hold) and
`Headers` (every word the heap writes) map the state of `Heap` to it. Of what is free
it promises nothing: the heap loses memory, as `heap_lost` shows.

### Vfs

One action is one system call or one call of `vfs_mount`. An image is the
kind, size and children of each inode. A path that starts with `/` is the
sequence of what stands between slashes, with `Nothing` where nothing stands, which keeps the
cases the code treats apart: repeated slashes at the start, in the middle and
at the end. `vfs_mount` is called by `main()` for the root; the model lets it be
called at any time, for directories and files, as its interface allows.

A read moves the position of a file or of a memory block (`memblk_read`, for device
nodes of a romfs); the console cannot be read. `process_exit` does not close files, so
an exit changes nothing here and is no action: who exited keeps all it held, and, as
the scheduler does not pass over zombies, may even go on making calls.
`OrphansNeedFullTable` therefore does not count what exited processes hold.

Not in the model: names longer than `NAME_MAX`, `vfs_read_directory` (no caller),
decoding of romfs headers.

### ConsoleFb and Console

One action takes one character. All writers, the kernel log included, share
one `parse_state`, so the model lets any character follow any other. The
fields behind `arg` are part of the state: `arg[MAX_ARG]` is `argc` and
`arg[MAX_ARG + 1]` is `a`. A store to `arg[MAX_ARG]` changes `argc`
behind the compiler's back; whether the optimised code reads `argc` again before
it tests it is a choice in `ArgcAfter`. A store anywhere else sets `wild`.
The screen is a grid of cells; `outside` records a write beyond the frame buffer. Cursor
arithmetic is unsigned, modulo `WORD`. Glyphs and colour maps are left out, and
`clear_on_line` is an empty stub in the code.

`given` (the arguments of the running sequence) and `text` (no sequence was
carried out yet) are history that only properties and bounds read.

`Screen` writes plain text to the frame buffer and, step by step, on paper without
end that has as many columns: a set of letters with their line and column. A letter
goes over the one that is there, a carriage return goes back to the first column.

### GdbFrames

One action is one exception, one command, or one of the three parts of the
commands `m` and `M` (install the handler, then end or fault). The list the code links
through `previous` is the sequence `frames`, oldest first, each with its address
in the array, so that overlap and bounds can be stated in bytes. `exceptionSize` is
the table the build uses, that of the 68040. The frame at the end of the list is
part of the sequence, with pc, vector and size 0 as in a static array. The handler
that was installed before the stub, `_hook`, is empty in this kernel, so the branch
for a program counter it changed is not reachable. Registers other than the program
counter, and the conversion to and from hex, are left out, and with it a request of `m`
for more than 199 bytes, whose reply would run over `remcomOutBuffer`: gdb asks for less.

The build has `-m68040`, so `SAVE_FP_REGS` is compiled in and `fsave` writes the state of
the FPU below `lastFrame` first: 4 bytes if no FPU instruction is unfinished, up to
100 if one is. Its size is a choice of each exception (`FpBytes`). A record that
reaches below the array may or may not hit something the stub needs: both happen in
`Stop`.

### GdbLink

One action is one character read, with all the characters written before the next
read. `getpacket` is a state machine over its locals (`Scan`); its buffer is kept
from packet to packet, as in the code, because `buffer[2]` is looked at behind the
end of a short command. Base and sums are parameters: `Byte` is the square of the
number of digits. A command is carried out and answered in one step, whether it is
a question or lets the program run until the next exception. The session begins when
the host has acknowledged the report of the stop. Digits are those of `hexchars`; that
`hex` also reads the capital ones is left out, since nobody sends them.

The host is gdb, which is not part of the repository. It is modelled by what the
stub's protocol expects of it: repeat on `-` and when nothing comes in time, ask
again with `-` for a damaged reply, drop an old reply while waiting for `+`. The
line loses or damages a character before it is read. `TimeOutEarly` is a host that
gives up while the answer is still under way. `marked` is history: there was a `:` in
third place of the buffer.

A sum of eight bits cannot tell every damaged packet from a good one. If the start of a
packet (`$`) or the end of its text (`#`) is read in the middle of one, what is compared
is the sum of another part, or other characters as its digits. `TellsMarks` says of a
text that neither comparison succeeds by accident, and `NoiseAssumption` that the texts
of a session are such; of any other damaged character the sum itself tells.

## 3. Runs

| Run | Module, config | Expect | What it asks |
|---|---|---|---|
| `images` | `MCImage` | pass | boot, fork, execve, exit and heap growth until memory runs out: frames, trees and what is in memory |
| `ram_used` | `MCMmu040`, `MCMmu040Ram.cfg` | violation | is the RAM in use reported correctly? |
| `processes` | `MCProcess` | pass | every interleaving of ticks and system calls |
| `user_mode` | `MCProcess`, `MCProcessMode.cfg` | violation | do resumed threads run in user mode? |
| `heap` | `MCHeap` | pass | every sequence of allocations and frees |
| `heap_lost` | `MCHeap`, `MCHeapLost.cfg` | violation | can freed memory be allocated again? |
| `files` | `MCVfs` | pass | opens, reads, forks, execs and mounts with both tables at their limit |
| `paths` | `MCVfs`, `MCVfsPaths.cfg` | pass | path resolution against a reference |
| `console` | `MCConsole` | pass | every stream of text and escape sequences |
| `screen` | `Screen` | pass | does the screen show the end of the text? |
| `gdb_frames` | `MCGdbFrames` | pass | every order of exceptions, commands and continuations |
| `gdb_link` | `MCGdbLink` | pass | commands and replies over a bad line |

Run one with `tlc -workers 2 -config MCHeap.cfg MCHeap`.

### Bounds

* `images`: 18 frames, 4 of them the boot mappings, two processes. A tree has two
  page tables, of two pages and of the stack page, so that clone and clear leave one
  loop and enter the next. One process takes up to seven frames, so that two fit
  exactly and memory runs out at any level of a clone or a load once the heap has
  grown or, as the counter is never raised, once something was freed. Five calls
  after boot suffice for fork, exit, another fork that meets freed frames, execve
  and a write. Pages of four bytes, a buffer that starts at a page boundary or just
  before one, and four files: text up to the end of its page with a bss section;
  two sections in one page and one of a page and a half; a section across the end
  of a page; not an ELF file. 10 mapper pages, as in the build.
* `ram_used`: trees of one path from root table to page.
* `processes`: four entries: init, process 1 whose exit panics, and two that
  may exit around each other and run on. `LastBound` lets the table fill up, be
  refused once and be asked again, which is where the unreduced counter matters.
* `heap`: three quick lists and a general list; sizes that fall into the first
  quick list, into one whose blocks are split, and into the general one, none a
  multiple of the word; a heap of two grants; up to three blocks held. `heap_lost`
  has no request that a quick list serves, so that every byte is accounted for, and
  four blocks, which the loss needs.
* `files`: two processes, three free global entries and two free descriptors
  each, so that each of the two limits is met first in some runs; a file of
  each image, a directory, the node of a memory block and one without a driver.
* `paths`: every path of up to four components from five names, one of them
  empty and one unknown, under up to three mounts beyond the root, mounts inside of
  mounted images and on a file included. Where something is mounted on the root
  directory of an image nothing is stated (`RootsUncovered`): there the code and any
  reading of repeated slashes part, as section 5 says. Three opens suffice, since the
  answer depends on the mounts only.
* `console`: a screen of two by two, so that every cell is a border, and two
  rows below it for line feeds; `arg` with two elements instead of ten, and up to
  four arguments, which is the first store through a wrong `argc`. The digit 3
  gives the arguments 3 and 33: a movement beyond the screen, a colour, an `argc`
  just past the end and one far past it. `WORD` is 2^16, which leaves the same
  remainder as 2^32 modulo the three columns and rows of `_set_cursor`.
* `screen`: eight characters fill a screen of two by two twice.
* `gdb_frames`: an array of 160 bytes instead of 2000, in which two large frames or
  a few small ones come too near to the start; exceptions of three sizes, with
  the vectors the command `c` treats apart and FPU states of 4, 52 and 100 bytes;
  addresses two bytes apart, and 0.
* `gdb_link`: four digits, so sums modulo 16, with codes that differ modulo 16; a
  command of one character after one of three, so that the end of the first is
  still in the buffer; up to two faults of the line, one of them damage, and one early
  repetition. Noise is every character the receivers treat apart, and a digit.

Counters that grow without limit in the code are capped by constants named
`...Bound` (`LastBound`, `HeapBound`, `LiveBound`, `OpenBound`, `RowBound`,
`ArgBound`, `GivenBound`, `TextBound`). In `Heap` and
`Vfs` values at a cap only keep callers from asking for more.

### Deadlock and fairness

Every run checks for deadlock. A machine that has stopped for good stutters
explicitly (`Wild`, `Halted`, `Rest`, `Lost`), as does a session of the debugger that
has ended (`Finished`).

Four liveness properties are checked:

* `CallsEnd` (frame manager and loader) and `CallsReturn` (heap) assume weak fairness of the steps of an
  operation that has begun. The kernel runs with interrupts masked and waits for
  nothing: the processor simply goes on.
* `EveryoneRuns` assumes weak fairness of the tick. The VGA interrupts at every
  picture and user code runs in user mode, where it cannot mask it. (Where a
  thread is resumed in supervisor mode the machine counts as stopped.) Nothing is
  assumed of what processes do.
* `EveryCommandAnswered` assumes that both ends keep reading and that the host does
  not wait for ever. The stub polls with interrupts masked and does nothing else;
  the time limit is gdb's. Nothing is assumed of the line, which may lose
  the characters it likes, up to its bound.

## 4. Proofs

`tlapm Image_proofs.tla` and the same for the other modules named `..._proofs`
check them. They hold for every value of the constants the assumptions allow: any
number of frames, any tree of tables, any number of processes, any screen, any size
of the debugger's array and buffer.

**Frame manager.** Assumed: the mapper stack has at least eight pages; nodes are
numbered in preorder with levels one apart; the boot loader's tree is closed and
lies in the boot frames. None of the safety properties is inductive. Whether the counter
is covered by the list depends on a frame not being freed twice and on
"freeing" the ROM, which truncates the list; so `ListInv` carries exclusiveness
and the fact that a descriptor to the ROM exists only once the counter is zero
(`NullMeansExhausted`). The mapper stack's height depends on how deep the running operation
stands, so `OpInv` gives it per kind and level, and says which tree and
which tables the operation may assume resident. `CloneInv` says that whatever
the clone has passed is complete. `IInv` is the conjunction. Three lemmas
describe the only ways a frame moves (`TakeMove`, `GiveMove`, `NullMove`), and
each action is a lemma of its own on top of them. The theorems are type
correctness, `AllocNeverUnderruns`, `FramesAreExclusive`, `TreesStayClosed`,
`MapperNeverExhausted`, `CloneCopiesAll`, `FramesAreKept` (an action property)
and `RomTablesNeedExhaustion`.

**The store.** `StoreImplemented`, in `Image_proofs` too, states that `Mmu040`
implements `FrameStore`: `Spec => ImplementsStore`. It rests on `IInv` above, since a
step that gives a frame back gives back one its tree owns only because nothing is
in two places. Lemmas say what the state functions `Listed` and `Owned` become
under the ways a frame moves; then every action is a `Take`, a `Give`, a `Forget` or a
stutter. Replacing the frame of a resident page while memory lasts is a stutter: the code
frees it and is given the same frame again. TLC checks the same property in
`images`, where the calls of the kernel drive `Mmu040`.

**Images.** Assumed: pages of at least two bytes; every page of the user space has a
node of its own that is a page of the tree; sections are section headers with pages in
the user space. `CallsUseTheFrameManager` (`ImageSpec => Spec`) shows that each step of
boot, `fork`, `exit`, `execve` and the loader is a step of `Mmu040` or leaves it alone, so all
theorems above hold of them. `ProcessesAreIsolated` needs that what a step writes into
one frame is seen through one descriptor, which is exclusiveness again; that while a clone
runs the child may show all its parent may (`CloneHeir`); and that the thread that runs
may be shown wherever the register is (`ThreadsSeen`): in the current process and, after
a fork, in the child, whose heir contains the parent's from `process_create` on
(`ForkHeir`). `ClonesAreFaithful` rests on what
was copied so far (`CloneSame`) with the shape from `CloneInv`. `FilesAreLoaded` needs
more, since `elf_load` allocates the page of a section again when a later section asks
for it: `LoadAt` says that an allocation under way is for the page of the current turn,
`SoFar` that every turn already done whose pages no later section asks for
has left the bytes it should, whichever address space is designated. It remains to compute which byte of
the file a turn put at an address; that is the division with remainder of `NumberLemmas`.

**Debugger, frames.** Assumed: an array with room for the margin of three frames below the
frame that ends the list. That frames lie inside is not inductive, and holds only of
exceptions that find the FPU idle: the next one fits because, whenever the program runs,
the newest frame is at least 78 bytes above the start, and the largest record of a 68040
exception has 74, which with the 4 bytes of an idle FPU fits exactly. With an FPU
instruction unfinished it has up to 174. What holds in spite of that is that such a frame
is never on the list when the program goes on: `c` either returns through it or
an older one, or finds the list too low and gives it up. `RoomBelow` says
so of every frame the program ran above, `HasWords` that every frame but the first
can be returned through, `EndsAtTop` that the first is the one
`initializeRemcomErrorFrame` made. The theorems are `FramesStayInside`,
`LossesAreExplained`, `HandlerIsGivenBack` and
`NormalUseKeepsTheStack` (an action property).

**Processes.** Assumed: a table of at least two entries. `IInv` relates the root
pointer and the window to the current and to the newest process, registers to
their owners or to processes that have exited, and the counter to what fork
answered. The arithmetic of the search for a free entry (that `MAX_PROCESSES`
consecutive candidates modulo `MAX_PROCESSES` are all entries) is proved from a
few lemmas about `%`. The theorems are type correctness, `CurrentIsInTable`,
`RegistersAreOwn`, `UrpStaysClose`, `WindowFollowsCurrent`, `HangsOnlyWhenFull`,
`AtMostOneRefusal` and `OlderImagesAreKept` (an action property). That fork refuses once
only takes the whole history: a refusal leaves `_process_last` at or beyond the size of
the table, the search compares it with numbers below that size, and it never falls.

**Console.** Assumed: a screen of at least one cell and room for at least two
arguments. `IInv` is what the commands need to stay in the numbers (`Numbers`)
with the three properties themselves. That few arguments are safe rests on
`ArgumentsCounted`: as long as the arguments fit, `argc` is their number, so the
first wrong `argc` comes with the argument after that. The theorems are
`TextNeverLeaves`, `ArgumentsAreCounted`, `FewArgumentsAreSafe` and
`PrintingRecovers` (an action property). The range of the colours is not stated:
`m` is a loop over its arguments.

`ScreenFollowsText` is about `Screen`: for every size of screen and every text,
`ScreenShowsTail`. It is inductive with two facts (`PaperInv`): the cursor is on the
screen, and the paper is empty behind its current line, so that the row that scrolling blanks
reads right. `NextLine` says that the first line shown moves exactly when the code
scrolls.

**Files.** Assumed: images whose names lead to their own inodes, a root directory each,
device numbers beyond every mount point, paths of at least one component. `VfsInv` is
the three properties of the tables with what they need: an entry in use has one
reference and its inode and mount exist, and a process not yet forked holds
nothing. `FdsStayOpen` is the hard one: `execve` closes an entry it opened
itself, which no descriptor leads to because `_alloc_file` chose one not in use.
`OrphansExplained` counts the entries nobody holds. `FilesKept` is an action property.
`ResolutionAgrees` compares the walk of `_resolv_ino` with the
reference, two recursions over different sequences: the components
`_extract_component` returns are the path without a last slash and with a run of
empty components after the first one cut out (`TokensAre`), and an induction shows that the walk is
at the reference's place after each.

**Heap.** Assumed: what `HeapAssumption` and `PageAssumption` say. What a list leads to
takes a recursion, so the invariant does not speak of it. `HeapInv` says that there
are a function `w` from addresses to places (a list, held by a caller, in
the hands of `kfree`, or no header that counts) and a rank `r` such that heads and
next fields lead to headers in their own place, each led to once, with falling
rank, and the blocks of all headers that count are disjoint and inside. That lists are
apart and free of circles follows. The difficult steps are those of `kfree`. During its
loop a set `V` of headers was passed and the freed block is in one of three
situations: on no list, with no neighbour passed (`Unmerged`); in the place of its
upper neighbour, with its lower one perhaps still ahead (`MergedUpper`); or both were met
and the joined block was taken off the list (`MergedBoth`). In the last case, the defect that
`heap_lost` shows, the joined header no longer counts while its upper part stays on
the list, so memory is lost but nothing overlaps and no neighbours remain:
`NeighboursAreJoined` holds nevertheless. At the end of the loop `V` is
the whole list. `ChainStays` then says, by one induction, that what a list leads to is
in its place, and the theorems about `NoOverlap`, `ListsSeparate` and `Coalesced` follow.
Nothing in these proofs bounds the heap but `HeapBound`, which may be any number. `AllocatorImplemented` (`Spec => ImplementsAllocator`) goes through
every turn of every loop with the same invariant: the words a turn writes are in the
header of a block that is listed, fresh or in the hands of `kfree`, and the header that
splitting makes lies inside the block it splits; none of these overlaps a held one.

**Debugger, packets.** Assumed: a buffer of more than three bytes, at least two digits,
all different and none a `:`, characters with codes that differ modulo `Byte`, commands that
differ from each other and have no `:` in third place, and `NoiseAssumption`. The theorem
is `NothingIsForged`, for all commands and replies, any number of early repetitions and
any line. `ForgeryInv` describes how what the receiver holds and what is under way
fit together, by what the line did so far. What is under way is a line of packets of
commands, perhaps beginning inside of one (`Line`). As long as nothing suffered, the
receiver is in step (`InStep`): it hunts, holds the beginning of a command the rest of which
is what comes next, or has all of one. A damaged character not yet read leaves the line
as it was behind it (`Hit`). Read in a text, it makes the receiver go off: the sum
will differ from the digits, since codes differ and adding the rest keeps sums apart
(`OffText`), or a mark was read that `TellsMarks` speaks of (`OffHi`, `OffLo`), or the end of
the text went by and the receiver collects until the next `$` (`Adrift`). All of them
end in a rejection or in step again (`Misled`, `Recovered`), and no other character makes
the receiver carry out anything. What is left is the buffer, which is not cleared. A
command of one character, read when a `:` is in third place, would be taken for one with a sequence
number. Texts do not put one there; a damaged one can. That it is overwritten before
another command comes is not a fact about the receiver but about the whole exchange: the
host repeats the rejected command until it is accepted. `Phase` therefore lists the
states of an exchange without early repetitions, of both ends and both lines. That is why
the property excludes early repetitions once a `:` was there, and only then.
`LinkTypes` says besides that `getpacket` stays inside its buffer.

**Recursion.** `NumberLemmas` states induction for a set of numbers and that a
function given by its first value and its steps exists. With these what a
recursive function of the model computes can be proved, step by step; what `Chain`,
`Walk` and `Reference` compute is shown this way.

**Only model-checked.** The liveness properties (`CallsEnd`, `CallsReturn`,
`EveryoneRuns`, `EveryCommandAnswered`), which need fairness. Of the debugger's packets,
`CarriedOutOnce` and `AnswersBelong`: one lost `+` of the host or one early repetition
already puts any number of old replies and acknowledgements on the lines at once, one for each
character the stub reads in `putpacket`, and an invariant would have to say for each
kind of fault how those are matched. What `NothingIsForged` needs of such a session is
less, since what the receiver accepts does not depend on what it answered.

## 5. What the checks found

* `ram_used`: `_free_frame` does not add to `free_frames`. The reported use of
  memory only grows, and as `_alloc_frame` trusts the counter, freed frames are
  never given out beyond it: the system runs out of memory with a full list.
* `user_mode`: `process_isr` and `int_syscall` pass the user stack pointer where
  the status register is meant, so a thread with a used stack is resumed in
  supervisor mode.
* `heap_lost`: a `kfree` that meets its upper neighbour in the list before its
  lower one takes the lower one off the list and does not put it back.

Besides these, the models record as behaviour, with properties that delimit it:
the root pointer left at the child after fork, so that the parent's stores until the
next switch go into the child's pages; execve loading into that child;
`exit` returning to its caller, which runs on as the process made current, is saved
over it at the next trap and may replace its image; the endless search of
`process_create` on a full table that was refused once; the panic "Attempted to kill init" for process 1, while init is process
0; file entries lost on `-EMFILE`; the last component of a path not
being followed into a mount; a path with repeated slashes that finds something else
where the root of an image is itself a mount point; the argument after the tenth stored over `argc`; the
cursor one column or row off the screen after a movement, and further down with
every line feed until a character is printed; `T` with a large argument clearing
beyond the frame buffer; `ESC[J` and `ESC[m`, which arrive with one argument of -1
and so clear the whole screen and change nothing.

Of the loader: a section with data is loaded as it should be only if it is shorter
than a page, lies inside one and shares it with no later section (`WellPlaced`). Of a
section of whole pages nothing is copied; of a longer one each page gets as many
bytes as the rest of its size leaves modulo a page, from the next page boundary of the
buffer; one that crosses the end of a page writes over the table mapped next. The
two programs of `userspace/` are small enough for none of this to show.

Of the debugger's line: one lost or damaged character has no wrong command
carried out, with one exception, and as long as the host does not give up waiting too early,
no answer taken for another's. The exception: a character damaged into a `:` in third place
stays in `remcomInBuffer` when the packet is rejected. Usually the host sends the same
command again, which overwrites it. But after two early repetitions (one is not enough in the
instances TLC was tried on) the damaged packet may be
a second copy of a command that was carried out already, and the host has gone on; a later
command of one character is then read as one with a sequence number, and what the stub
carries out is the stale text behind the `:`. A lost `+` of the stub can have
a command carried out twice, and so can two faults together. A damaged character and
an early repetition together, or two early repetitions, can have the host take an old reply
for an answer.
Of its frames: an exception that meets an unfinished FPU instruction may be saved below
`gdbFrameStack`, as only `c` looks at the bound, and not at what `fsave` needs. `c` with address 0 matches the frame at the end of the list, which has
no words, until the list was once given up.

## 6. Plan

Done: `Mmu040` with `FrameStore` and `Image`, `Process`, `Heap` with `Allocator`, `Vfs`,
`Console`, `Screen`, `GdbFrames`, `GdbLink`; proofs of every safety property the passing
runs check but `CarriedOutOnce` and `AnswersBelong`, and of both refinements.

What could follow, in this order:

1. `CarriedOutOnce` and `AnswersBelong`, first for a host that does not give up early.
2. The process table against a round-robin specification.
3. `SyscallEntry`: `int_syscall` in two steps, with an interrupt between the trap
   and the masking of interrupts.
4. Device registry and character devices, once a driver that blocks is registered.

### Not modelled

* The 68030 MMU (not built) and the SD card driver (inside `#if 0`).
* The queue of blocked readers in `modules/chardev.c`: no registered device returns
  `-EWOULDBLOCK`, so nobody is ever queued. The registry in `device.c` and the
  memory block device: filled by `main()` in a fixed order and only read afterwards,
  which is `Read` in `Vfs`.
* SPI, UART and the block cache: hardware I/O that `main()` does not start.
* devfs, the list of file systems and the module registry: without callers.
* Formatting, strings, logging, `setjmp`, and single instruction sequences of
  `mmu040.S`: no control of their own.
* `vfs_read_directory`, the blocking branch of `process_wait` and the copy functions
  of the MMU: without callers.
