# Xinix verification project

TLA+ models of the Xinix kernel, its prekernel and its loader, the TLC
configurations that check them on small instances, and TLAPS proofs of the
central results. All paths are relative to the repository.

1. [The system](#1-the-system): components, state, operations, what is hard
2. [The modules](#2-the-modules): what models what, and how
3. [The runs](#3-the-runs): what is checked, within which bounds
4. [Fairness](#4-fairness)
5. [The proofs](#5-the-proofs)
6. [Where the code is wrong](#6-where-the-code-is-wrong)
7. [What is left out, and the plan](#7-what-is-left-out-and-the-plan)

To check a run: `tlc -config X.cfg M.tla`; to check the proofs:
`tlapm BootProofs.tla`, and so on. `PROJECT.json` lists the runs, the faulty
variants that show that each property can fail, the source lines of each
definition, the hazards and the theorems.

## 1. The system

Xinix boots through Limine into a *prekernel*, which loads the kernel's ELF
image, builds a memory map and jumps to `kmain`. The kernel runs on one
processor, in a single kernel context with one thread that ends up in a prompt;
everything else that happens is an interrupt. There is no scheduler, no user
thread and no system call yet, but the code is written for several contexts:
locks and atomics are in place.

| Component (source) | State | Operations | Depends on |
|---|---|---|---|
| Prekernel allocator (`prekernel/shared/src/alloc.c`) | `alloc_pos`, no upper bound | `aligned_alloc`, `init_alloc` | the boot loader's map |
| Boot memory map (`prekernel/limine/src/main.c`, `prekernel/shared/src/entry.c`) | `entries` | split of the allocator's entry, fixed reservation in `call_kmain` | allocator; read by the kernel's heap |
| Prekernel page protection (`prekernel/shared/x86_64/src/paging.c`) | boot page tables | `vprotect` | ELF segments |
| Kernel heap (`kernel/src/common/memory.c`) | `bump_heap_ptr`, `bump_heap_limit` | `init_heap`, `aligned_alloc`, `malloc`, `calloc`, `free` (nothing) | memory map |
| Kernel page tables (`kernel/src/x86_64/paging.c`) | the tables under `cr3` | `clone_page_table`, `add_to_hhdm` | heap |
| ACPI, I/O APIC (`kernel/src/common/acpi.c`) | `fadt`, `facs`, `dsdt`, `ioapics`, `ctx->lapic`, redirection entries | `load_system_descriptor_tables`, `write_io_redirect` | page tables, heap |
| Auxiliary vector (`call_kmain` in `prekernel/shared/src/entry.c`, `getauxval` in `main.c`) | `__auxent` | one entry for each thing the boot loader or the machine provides | the boot loader; read by everything that starts |
| Kernel image (`loader_map_elf` in `prekernel/shared/src/entry.c`, `kernel/src/x86_64/entry.s`) | the segments in memory | copy, protect, relocate | prekernel allocator and page protection |
| Boot order (`kmain` in `main.c`) | interrupts on or off, timer registers | `load_arch_state`, `init_context`, `init_tsc`, `install_keyboard_irq`, `setup_timer`, `sti` | everything |
| Interrupt entry (`kernel/src/x86_64/idt.s`, `arch_state.c`) | the thread's `ucontext` as save area | the stub around `handle_int` | contexts |
| System call entry (`syscall.s`, `sysent.c`) | the same | `SYS_enter_pl0_64` | no call is defined |
| Contexts (`context.s`, `ucontext.c`, `ucontext-generic.c`) | `thrd_resident`, GS bases | `create_context`, `lock_context`, `unlock_context` | heap, generators |
| Keyboard (`kernel/src/common/keyboard.c`) | decoder state, modifiers, `queue`, head and tail | `keyboard_irq` → `kbd_enqueue`; `kbd_poll_key` | interrupts; read by the prompt |
| Entropy ring (`kernel/src/common/entropy.c`) | `entropy_buffer`, `read_head`, `write_head` | `push_event` (interrupts), `poll_ebuf` | feeds the generators |
| Generators (`entropy.c`, `randlib/src/random.c`) | `kgen`, `kgen_lock`, each thread's `urand_gen` | `random_{k,}global_{gen,ingest}`, `rand_dev`, `krand_dev` | ring, CPU source |
| Timer, TSC, boot time (`main.c`, `tsc.c`, `boottime.c`) | `boottime`, `last_timer_tsc` | `timer_irq`, `read_tsc`, `init_tsc` | interrupts |
| Real-time clock (`kernel/src/x86_64/rtc.c`) | `rtc_last_init_time`, `rtc_last_init_boottime` | `init_rtc`, `read_global_rtc` | boot time, CMOS |
| Prompt (`run_prompt`, `eval` in `main.c`) | `line`, `pos`, `line_len`, `cursor_start_*` | one key at a time | keyboard, heap, terminal |
| Dynamic loader (`loader/src/dynld.c`) | the table of libraries and its lock | `dynld_link`, `apply_rel` | its caller |
| `call_once` (`common/include/once.h`) | `_once_state` | `call_once` | used by `xsave.c` |
| Extended state (`kernel/src/x86_64/xsave.c`) | `xsave_info` | `xsave_get_state`, `init_xsave_info` | `call_once` |
| Formatted output (`kernel/src/common/stdio.c`) | the terminal | `vfprintf` and the functions it prints numbers with | used by everything |
| Context dump (`print_context.c`, `arch_state.c`) | `gdt_entries`, the saved context | `load_gdt`, `print_ucontext` | interrupt entry, formatted output |
| Serial port, CPUID names, UUIDs, hashes | | pure or port input/output | |

How they interact: an interrupt enters through the stub, which saves the
thread's registers and calls `handle_int`; that calls `keyboard_irq` or
`timer_irq`, both of which push an entropy event; the first also queues a key
for the prompt, the second adds to the boot time. The prompt polls keys, edits,
evaluates, and prints; it reads the clock. All threads draw random bytes from
their own generator, which is fed from the context's, which is fed from the
ring.

**What is hard here, and what makes each component correct**

- *Boot map and heap*: the map is computed while the memory it describes is
  still being allocated from. Right: nothing the prekernel allocated is in
  what the kernel takes for free; blocks are disjoint and inside the entry
  chosen, for every size up to `SIZE_MAX` and after any failed calls.
- *Kernel image*: the segments lie in pages that the boot loader has mapped in its
  own way; each has its permissions set and set again, in tables of four
  levels. Right: at its entry the kernel can run its code and write its data, in
  every segment, and finds what the linker put there.
- *Startup*: what a boot loader does not provide is left out of the vector, and
  what the kernel reads instead depends on memory that nothing clears. Right:
  what is said is found, what is not said is not taken for something.
- *Page tables*: they are copied while they are in use, then extended with
  small and large pages in any order. Right: the switch changes no
  translation; the copy shares no table; a page asked for is usable as asked
  for, and the neighbours lose nothing.
- *Interrupt entry*: one save area for each thread; only the gate type keeps a
  second interrupt from overwriting it. Right: what is interrupted goes on as
  if nothing had happened.
- *ACPI and boot order*: interrupts are let in while `kmain` goes on, each needs
  the local APIC that a table has named; the I/O APICs are counted in one pass and
  stored in another. Right: every interrupt is acknowledged, every counted I/O
  APIC has a place.
- *Formatted output*: precision, width, prefix, sign and radix meet in one buffer.
  Right: a number reads as the number it is.
- *Context dump*: the stub stores the registers at offsets of its own, the dump
  prints them in another order, by way of a struct, a descriptor table and a
  hundred formats. Right: under each name stands what that register held, the
  floating-point state included.
- *Keyboard*: the interrupt may come between the test, the read and the
  increment of a poll; the queue may be full; bytes have meanings that depend
  on the ones before. Right: the prompt is given the keys in order, with the
  modifiers of their moment.
- *Entropy ring*: lock-free; both heads are moved by compare-exchange; the
  consumer re-reads a slot it has already given back. Right: a bounded queue.
- *Generators*: drawing tries the lock, feeding spins for it. Right: no two
  callers get the same output, entropy is not lost, nobody who draws waits.
- *Clock*: rounding, steps back of the TSC, an edge of a flag to be caught
  with interrupts in between. Right: the clock is right to within what the
  hardware allows, and never goes back.
- *Prompt*: a growing buffer with a cursor in it, on a screen that wraps and
  scrolls. Right: eval is given what was typed; the cursor is where it should be.
- *Dynamic loader*: relocations that are put off to later passes, user code
  (resolvers) run in the middle, a lock inside an offset. Right: each
  relocation once, resolvers last, one writer at a time.
- *`call_once`*: a fast path without the lock. Right: once, and complete
  before it is seen. *Extended state* is its caller: any context may be the one
  to fill the table that all read.

`PROJECT.json` lists 40 hazards of this kind, each at its line, with the
properties that watch it, or the reason why none does.

## 2. The modules

State variables have the names of the C variables where there is one. A
definition that begins with "Faulty variant" in its comment models a plausible
bug; it is used by no specification, only put in place of the real definition
to see that a property notices.

| Module | Models | Abstract specification |
|---|---|---|
| `BootMap` | the boot memory map from Limine to `kmain` | |
| `Heap` | the kernel heap | |
| `Boot`, `BootProofs`, `MCBoot` | `BootMap` and `Heap`, composed | |
| `KernelImage` | `loader_map_elf`, `vprotect`, the relocations of `kstart`; goes on as `PageTable` | |
| `PageTable`, `MCPageTable` | `clone_page_table`, `add_to_hhdm` | |
| `Startup` | the auxiliary vector and `kmain` up to the tables | |
| `IsrStub` | interrupt entry and exit, gates, `hcf` | |
| `Acpi` | the ACPI tables, the redirection of the keyboard's interrupt | |
| `Kmain`, `KmainProofs`, `MCKmain` | all of `kmain`, the devices' interrupts; composes `Startup`, `IsrStub` and `Acpi` | |
| `Keyboard`, `PromptProofs` | decoder, modifiers, queue, poll | `KeyQueue` |
| `EventRing`, `EventRingProofs`, `MCEventRing` | the entropy ring | `EventQueue` |
| `KernelRandom` | generators and their locks | |
| `RandDev`, `RandomProofs` | `rand_dev` and `krand_dev`, on `KernelRandom` | `KernelRandom` |
| `Clock`, `ClockProofs` | boot time, synchronisation with the CMOS clock, `read_global_rtc` | |
| `RtcDate`, `RtcRead`, `ClockProofs` | the date: registers, reading, conversion | the calendar, in `RtcDate` |
| `Stdio` | numbers and strings in `vfprintf` | the numeral, in `NumbersAreShown` |
| `PrintContext` | `print_ucontext`, the descriptor table, on `Stdio` | the machine that was interrupted |
| `RtcLog`, `MCRtcLog` | `RtcRead` and `PrintContext`, composed | |
| `LineEditor`, `PromptProofs` | `run_prompt` | `TextLine` |
| `Dynld`, `DynldProofs`, `MCDynld` | `dynld_link`, `apply_rel` | |
| `CallOnce` | `call_once` | `Once` |
| `Xsave`, `XsaveProofs`, `MCXsave` | `xsave_get_state` around `call_once` | `Once`, and the complete table |

**BootMap.** One boot, step by step: `FindAndInitAlloc` (the largest usable
region becomes the allocator's), `CopyName`, `MakeMap` (the array is allocated
first, then the region is split at the allocator's position), `MapElf` (the
image is allocated after the map was made), `ReserveForKernel` (16 MiB are moved
from the usable rest to the reserved entry). Lengths wrap at `Width`. What the
code takes for granted is stated as two assumptions on the machine:
`FirmwareAssumption`, the boot loader's promise that usable entries overlap nothing
(others may overlap each other), and `RoomAssumption`, that the largest usable entry has
room for what the prekernel allocates and for the 16 MiB, and that these suffice for
the image. The code tests neither (`alloc.c:8`, `entry.c:124`).

**Heap.** `InitHeap` chooses the first longest usable entry;
`AllocFor` is `aligned_alloc`: the pointer is aligned *before* it is known
whether the request fits, and stays so when it fails; the size is compared with
what is left. `Malloc` and `Calloc` call it, the latter after its test of the
product. A block is recorded with the bytes its caller *wanted*, so that a
product that wraps is seen.

**Boot.** `LoadKernel` is a step of `BootMap`, `Kernel` one of `Heap`; between the
two, `CallKmain` hands the array over, and the heap takes its memory from what
the prekernel left. So the two addresses that only meet here, the prekernel's
allocation position and the heap's pointer, can be compared (`BlocksAreFree`).

**KernelImage.** A step for each phase of a segment: `MakeWritable`, `CopySegment`,
`SetSegmentFlags`, then `Kstart`. `Vprotect` is `vprotect` whole, on the tables of
`PageTable`: `Visited` has the entries that its nested loops come by, with the
bounds the code gives them (`LoopEnd`), and below a large page none. A word of
memory is where it came from in the file and how often the base was added;
`HeaderFlags` are those of all headers, also of those that load nothing, for
`CheckHeaders` looks at them all. `ImageIsLoaded` speaks of the words that `DT_RELR`
names by address, and of those it does not name; the words of its bitmaps, to which `Kstart`
adds nothing, as the code does, are left out of it (section 6). After
`kmain` the tables are those that `PageTable` clones and extends. What the code takes
for granted is stated. `ImageAssumption`, of the linker: segments share no word, and
no page of code is among those that `vprotect` of data may come by (`MayVisit`: as
the bounds are relative to an address that is not aligned, these are more than
the segment's own). `MappedAssumption`, of the boot loader: its tables are a tree and
map the pages that `vprotect` comes by (it does not look whether an entry is present),
those of the image writable, and executable but for what `vprotect` sets right.
`OutsideAssumption`: the kernel asks `add_to_hhdm` for no page of its own image.

**PageTable.** Tables are numbered, entries are records. `clone_page_table` is
an explicit stack of calls (`CloneEntry`, `CloneTable`, `CloneReturn`,
...), `add_to_hhdm` a loop (`AddPresent`, `AddDescend`, `AddPage`, `AddTable`,
`AddHalts`). `Translate` is the processor's walk, with permissions combined over
the levels.

**IsrStub.** A register is a token for who wrote it last; an action is a group
of instructions of the stub. `Enter` is the processor's part, with the error code
pushed for the vectors that have one. The handlers clobber all registers; a page
fault calls `hcf`. `Hcf` is `int3`; its handler follows a pointer that is none
(section 6), so what comes after is a general protection fault in the handler of
another (`Trap`), up to the bound `MaxDepth`, and `hlt` is never reached. What
`handle_int` does to the saved `dr6` for `#DB` changes nothing: the bit it sets reads as 1.

**Startup.** `CallKmain` builds the vector (`Vector`: which entries, in which order,
depends on the loader), `CopyAuxv` takes one entry at a time, `getauxval` reads
where nobody may have written: `bss` is what memory held there. The steps of
`kmain` follow in the order of the code, with each `hcf`; "lost" is the machine that
follows a garbage pointer, or halts before there is a context.

**Acpi.** A step for each table, and for each record of the MADT in either pass:
`LoadMadt`, `CountRecord`, `AllocIoapics`, `PopulateRecord`, `MadtEnds`. `mapped` is
what `add_to_hhdm` (module `PageTable`) has been asked for.

**Kmain.** `FirstHalf` is a step of `Startup`, joined with what it does to the
processor (`LoadArchState`, `InstallContext`). Its thread is the one that `IsrStub` interrupts. `KeyboardIrq` can come
when the redirection entry has been written and `Sti` done, `TimerIrq` and
`SpuriousIrq` after the two steps of `SetupTimer`. `in_service` is what the local APIC
waits for; `HandleInt` joins the handler of `IsrStub` with the acknowledgement
that `keyboard_irq` and `timer_irq` end with.

**Keyboard.** Keys put their bytes on a wire; `Irq` takes one byte through
`KBD_STATE_MACHINE` and `kbd_enqueue`; `PollTest`, `PollRead`, `PollReturn` are
the three accesses of `kbd_poll_key`. The tables are represented by one key of
every kind they tell apart: plain, both shifts, control, a byte that means one
key alone and another after E0, E0 codes without meaning, overrun. `queue` is the
array and nothing else: a store beyond it (`StoresInArray`) overwrites whatever the
linker has put there, and there the model ends (`InArray`). *Refinement*
(`KQ`): `waiting` is the part of the array between tail and head, `held` the
modifiers.

**EventRing.** One action for each atomic operation (sequentially consistent
interleavings; the code's acquire and release orders suffice for the accesses
modelled). An event word is its number; 0 is what an unwritten slot and an empty
poll have in common in the code, too. *Refinement* (`Q` in `MCEventRing`): the
queue is the slots between the heads, `hand` an event that a poll has taken and
not yet returned. The abstract queue may lose an event in hand *only* when it is
full: that is what happens when the poll's loop, going round, re-reads a slot
that was filled anew.

**KernelRandom.** A generator is a state that moves on and a count of polls;
the cryptography is left out. Read and write-back inside the lock are separate
steps, so that two threads in there would be noticed.

**RandDev.** A request goes through the generators block by block; between two
blocks the other thread may take the lock, and then a read of `krand_dev` ends.
`given` counts the bytes of the caller's buffer that really came from a
generator, for comparison with what `rd_read` returns.

**Clock.** Ticks pass; the TSC and the CMOS clock count them; two deadlines
stand for the speed of the hardware. `TimerIrq` is `timer_irq` whole (interrupt
gate), with the C durations and their unsigned nanoseconds. `Confirm`, `WaitUp`,
`WaitDown`, `NoteBoottime`, `NoteSecond` are `init_rtc` from the confirmed
reading on; `read_global_rtc` is what the prompt shows.

**RtcRead** is `init_rtc` up to there. The clock raises its flag, changes its
registers one by one, and lowers it (`FlagUp`, `UpdateRegister`, `FlagDown`), all of
it between any two port reads of the driver (`Wait`, `ReadRegister`, `KeepFirst`,
`ReadAgain`, `ConfirmDate`), and the reading is converted (`Convert`). **RtcDate** has
the conversion as operators, operation for operation, in the widths of the code,
beside the calendar (the days since 1970 are counted: a year has 365 of them, and one
more for each leap year before, and so on) and the registers. All dates and all eight
formats are let in. `UtcIsRight` says that what is arrived at is made of one single second,
and that it is the calendar's time if the conversion of that second is right
(`ConversionIsRight`; section 6 has the others). `RightAssumption` says only that
`MaxSeconds`, the seconds that the clock goes on for, are fewer than a minute.

**Stdio** has `print_dec_int`, `print_unsigned_int`, `read_int`,
`read_unsigned_int` and the printing of strings as operators, on parsed
conversions; one step prints one conversion. Each comes with what a reader is to
be told by it (`told`). What `vfprintf` returns is left out.

**PrintContext.** A machine is what the registers held. `Save` puts it where the stub
and `save_full_ucontext` do, into the context that `kmain` has made (`KmainContext`); the
floating-point state only if the quadword at offset 504 says so (`StoreFloat`), which is
padding and zero. `PrintUcontext` lists the conversions of `print_ucontext`
with their arguments, taken from the saved context by the indices and bits of the
code, beside the meaning of the name in front of each, taken from the machine.
`LoadGdt` is `load_gdt`; `PrintSreg` reads its descriptors, `Meaning` says what the
processor goes by. `NumbersAreShown` holds the dump against the machine, but for the
floating-point state, which it holds against the context, for the stub has not stored the
machine's (section 6).

**RtcLog** lets `init_rtc` print what
it prints: the format register after the first reading (`PrintFormat`), the date
(`PrintDate`); the driver goes on when the text is written. Before it a firmware table
may be announced (`PrintSdtHeader`), after it `pcontext` at the prompt, or an NMI,
dumps the context (`Pcontext`).

**LineEditor.** A step is a key with all that follows: the edit, with `memmove`
inside a buffer that doubles when one byte is left, and the redraw. The terminal
is known by how `run_prompt` uses it. `anchor` is where the line really begins
after scrolling, `cursor_start` where the code thinks it does. *Refinement*
(`TL`): `before` and `after` are the text on either side of `pos`.

**Dynld.** Two tables of relocations, up to four passes; `Applies` says in which
pass `apply_rel` applies a relocation, puts it off, or fails; with `no_relocate`,
as `kmain` calls it for the kernel, there is no pass. The lock is the
lowest bit of the offset (`Lock`, `Enter`, `Unlock`).

**CallOnce.** One action for each atomic operation; a spin that fails is a
stuttering step. *Refinement* (`O`): a thread that runs the function is the
abstract runner, everything else inside is "in". **Xsave** is its caller: the
function is `init_xsave_info`, one step for each entry of the table (`FillEntry`,
`FillEnds`), and whoever returns from `call_once` looks at the table as it is then
(`Look`).

## 3. The runs

| Run | Instance | Properties |
|---|---|---|
| `boot` | all maps of 3 regions of 4, 24 or 40 units, usable or not, with holes, and with reserved regions that overlap; images up to the reservation; then 3 blocks of sizes 0, 3, 17, SIZE_MAX = 255, alignments 1, 2, 4 | `MapIsTrue`, `BlocksDisjoint`, `BlocksAreFree` |
| `page_table` | 3 levels of 4 entries; 5 images of 1 to 3 segments, with relocations, 2 of them refused; boot tables with small and large pages; requests of all granularities | `ImageIsLoaded`, `CloneFaithful`, `OwnTables`, `AddedIsUsable`, `OthersKept` |
| `kmain` | 12 loaders, 6 machines with 1 or 2 I/O APICs; 6 exceptions with and without code, 4 vectors, up to 3 deep | `LoaderIsHeard`, `IoapicsFit`, `Acknowledged`, `ContextIsFound`, `ResumesAsInterrupted`, `Returns` |
| `keyboard` | 7 keys, queue of 3, until the array is used up | `ImplementsKeyQueue`, `KeysArePolled` |
| `keyboard_wrap` | queue of 4, five keys | violates `StoresInArray` |
| `event_ring` | ring of 4, 6 events, 1 or 2 producers, 1 consumer | `EventsWaitOnce`, `ImplementsQueue`, `PollsReturn` |
| `kernel_random` | 2 threads, one of them through the devices with blocks of 2 and sizes up to 3; limits 4 and 3 | `NoUseIsLost`, `ReseededInTime`, `ReadsAreCounted`, `ReadsReturn` |
| `clock` | 4 ticks and 12 units to a second, 3 seconds to a minute, 3 seconds from any phase; the TSC set back once | `BoottimeFollowsTsc`, `ClockIsRight`, `ShownNeverBack`, `SyncEnds` |
| `rtc_log` | the ends of the months of 10 years, 4 hours, 8 formats; at 4 dates the clock ticks twice; 14 formats of numbers or 2 tables before it; after it 3 machines are dumped, for 2 vectors | `UtcIsRight`, `NumbersAreShown`, `ConfirmsWithinSecond` |
| `line_editor` | 2 characters, lines up to 6, buffer from 2 bytes, screen of 3 by 3 | `EditsInBounds`, `CursorOnPos`, `ImplementsTextLine` |
| `dynld` | 2 threads with any of 38 libraries | `RelocatedOnce`, `ResolversRunLast`, `TableExclusive`, `LinksReturn` |
| `call_once` | 3 threads, any number of calls for any of 5 components in 3 kinds of context | `StateIsPlaced`, `ImplementsOnce`, `CallsReturn` |

Why the bounds are enough:

- `boot`: the chosen region is first, in the middle and last, alone and one
  of several equal ones, adjacent to its neighbours or not. Images larger than
  the reservation are left out: see section 6. SIZE_MAX is little more than the
  address space used, so both a sum and a product can wrap; three calls let any
  two alignments follow each other with a failed one in between. The proofs
  cover all other values.
- `page_table`: three levels are a top, a middle and a bottom; the four levels
  of the code add another middle. Requests with all sets of flags meet boot
  tables that are present, absent, large, writable and not. Images of six pages
  cross from one lowest table into the next, in small pages or into a large one,
  with headers in either order and with a part that is not in the file. None
  takes the first page of a lowest table: the index of the last loop of
  `vprotect` wraps round to it and changes what it should not (section 6).
- `event_ring`: six events in a ring of four go once and a half round it.
  `MaxOverlap` bounds the events of others during one push to fewer than would
  take the ring round: see section 6.
- `clock`: two seconds and three delays are what the synchronisation needs.
  The first second may be anywhere in the minute, so that the minute may end in
  the middle of it.
- `rtc_log`: a first reading, a second and a third meet two ticks. The dates
  are those around which a field is carried or a leap rule applies; the clock
  ticks at the end of a century, a month (the 29th of February), a morning and an
  hour, so that every number of registers changes. March of the leap years, and
  of 2001 and 2101, which the code takes for such, is among them, and so is every format.
  The formats of numbers are of all kinds that the kernel's calls use for integers and pointers, with
  numbers around each power of the radix; words are of 16 bits, and long ones a
  little less than 32, for TLC has no larger. Of the dump each general register
  has a value of its own, each flag that the kernel's code leaves set now and then
  is set in one machine and clear in another, and the address of the TSS has all of its three parts, with and without a carry
  between them; the widths of these parts are scaled with the words. `MaxLog` lets
  one dump come, after a boot that has printed nothing else.
- `kmain`: the second I/O APIC is that of later interrupts, as the code
  expects. Vectors: a keyboard, which outranks the timer, both of which can be
  pending when the other ends. A handler is interrupted only by a fault of its
  own: a page fault, the trap of `hcf` in it and the faults that follow, which the
  bound of three cuts off; they repeat. The loaders differ from one that provides
  everything in one thing or two, each with memory that was zero or not where
  that is read.
- `line_editor`: six characters and the prompt fill more than two rows of three,
  so the line wraps, its blank wraps, and the screen scrolls, by one and by two;
  the buffer doubles twice.
- `dynld`: one library of every mixture of two relocations from different
  kinds, resolvers in either table, bind-now or not, one bad relocation, and
  two libraries that are not to be relocated, one of them with a table all the same.
- `call_once`, `kernel_random`: the threads are all alike; the proofs cover any number.
  Of the components 2 to 4 one is aligned, one is not and one is missing.
  A size of up to a block and a half has every number of blocks and rests.
- `CHECK_DEADLOCK FALSE` where the system may stop: a bounded number of blocks,
  events, ticks; a boot that is done; a machine that was halted.

## 4. Fairness

Weak fairness only, and only for code that has begun: a push, a poll, a call of
`call_once` or of a generator, a pass of `dynld_link` runs on when it can. That
is so on a processor that interrupts do not stop for ever. Nobody has to press
a key, call a function or push an event. Beyond that, `Keyboard` assumes that the
controller raises the interrupt of every byte and the prompt polls for ever,
which is what `run_prompt` does; `Clock` that time passes and the timer
interrupts at its deadline. A spin lock needs strong fairness in general; the
properties are stated so that weak fairness is enough. `CallsReturn`: after the
first release the fast path takes nobody to the lock any more, so each spinning
thread is overtaken finitely often. `LinksReturn`: each thread links one
library. `ReadsReturn` is about callers that do not spin, and about the blocks
of one read, of which there are finitely many.
`random_kglobal_ingest` may wait for ever, and no property says otherwise.

## 5. The proofs

TLAPS proves these for all values of the constants that the named assumptions
allow; they are stated of `Spec` (safety only).

- **Heap** (`BootProofs`): `TypeTheorem`, `InHeapTheorem`, `DisjointTheorem`.
  The blocks alone are not inductive: one must know that the pointer is at or
  above the end of the last block, and that it does not run away from the limit
  through failed calls (so that rounding up does not wrap). `IInv` adds
  that the limit is that of the chosen entry (`HeapIs`), that the pointer is at
  most the limit rounded up to the widest alignment (`PtrBounded`), and that
  the blocks are in order below the pointer (`BlocksOrdered`). It rests on
  `AlignUpBounds` and the lemma that rounding up never passes a multiple.
  Assumptions: alignments are powers of two (`WidestAssumption`: the largest is
  a multiple of each), and memory is mapped well below the end of the address
  space (`NoWrapAssumption`), as `AT_KXINIX_HHDM_OFFSET` is.
- **CallOnce** (`XsaveProofs`): `MutualExclusionTheorem`,
  `AtMostOnceTheorem`, `PublishedTheorem`, and `ImplementsOnceTheorem`: every
  step is a step of `Once` or a stutter. `IInv` adds that the lock bit is set
  exactly while somebody is between the spin and the release (`LockIsHeld`), and
  how the init bit, the number of runs and the runner belong together
  (`Progress`). No assumption on the set of threads.
- **Xsave** (`XsaveProofs`): `StateIsPlacedTheorem`, for any number of contexts and
  components. The invariant `XInv` adds to that of `call_once`, whose proof is
  used as it stands because every step of `Xsave` is a step of `CallOnce` or leaves
  it alone (`StepsOfOnce`): that the table is filled as far as the loop has come,
  and to its end once the function is done (`TableInv`); that whoever has come back
  from `call_once` and not yet looked finds the function done (`AskedInv`, with
  `DoneStays`); and that the answers given so far are those of the complete table.
  Assumption: the supported components are among those that the loop visits.
- **Boot** (`BootProofs`): `MapIsTrueTheorem`, then with the kernel's heap
  `BootMapIsTrueTheorem`, `BootDisjointTheorem` and `BlocksAreFreeTheorem`. `MapInv`
  says that the map is at every step one pattern, `SplitMap`: the boot loader's, with
  one entry k in two, of u units and of the rest; and where the allocator stands
  against these u units (`Within`): at their end when the map is made, at most the
  16 MiB beyond it when the image is in, inside again when they are moved. That
  the pattern is true of the machine is proved once (`SplitMapApart`, `SplitMapCovers`,
  `SplitMapUsable`). `BootInv` joins it with the heap's invariant, whose step
  is used as it stands: it asks of the heap's map only that it is a map. Assumptions:
  the two of the machine, see `BootMap`, and the heap's. Without `RoomAssumption`
  the rest wraps, and the theorem is false.
- **PageTable** (`BootProofs`), with `KernelImage` before it, for any number of entries and levels, any
  tables of the boot loader, images and requests: `OwnTablesTheorem`, `AddedIsUsableTheorem`, and
  the action properties `CloneFaithfulTheorem` and `OthersKeptTheorem`.
  - `ImageInvariant` has the inductive invariant. There is a root from which the kernel's tables are
    numbered and a level for each table (`Tree`): the boot loader's refer to each other,
    ours to later ones, and no two entries to the same (`OnceOnly`). While the clone
    runs this holds of the settled entries, those that its calls have
    come by (`Settled`), as a fresh table holds whatever its memory did; `Frames` says
    which tables the calls are at, and `AtStage` where `add_to_hhdm` is. A step keeps the
    tree, or settles one link to a new table (`TreeGrown`).
  - The clone is a mirror (`Mirrors`): of maps each new table to the one it
    copies, and settled entries are the same but for the links, which lead to the copies.
    When the outermost call returns, all is settled, and by induction on the
    levels a page is found alike through both roots (`CopyTranslates`).
  - `Reached`, `Span` and the walk of `Translate` are recursive functions: that they are what
    their equations say rests on `PrimRec`, recursion on the natural numbers with the step
    given as a function, and `NatSets`, induction with the claim given as a set. The
    library's theorems take operators there, which the provers cannot instantiate.
  - `UseInvariant` adds what pages are for. Each of our tables has a base, the digits
    that the pages it is for begin with, and each entry maps them directly or refers to
    the table with one digit more (`OwnDirect`); the copy has this from the boot loader's
    tables (`CopyIsDirect`). For every request served there is a way (`Way`) from the
    root to the entry for its page: links that take no permission away, and at the
    end the flags asked for (`Served`); while a call runs, there is one to the table it
    is at (`Serving`). A later call leaves every way, as it sets flags on links only to permit
    more (`LinksKept`), and sets the end of no way but that of a page in its own granule
    (`OtherLeaf`). From there, what the processor finds at the end of a way it finds
    from the root, for every page that begins with the same digits (`WayFinds`).
  - For `OthersKept` one step is compared with the walk before it, from the lowest level up: an
    entry on the way to another page keeps what it refers to and loses no permission,
    or it was absent and now leads to a table in which there is nothing (`Harmless`, `KeptFinds`).

  Assumptions: `BootTablesAssumption` (the boot loader's tables are numbered from the
  root, each is of one level and each entry for a table has one) and `RequestsAssumption`
  (the page asked for is one that the tables can map, of a granularity that they have).
  `AddedIsUsable` and `OthersKept` rest on `DirectMapAssumption`, too: what the boot
  loader maps in the direct map, which is all that is modelled, it maps directly, and
  it has no table in two places. Of a page that is present `add_to_hhdm` sets the flags
  and leaves the address, so that `AddedIsUsable` would be false otherwise. TLC evaluates
  the assumptions on the instance.
- **KernelImage** (`BootProofs`): `ImageIsLoadedTheorem`, for any images and tables.
  - While segments are loaded, the inductive invariant is `Loading`: every entry for
    a page of a segment is present and grants writing where the segment needs it (`Granted`); and
    it grants execution, with two excuses (`Excused`). Of a segment still to come an entry
    above its pages may forbid it, if `vprotect` will come by it (`Covered`); and while the segment
    in hand is code and is copied, its own pages do, those that `vprotect` has come by. The
    invariant needs them: code is not executable while it is copied, and the first
    `vprotect` for writing and the second with the flags must come by the same entries.
  - They do, as what `vprotect` comes by depends on what it leaves alone
    (`SameLinks`, `VisitedSame`). What it comes by is bounded from both sides. From above: an
    entry that it comes by is for the page it stands at or, behind the end of a table, for
    one as many pages before as the table is for (`IsAt`, `VisitedComes`), so that it lies in `MayVisit`, and
    no page of code is forbidden for good (`CameSafe`). From below: an entry of each level above
    a page of the segment other than the last is come by (`Covers`, by induction on the levels from the root down,
    along the tables' one parent each, `ParentFor`), so that nothing above stays forbidden
    (`CoveredCame`).
  - With all segments done no excuse is left; then, by induction on the levels
    from the lowest up, the processor finds every page with what it needs (`AllowedIsFound`).
  - From there on (`PagesFound`) every step of the kernel leaves what is found no
    worse (`KernelBetters`): while the clone is made the boot loader's tables are as they were
    (`BootTranslates`), the last return is `CopyTranslates`, and the steps of `add_to_hhdm`
    are `StepBetters`, which also prove `OthersKept`.
  - The words (`WordsInv`): what is copied is not overwritten by a later segment, the memory has
    room for each (`AllAllocated`), and the loop over `DT_RELR` adds the base once to what it names by address (`BaseOnce`);
    of the words of its bitmaps the theorem says only where they come from in the file.

  Assumptions: the three named under `KernelImage`, with those of `PageTable`.
- **Random** (`RandomProofs`): of `KernelRandom`, `KgenExclusiveTheorem`,
  `NoUseIsLostTheorem`, `ReseededTheorem`. `IInv` is typing with the limits in it
  (a generator's count is at most its limit), exclusion, and that what a thread
  has read under the lock is still the generator. Of the devices,
  `DevicesImplementGenerators`: a device steps as a caller of the generators or leaves them alone,
  so the three hold with devices (`DevNoUseIsLostTheorem`, `DevReseededTheorem`); and
  `ReadsAreCountedTheorem`, from `DevInv`: what is counted and what is left add up to what was asked
  for, and a thread inside a generator is there for the request it has open
  (`Matches`). Assumptions: the limits and the block are positive.
- **LineEditor** (`PromptProofs`): `EditsInBoundsTheorem`, `CursorOnPosTheorem`,
  and `ImplementsTextLineTheorem`: every key is a step of `TextLine` or a stutter, through
  `memmove` and the buffer's doubling. `BufferInv` adds that all below `line_len`
  was typed. The cursor's theorem is for screens that the prompt and the longest
  line do not fill (`LineFits`): beyond that the code goes wrong (section 6). It rests on how
  cells, rows and columns relate when a cursor runs on and the screen scrolls
  (`DivMod` and what follows it). Assumption: the prompt is shorter than a row.
- **Keyboard** (`PromptProofs`): `ImplementsKeyQueueTheorem`: every byte of the wire, every
  step of the interrupt and every step of a poll is a step of `KeyQueue`, the queue of
  keys typed with the modifiers of their moment, or a stutter. `KeysInv`: what lies
  between tail and head is what was typed and not polled, in order, and what a
  poll has found is still there when it takes it, whatever the interrupt did
  in between. `WireInv`: from some byte on a key is what is on the wire, and the decoder
  stands where the bytes before took it; that only the last byte of a key
  gives a code (`DecodedRight`) makes the key one step. There is no hypothesis on the number of
  keys: what the theorem speaks of are the steps that leave the head in the array, up to the first
  key that is stored beyond it (section 6).
- **Kmain** (`KmainProofs`), for any devices, vectors and depth of interrupts:
  - `ResumesTheorem` (an action property): what is interrupted goes on as it was. `StubInv`
    says for each place of the stub where each group of registers, the place and the
    flag of what was interrupted last are kept: in the registers, on the stack, or in the
    thread's `ucontext` (`RegsInv`, `FrameInv`), and that whoever lies below had its own
    restored or was in the handler of one that never returns (`LevelsInv`). Each step
    of `kmain` and of the devices is a step of the stub or leaves it alone (`StubStep`).
  - `ContextIsFoundTheorem`: the stub finds the thread's context. `GsInv`: from
    `InstallContext` on both GS bases are that context, and no interrupt comes before.
  - `LoaderIsHeardTheorem`: `getauxval` gives what the boot loader said. `AuxInv`: the first
    entries of the vector are copied, the others are as memory was; that the vector says
    each type at most once (`VectorFacts`) makes the first match the right one.
  - `AcknowledgedTheorem`: each interrupt is acknowledged at the local APIC. `TablesInv`: while
    that APIC is not known, its table is among those still to come; `FlagInv`:
    interrupts are let in after the tables only; `ServiceInv`: at most one vector is in
    service, and the handler has it.
  - `IoapicsFitTheorem`: the two passes over the MADT agree. `PassesInv`: once a MADT is
    loaded no other comes, so that the count starts from nothing; it is the number of I/O
    APICs among the records passed, and then what is free of the array is the number of those to
    come (`AmongLast`, `AmongFirst`).

  Assumptions: `VectorsAssumption` (which vectors are exceptions), `LoadersAssumption`
  (what memory that was not cleared holds is zero or garbage), and `MachinesAssumption`: the root table lists a MADT, which has the local
  APIC's address (the code relies on that without a test: there is no other way to
  an acknowledgement); and `MadtAssumption`: there is no second MADT, and I/O APICs have
  addresses.
- **Dynld** (`DynldProofs`): `RelocatedOnceTheorem`, `ResolversRunLastTheorem`,
  `TableExclusiveTheorem`. `ProgressInv` says, for each thread, exactly which relocations
  are applied when it is at number n of a pass (`AppliedIsReached`: those whose
  own pass has come by them), that the thread knows when something
  waits (`WaitingIsKnown`; otherwise a later pass would be left out), and that the list
  of what was applied has no repetition and ends in resolvers. `LockInv` says who has
  the lock. Assumption: with bind-now the second table is as long as
  the first at least, as the code takes the size of the first for both.
- **EventRing** (`EventRingProofs`): `EventsWaitOnceTheorem`, for any number of
  producers, and `ImplementsQueueTheorem`: with one producer every step is a step of
  `EventQueue` or a stutter. The heads wrap, so the invariant speaks of numbers
  that do not (`HeadsInv`: r events taken, w published, and for each push under way
  how many it found published): a push found at most its lag fewer than
  there are now, so its compare-exchange succeeds only if nothing was published since
  (`ExchangeSucceeds`), and who began later found no fewer (`InOrder`). `PollInv` says
  where the poll is; `FirstRoundTakes`, that its exchange succeeds in the first round
  of the loop and never again. `LiveInv` is what is inductive about the events: one that
  has not been stored is nowhere else (`Fresh`); what waits, what is about to be
  published and what has just been taken has not been delivered (`Live`); and what was
  taken is not in use again (`TakenIsFree`). For the queue `AloneInv` adds that a
  single producer finds what is published, and that the value in the poll's hand is still that of
  its slot. Assumptions: one consumer; fewer events than the ring has slots
  are produced while one push is suspended (`InstanceAssumption`). Without the
  latter the theorem is false (section 6).
- **Clock** (`ClockProofs`): `BoottimeFollowsTscTheorem`, `ShownNeverBackTheorem` (an action
  property), `ClockIsRightTheorem`. `SteppedInv`: the steps of the TSC counted so
  far, with the one under way, are at most the time that has passed, and
  exactly that while the TSC has not been set back. `ShownInv`: the boot time noted by
  `init_rtc` is not ahead, and what is shown is not ahead of the clock. `SyncInv`: how the last step of
  `init_rtc` lies to the boundaries of the seconds, and what the boot time
  noted says of the boundary it waited for (`Noted`). Assumptions: the timer's
  period and the delays are short enough that `init_rtc` misses neither the flag nor
  its fall (`DelayAssumption`), and microseconds do not wrap (`BoottimeAssumption`).
- **RtcRead** (`ClockProofs`, over `RtcLog`): `UtcIsRightTheorem`, for any dates from 1970
  to 9999 and any updates of the clock, as long as fewer than sixty begin. It has
  three parts. *The calendar*: `LeapsCount` and `DaysCount` give the counts of `RtcDate`
  in closed form, by induction over the years and over the twelve months, and
  `NextIsLater` says that the second after a date is the same minute of the same
  day or the next one, over the end of an hour, a month or a year. (Induction is by sets here: the years
  for which the count is right, `AllCounted`, are all.)
  *The conversion*: where it is right, `AdjustedIs` (BCD, the afternoon bit and the assumed century
  give back the date) and `MinutesRight` (the 16-bit arithmetic of the code counts the
  same days). *The reading*: `UtcInv` knows of the reading under way the second c at which it
  began and, if an update has begun since, the one after it, and that each register that was
  read shows one of the two (`UnderWay`); of the first reading the same, and how many seconds n
  it lies before c (`First`). Lemma `Agreed` is the point: if two such readings are the same,
  the second is entirely of the second c. Their seconds rule out every n from 2
  to 59; with n = 0 the first was not torn; and with n = 1 only one of the two
  can have been torn in more than its seconds, for only one second in sixty is the last of its minute.
  The theorem does not choose the dates and formats by what the conversion makes of them: what
  is confirmed is one second's on every date and in every format (`Confirmed`, `BackAgain`), and only the last
  conjunct of `UtcIsRight`, the calendar's time, is conditional. Assumption: `RightAssumption`, fewer than
  sixty seconds. That is needed: with sixty TLC finds a counterexample (section 6).

`MutualExclusion`, `PublishedIsComplete`, `KgenExclusive` and `BlocksInHeap` are left
to the proofs; no run lists them.

Some definitions changed with the proofs. `Translate` gives nothing for a link to a table that is not
there (no state has one), without which its recursion need have no solution; for the same reason
`Visited` goes to tables that are there only. The assumptions of `KernelImage` are
new, and so is that a table which no entry refers to is not part of the boot
loader's tree. `DelayAssumption` bounded the delay by the time
the flag is up only; one that reaches from the fall of the flag past its next rise
was allowed, and then the clock is wrong. A CASE of `Dynld`, and one of each of `Stdio` and
`RandDev`, had guards that overlap, where TLA+ leaves the choice open and TLC
takes the first; they are in the order of the code now. What the boot takes for granted of
vectors, loaders and machines is stated (`Startup`, `Acpi`). The days of `RtcDate` are sizes of sets, which a
proof can count, where a recursive sum over the months stood. And the heap's
invariant no longer says whose map it has, so that it holds of the prekernel's, too.

Model-checked only:

- liveness (`SyncEnds`, `LinksReturn`, `PollsReturn`, ...): fairness and
  `ENABLED` are out of the prover's reach;
- what recursively defined values are for every input, which is `NumbersAreShown`: the digits in
  `Stdio`. It is the one invariant of a run that no theorem states.

## 6. Where the code is wrong

Shown by a run:

- **The key queue runs out of its array** (`keyboard_wrap`): `kbd_enqueue` and
  `kbd_poll_key` increment head and tail and never take them modulo
  `QUEUE_LEN`, although the comment on the queue (`keyboard.c:126`) describes
  indices that wrap. The 257th key is stored behind the array. Once the
  tail has come to `QUEUE_LEN`, no queue reads as full (`keyboard.c:143`).

Followed by a model, and excluded by name from what a property claims:

- `idt.s:82`, and on the way out `idt.s:129`: the stub decides whether to store the
  floating-point state by the quadword in front of the fxsave area, which is padding and
  zero: `xsave_size` is 48 bytes before it (`usercontext.h:64`, offset 456). `fxsave64` is
  never executed, although `usercontext.h:62` says that a context of that size contains the state,
  and a dump shows FCW, FTW and MXCSR as zero whatever the machine held (`StoreFloat`).
- `kernel/.../entry.s:71`: the bitmaps of `DT_RELR` are shifted to the left before their
  lowest bit is looked at, which is zero then, so that none of them is applied. The kernel is
  linked with packed relocations (`kernel/Makefile:35`): the words that a bitmap names stay
  without the base (`Kstart`).
- `rtc.c:103`: a century that is assumed (20) is then taken for BCD and becomes 14
  (`rtc.c:105`): where there is no century register, 2023 reads as 1423 (`ConversionIsRight`).
- `rtc.c:126`: `is_leap_year` is true of 1601, 1701, ..., 2101 only; from March
  on, dates of leap years are a day early, and those of 2001 and 2101 a day late.
- `rtc.c:105`: the afternoon bit of a 12-hour BCD clock is converted away
  before it is looked at (`ConversionIsRight`, too).

Found while modelling, not shown by a run of this project:

- `rtc.c:94`: every later reading is compared with the *first*; if the clock
  ticks in between, the loop ends only through a mixture of two seconds. And if that
  goes on for a minute, the mixture may be a wrong time: with 11:00:00, read at first, agrees
  what is read between 11:00:59 and 11:01:00 with the old minute and the new
  second (TLC, with `MaxSeconds` at 60).
- `idt.s:51`: the error code, popped into `rdx`, is overwritten by `mov dx, ds`
  and `rdmsr`; `handle_int_with_code` never gets it. `IsrStub` has this as
  `errcode`.
- `idt.s:160`: on the way out FS and kernel GS bases are overwritten with the GS
  base instead of loaded; harmless with kernel threads only (`ContextIsFound`).
- `idt.s:192`: the comment says trap gates, the type is an interrupt gate. The
  faulty variant `TrapGate` shows that trap gates would be wrong.
- `entry.c:62`, `entry.c:130`: the kernel's image is allocated after the map was
  made; an image larger than 16 MiB would be partly in memory marked usable.
- `alloc.c:8`: the prekernel's allocator has no bound.
- `prekernel/.../paging.c:60`: `vprotect` bounds its last loop by the address of
  the level above the one above, which need not be aligned, so that the index
  wraps to the first pages of the table; its last page is never changed
  (a request for one page does nothing); `:65`: "set R/W" sets bit 0x20, the
  accessed bit, so that nothing is ever made writable or read-only.
- `prekernel/.../entry.c:88`: what a segment has in memory beyond the file (`.bss`)
  is never cleared, `__auxent` among it: for what the boot loader does not
  provide `getauxval` returns what memory held. `main.c:46`: its bound is 128, the
  array has 126 entries.
- `prekernel/.../entry.c`: one video mode is handed over, with the boot loader's
  count of all.
- `kernel/.../entry.s`: the loop that would copy the feature array is jumped over. `dynld.c` takes the size of that table for its count.
- `main.c:392`: the result of `rand_init` is not looked at: without `AT_RANDOM` and
  a source the generator stays as it was.
- `main.c:404`: between `load_arch_state` and `init_context` an exception or `hcf` finds
  no context, and the stub writes through null.
- `tsc.c:34`: the test for a zero denominator is inverted: the kernel stops where
  the frequency is known, and divides by zero where it is not.
- `auxfuncs.h:18`: `hcf` copies its mark to `r12`, where the trap's handler looks for
  the message: printing that faults, the fault is taken, printed and returned
  from, for ever.
- `main.c`, page fault handler: it writes a mark for each of 32 bits into an
  array of 17, the upper ones in front of it.
- `print_context.c:19`: the selector of the LDT is used as an index; `:228`, `:229`: the
  masks of the condition codes and of the stack's top are wrong (43 for 0x47, 3 for 7).
- `arch_state.c:98`: what `tss` is given are the lowest addresses of the stacks, not
  their ends.
- `entropy.c:172`: `rd_write` of 15 bytes more than a multiple of 16 writes `rest[16]`;
  it always ingests the first block once more instead of the rest;
  `entropy.c:196`: a rest is counted as a whole block.
- `xsave.c`: the place of a component is given when it is *not* present; the offsets
  of aligned components keep the remainder instead of being rounded up; the
  compacted format is looked for in bit 63 of the wrong word.
- `memory.c:147`: `strnlen` reads one byte past its limit.
- `loader.c`: compares `e_phnum` with the size of a header.
- `arch_state.c:135`: the limit of the IDT is 255 * 16, a byte past the entry before
  the last: vector 255 has no gate.
- `acpi.c:216`: the redirection goes to the first I/O APIC of the table, whether
  there is one or not.
- `stdio.c:284`: a sign is taken off the padding although there may be none, so
  that a negative number would be preceded by 2^32 - 1 zeros; and padding in front
  of the sign is made of zeros. No number the kernel prints is negative.
- `stdio.c:367`: of a number of more than 16 digits (in binary, or with a larger
  precision) the last is cut; `stdio.c:602`: octal numbers are printed with
  radix 2; `stdio.c:466`: the `*` of a width is not skipped; `stdio.c:309`:
  `print_unsigned_int` ends without a value, so that what `vfprintf` returns after
  such a number is anything.
- `acpi.c:60`: a MADT record of length zero makes the loop stand still;
  `acpi.c:145`: the loop that maps the DSDT skips a page; `acpi.c:55`: the count is
  not reset for a second MADT.
- `entropy.c:27`: a producer suspended while the ring goes all the way round
  succeeds with a stale position, and events are delivered twice (`MaxOverlap`
  of `RingSize - 1` shows it); two consumers may return the same event.
- `dynld.c:446`: with a full table `dynld_link` returns with the lock held;
  `dynld.c:457`: the offset is stored back unchanged, so the table never fills.
- `main.c:290`: on a line longer than the screen `cursor_start_y` goes below zero.
- `keyboard.c:133`: one bit for two shift keys; `keyboard.c:60`: the Pause key
  (E1 1D ...) is taken for left control.

## 7. What is left out, and the plan

Not modelled, and to stay so: the cryptography of the generators and the hash
headers (arithmetic on words), port output to the serial line, the names of the
CPUID bits, drawing on the framebuffer, the build tool, Limine and flanterm
themselves. Of `stdio.c`: `%c`, `%S`, `%r`, `%U`, `%b`, `%o` and `snprintf`. Memory
orders weaker than sequential consistency are left out: TLC has no model of
them, and every modelled variable has a single atomic operation as its
synchronisation. What follows a store beyond the array of keys is left out,
as it depends on what the linker has put there, and so is the bus-lock bit of `dr6`, which
the kernel never enables.

Not modelled because nothing reaches it: the system call entry (no call is
defined and the entry is not installed), `create_context` and `lock_context` (there
is no scheduler), `loader.c`, `load_full_ucontext`, `xsave_read_xmm`. A model of these
would have to invent their callers. (`xsave_get_state`, whose one caller is the last,
is modelled all the same, for any caller, as it is what synchronises.)

Done so far, in this order: heap, `call_once`, ring, generators, keyboard, line
editor, boot map, page tables, loader, clock, interrupt entry, boot, reading of
the date, numbers in output, ACPI tables and the second half of `kmain`; then the
random devices, the kernel's image, the first half of `kmain`, the extended state
and the context dump.

Next, in this order:

1. `EventRing` under `KernelRandom` in place of the abstract entropy.
2. The pages `Acpi` maps on the tables of `PageTable`.
3. `Console`: `Keyboard` feeding `LineEditor`; results (`%r`) in `Stdio` with what a
   page fault and the trap of `hcf` print.
4. The relocations of `DT_RELR` and the look-up by hash in `Dynld`.

Abstract specifications worth adding: a lossless clock for `Clock`, a partial map
from pages to memory for `PageTable`.

Theorems worth proving next: that `MCKmain`'s handlers compose with the ring and the key
queue.
