# NMV: a verification project in TLA+

The repository holds the programming exercises of a course on kernels and virtual machines. Three of
its parts are programs:

* **Rackdoll** (`TME/TME1/NMV-TP_01-La_table_des_pages`), a small 64-bit kernel: page tables, a
  cooperative scheduler for user tasks, interrupts, a text console.
* **Janus** (`TME/TME3/janus`), a virtual machine monitor that runs a small guest kernel in its own
  process: a signal handler emulates every privileged instruction and every access to the low
  memory. `monitor/` is the monitor and `guest/` the guest kernel.
* **Cache benchmarks** (`TME/TME2`), timed loops without state.

The rest is course notes, third-party headers (`janus/xed`) and build products.

Paths below are relative to the two directories above: `kernel/…`, `task/…` are of Rackdoll,
`guest/…`, `monitor/…` of Janus.

## 1. Inventory

| Component | State | Operations | What makes it correct |
|---|---|---|---|
| Scheduler, `kernel/task.c` | `fifo`, `fifo_size`, `fifo_run`, `save`, the interrupt frame, cr3 | load, enter, yield, exit, fork | every task keeps its own registers, the slot of the caller is the one acted on, the kernel comes back when no task is left, no task waits for ever |
| Loading of tasks, `kernel/task.c` | the boot information, `fifo` | `load_tasks`, `parse_task` | every module with a header becomes a task, in its own place |
| Memory, `kernel/memory.c` | page tables, `bitset`, cr3 | `alloc_page`, `map_page`, `load_task`, `set_task` | the kernel's mappings survive, also for a task; each task has a tree, with its own pages, which it may use (the code does not do so: section 4); no table belongs to two trees |
| Interrupts, `kernel/idt.c`, `trap.pl` | gates, TSS, stack, the two controllers | `setup_interrupts`, the stubs, `trap`, `setup_tss`, `setup_pic` | processor, stub and handler agree on the frame; the stack of the kernel survives; no device interrupt is taken for an exception |
| Console, `kernel/vga.c` = `guest/vga.c` | video memory, `cursor` | `clear`, `putc`, `scroll` | the cursor stays on the screen; the screen shows the text |
| printk, `kernel/printk.c` = `guest/printk.c` | the call in progress | `printk`, `snprintk` | what is shown is the value, in its field, within the buffer |
| User tasks, `task/*.c` | two arrays of pages | sieve, hash table | the sieve prints the primes |
| Guest memory, `guest/memory.c` | page tables, `bitset`, the processor's cached translations | `alloc_page`, `free_page`, `map_page`, `unmap_page`, `mmap`, `munmap`, `pgfault` | an address space: operations on one address change no other, nothing leaks, no stale translation |
| Virtual processor, `monitor/state.c` | mode, control registers, EFER, selectors, GDT, IDT, pending vectors, screen | one function for each privileged instruction | register consistency; no fault is lost |
| Interception, `monitor/intercept.c` | the guest's registers and stack | the signal handler | interrupts return where they came from; values reach the register that was named |
| Shadow memory, `monitor/shadow.c` | (the screen) | `trap_write`, `trap_read`, `set_page_table`, `set_flat_mapping` | emulated accesses act as on a machine |
| Physical memory, `monitor/memory.c` | backend file, the protections of the low mappings | allocate, map, protect, read | no page of low memory is writable while the guest runs, and all are as loaded while the monitor does; what is mapped is backed |
| Loader, `monitor/multiboot2.c`, `monitor.c` | the file, the guest's memory | parse, load, start | the image lands where it was linked |

Interactions: the tasks of Rackdoll reach the scheduler by an interrupt whose handler rewrites the
frame (`*ctx = …`), so that a switch is a return; the scheduler calls `load_task` and `set_task` of
the memory manager. The Janus guest reaches the monitor by a signal for each privileged instruction;
guest and monitor are one thread and one address space, and the monitor stops the guest until its
handler returns. The guest's console writes to a page that traps. The guest's page fault handler
runs in the middle of the program's stores.

Nothing runs in parallel: one processor, no timer, handlers with interrupts masked. What is hard is
the *order*: long sequences of legal calls, structure copies, state read from stale places,
exhaustion in the middle of an operation, nested interrupts, frames and stacks shared by code of
different levels, and the agreement of code written in different places. The hazards in
`PROJECT.json` name these at their lines.

## 2. Modules

| Module | Models | Checked by |
|---|---|---|
| `TaskMachine` | abstract: tasks with private register contexts | refinement target |
| `Scheduler`, `SchedulerProofs` | the system calls of `kernel/task.c`, `pgfault`, the end of `main_multiboot2` | `scheduler`, TLAPS |
| `RackdollPaging`, `RackdollPagingProofs` | `kernel/memory.c`, the tables of `kernel/entry.S`, the mapping made in `kernel/main.c` | `rackdoll`, `rackdoll_each_task`, TLAPS |
| `RackdollLoader` | `load_tasks`, `parse_task` | `rackdoll_boot` |
| `RackdollInterrupts` | `kernel/idt.c`, `kernel/trap.pl`, `include/idt.h`, `setup_tss` | `rackdoll_boot` |
| `RackdollBoot`, `RackdollBootProofs` | composition of the two above: `main_multiboot2` from its first call to its end, with the system calls on the registers and the stack | `rackdoll_boot`, TLAPS |
| `Terminal` | abstract: a page of rows and columns | refinement target |
| `VgaConsole`, `OutputProofs` | `kernel/vga.c` and `guest/vga.c` | `console`, TLAPS |
| `Formatting` | reference: what a format is made of, and what it and its arguments stand for | used by `Printk` |
| `Printk`, `OutputProofs` | `kernel/printk.c` and `guest/printk.c` | `printk_sieve`, TLAPS |
| `SieveTask`, `OutputProofs` | `task/sieve.c`, its output through `Printk` | `printk_sieve`, TLAPS |
| `AddressSpace` | abstract: a map from addresses to pages with contents | refinement target |
| `GuestPaging`, `GuestPagingProofs` | `guest/memory.c`, the calls of `guest/main.c`, the processor's walk and its translation cache | `guest_paging`, `guest_paging_stale`, TLAPS |
| `JanusVga` | `trap_write`, `trap_read`, `write_vga` | `janus_console` |
| `JanusConsole`, `JanusConsoleProofs` | composition of `VgaConsole` (guest) and `JanusVga` (monitor) | `janus_console`, TLAPS |
| `JanusCpu`, `JanusCpuProofs` | `monitor/state.c` and the handler of `monitor/intercept.c` | `janus_cpu`, TLAPS |
| `JanusRegisters` | the transfers between general registers and processor in `monitor/intercept.c` | `janus_boot` |
| `JanusBoot` | composition: `guest/entry.S`, the boot of `guest/main.c`, `default_interrupt`, on `JanusCpu` through `JanusRegisters` | `janus_boot`, TLAPS (in `JanusCpuProofs`) |
| `JanusMemory` | `monitor/memory.c`, `set_flat_mapping` | `janus_monitor` |
| `JanusLoader` | `monitor/multiboot2.c` | `janus_monitor` |
| `JanusWalk` | `parse_pml_lvl` of `monitor/shadow.c` | `janus_monitor` |
| `JanusMonitor`, `JanusMonitorProofs` | composition of the three above: `monitor/monitor.c` and the signal handler around the emulation | `janus_monitor`, TLAPS |

The modules `MC…` give the constants of a run their values. Definitions whose name begins with
`Faulty` are seeded faults: each is a plausible mistake in the definition that follows it, which is
used to check that a property notices it. No specification uses them.

**Scheduler.** One action is one handler. A register context is the frame of an interrupt; its field
`id` is a history variable that travels with the registers in every structure copy, and so tells
whose registers a slot holds. `phase` is the place of `main_multiboot2`. The slot of the running
task is stale: its registers are in `ctx`. The refinement mapping takes them from there while the
task runs and from its slot while it waits. The module assumes that `set_task` leaves the handler's
code mapped, which it does not (section 4).

**RackdollPaging.** Physical memory is a function from frames to words, an entry an address with its
flags. `map_page` is written level by level with the code's own validity test: `!PGT_IS_VALID(x)`
expands to `!x & 0x1`, which is "the word is zero". The page that each mapping allocates in vain is
allocated in the model too. Tasks have the root that the code gives them, physical page 0, which
holds what the firmware left. `Walk` is the address that a walk comes to, not the right to use it;
`LastTaskMapped` is about addresses, and only about the task loaded last, since the trees of the
others are gone (section 4).

**RackdollLoader, RackdollInterrupts, RackdollBoot.** The boot information is a sequence of tags
with sizes; the walk rounds each to eight bytes as the code does. A module is a place, a size and
the offset of its header, and the header search advances by quadwords with the code's test `ptr ==
end`. A stack is a function from positions to words, a word is the name of a register and whose
value it holds; an interrupt pushes the frame of the processor, the zero of the stub for the vectors
that `trap.pl` does not list, and the registers in the order of the stub; `trap` reads them by the
fields of `struct interrupt_context`. The stack of the tasks starts where the stack pointer of
`setup_tss` was, so that their frames and the frames of the kernel share words; the numbers of words
each function has on the stack are constants, as the compiler lays them out. Between two traps a
task writes its registers (`TaskRuns`), and the history variable `own` keeps what each live task has
left there and what its fork was answered. The system calls are those that leave the context alone
(`Answer`), yield, fork and exit; which task is next is left open, as `Scheduler` has that. Every
gate has the privilege of user mode (`idt.c:28`), so that a task may execute `int` with any vector.
`TaskInts` are vectors for which it does, of any but two kinds (`TaskIntAssumption`): vector 129,
whose handler would take the task for the kernel and overwrite `save` (`task.c:172`), and those of
`Errvec`, where neither the processor nor the stub pushes a code and the frame is one word short. No
task of the repository executes either. `Tags` and `MaxTags` bound what the boot loader may leave.

**Printk, Formatting, SieveTask.** One step of `Printk` is a turn of the loop of `vhprintk` or the
output of one conversion. Integers wrap at their width. `Formatting` says what the call should show,
with the quirks that are the code's choice: a blank is written before an explicit `+`, `0` is
ignored with `-`, an unknown type prints nothing and takes no argument, `snprintk` writes no
terminating zero, `%lld` is not supported. It also says what a format is (`Item`): text without a
percent sign, two percent signs, and complete conversions; a width is a number written without a 0
in front, since that would be a flag, and small enough for the code's `minimum_size`. `Characters`
are those that formats, texts and numbers are made of; the terminating zero is the end of the
sequence. `SieveTask` runs on a memory service whose fresh pages are zero, which is what the task is
written for; in Rackdoll both system calls are empty.

**GuestPaging.** Tables and data are words of the same frames, so that a page that is not cleared
becomes a table with the old contents as entries. `map_page` takes one step per level. A store may
cache the translation that it used, and the processor may drop it at any time. The clients follow
`guest/main.c`: they map by hand only outside the automatic area and only unmapped addresses, and
give back once what they allocated. The model stops at the first exhaustion.

**VgaConsole, JanusVga, JanusConsole.** `putc` is one action: the characters that it distinguishes
are `\n`, `\r`, `\t` and the rest. In `JanusConsole` each store of the guest, those of the loop of
`clear` included (`ClearCell`), goes through `trap_write`; they are stores of two bytes at even
addresses, the only ones that the console makes, so that odd addresses and other widths, which
`trap_write` treats wrongly (section 4), are not exercised. The refinement counts `clear` as done
when it begins. The loads of `scroll` end the monitor (`trap_read`), which is a limit of the code
the model keeps (`PutcScroll`).

**JanusCpu, JanusRegisters, JanusBoot.** One action is one run of the signal handler: emulate, then
deliver the lowest pending vector. A control register is the set of its bits that the code looks at.
The guest's code is left open in `JanusCpu`: any privileged instruction may follow any other, in the
main code and in handlers; the return from a handler is the stub of `guest/trap.pl`, which knows by
its own table which vectors have an error code. A general protection fault does not stop the
emulation, as in the code. What kills the monitor (null GDT, null entry) ends in `vm = "killed"`.
`JanusRegisters` adds the saved general registers: a word is the set of its bits, reads and writes
mask it by the width of the name, `rdmsr` and `wrmsr` join and split the halves. `JanusBoot`
restricts the guest to the instructions of `entry.S`, with the values they load, read, change and
write back, and to the first calls of `main_multiboot2`, with every fault going to
`default_interrupt`.

**JanusMemory, JanusLoader, JanusWalk, JanusMonitor.** The unit of memory is the page; a page of the
process is unmapped, of the monitor, or of the backend, with its protection. `low_memory_maps` holds
what was read from `/proc/self/maps` at the last protection. With as many low mappings as
`low_memory_maps` has places the loop of `protect_low_memory` looks at what lies behind the lines
that it has read: this is no low mapping, and the process ends with the message of `memory.c:159`,
or it looks like one and is written behind the array (`SealOverruns`), where the model stops. The
file of a kernel is its sequence of words; the search compares words and sums, in a buffer behind
which it finds the heap (`BufferWord`), the walk of the tags advances by the size rounded to eight,
and an uninitialised field of `info` is any of a few values. A header that begins in the search zone
and ends behind it is walked on into the heap, and `LoadedAsLinked` and `ParsingEnds` exclude it
(`HeaderInZone`, which Multiboot2 demands). An image may be copied over the monitor's own data,
which nothing checks (`LoadOverMonitor`): the model stops there too. The walk of a page table shifts
each index as an `int`, which loses or extends it. `JanusMonitor` goes through `main()` and then
through any number of traps: open, emulate or list a table, seal.

## 3. Runs

| Run | Bounds | Shows |
|---|---|---|
| `scheduler` | 3 slots, 3 tasks, 2 register values | the slot array implements `TaskMachine`; the caller is the current slot; live slots are distinct and hold tasks; the kernel resumes last; no starvation |
| `guest_paging` | 5 pages, 3 levels, 3 addresses, tables of 2 entries | the tables form a tree, mapped pages are owned, cached translations agree, every page is free, a table or data and nothing is freed twice; `AddressSpace` is implemented |
| `guest_paging_stale` | the same, a second automatic address, odd data | finding |
| `rackdoll` | 3 tasks of up to 2 pages and 1 page of bss, gaps of up to 1 page | the kernel's tree is intact, the addresses of the last task lead to its module, the tables of the kernel and of the task are apart |
| `rackdoll_each_task` | the same | finding |
| `rackdoll_boot` | up to 3 tags of 6 kinds, 2 slots, 26 words of stack, exceptions 0, 13, 14, 17, `int` 21, one register that tasks write | frames are contexts, contexts are restored through forks, yields and exits, no device interrupt is an exception, modules become tasks |
| `console` | 3 lines of 3 cells, tabulation 2, 2 characters | the cursor stays on the screen; `Terminal` is implemented |
| `printk_sieve` | ints of 4 bits, longs of 6; every type with 11 combinations of flags, 3 widths, 3 buffer sizes; pairs of conversions; the sieve to 20 on pages of 7 words | what is printed is what was asked, the format is not read past its end; after every turn the array is what is left of the sieve, and the task ends with the primes |
| `janus_console` | 2 lines of 3 cells | the guest's console on the emulated screen behaves as on a machine, and never makes the monitor abort |
| `janus_cpu` | 9 instructions in the main code and in each handler, 3 nested handlers | stack shape, returns, PAE under long mode |
| `janus_boot` | the boot with 3 leftovers in each of 3 registers, then 2 free instructions; 2 writes per print | a clean boot, the registers end with the bits that `entry.S` asks for, faults are reported |
| `janus_monitor` | low memory of 3 pages, a backend of 5, an array of 3 mappings; 75 kernels, 2 heaps, 5 layouts of low memory, 10 page tables | no page of low memory can be written while the guest runs, all are as loaded while the monitor runs, the image is as linked, listings are right below 2 GiB, no seal finds more mappings than were loaded, parsing ends |

The bounds. Three slots make a first, a middle and a last one, and every move of `exit_task`; a
fourth adds no new position. Three levels make a root, a middle table and a last one; two addresses
share every table and the third only the root. Five pages suffice for every address to be mapped and
for exhaustion to happen. Two tasks suffice for one to replace another, three are what the Makefile
builds; the pool of `rackdoll` is the smallest in which they fit. Three tags make one before and one
after a module; the modules have a header at the start, in the middle or none, and sizes that are
and are not multiples of 8; the tags have sizes that are and are not. Three lines make a first, a
last and one between; a tabulation that does not divide the line gives the carry over a line.
Integers of 4 and 6 bits have a least value, numbers of one to four digits and longs that are no
ints; widths are below, within and above the length of what is printed. A sieve of 20 crosses two
pages of 7 words and turns often enough for the two arrays to be recycled. Nine instructions are one
more than the longest sequence that enters long mode and leaves PAE or returns from a nested fault;
three nested handlers put a frame between two others. The registers begin empty, full, or with bits
in every part that a width cuts. In `janus_monitor` pages 0 to 2 are low memory, 3 to 5 the first
part of the guest's memory, 6 the bss of the monitor, from 8 on the second part, in the order and
with the gaps of the real addresses; the low pages are filled with code, constants and data in five
ways; an array of 3 mappings is full for some layouts and not for others; the search zone has 28
words, and the headers, of 10 to 26 words, lie behind nothing, behind a magic number that is none,
behind 10 words, whole in the zone but for the longest, behind 24, so that their tags leave it, or
behind 28, outside of it, with tags in several orders, repeated, missing, or of size zero; shifts of
2, 4, 6 and 8 in an int of 8 bits stand for 12, 21, 30 and 39 in 32.

Deadlock is not checked where the system ends: `JanusCpu` and `JanusBoot`, where the monitor's
process ends and the counters `MaxRip` and `MaxNest` stop the exploration, `JanusMonitor`,
`RackdollBoot` and `SieveTask`, where the process, the kernel and the task end.

Fairness. `FairSpec` of `Scheduler` has weak fairness of `Yield \/ Exit` (a task does not keep the
processor for ever: all three tasks of `task/` yield or exit), of entering the tasks, and of `Die`,
the kernel's own code. No fairness is assumed of computations, of forks or of faults, and
`NoStarvation` speaks of behaviours where forks stop: a task that forks and whose children exit can
overtake others for ever. `BootSpec` has weak fairness of the guest's instructions and of its fault
handler: guest and monitor are one thread of the host, and a signal is always delivered. `SieveTask`
has weak fairness of the loop of `printk` and of the task: sequential code that nothing preempts.
`JanusMonitor` has it of `main()` and of the handler, the monitor's own code, and not of the guest,
which may compute for ever.

## 4. Findings

Each is a run that reaches a state that a comment or the report of the repository excludes.

* `guest_paging_stale`: `map_page` does not clear new tables (`guest/memory.c:109`): an odd word
  left in the page maps an address of the area that `guest/memory.c:70` calls automatic, and the
  access does not fault.
* `rackdoll_each_task`: no task is given a PML4 (`kernel/memory.c:252`), where `TME1/CR.md:120` asks
  for a new page table for each. All share page 0, and run the code of the task loaded last.

Seen while modelling, without a run of their own.

Rackdoll:
* The 0 of an exhausted pool becomes a table in page 0 (`kernel/memory.c:140`).
* A task's pages are mapped with 0x11, present and cache-disable, where `include/mask_and_coo.h:19`
  says user, writable and valid: user mode may not use them. The bss of a task is not cleared
  (`CR.md:128`).
* `load_task` copies entry 1 of the PML3 (`kernel/memory.c:267`) although the kernel is mapped under
  entry 0; after `set_task` its code is not mapped, which `TME1/CR.md:135` asks for.
* `mmap` and `munmap` have empty bodies and `pgfault` halts: the first store of `sieve.c` and
  `hash.c` to a page of their own ends the kernel.
* A module without a header becomes a task when its size is no multiple of 8 (`kernel/task.c:115`);
  `TasksAreModules` states the exception.
* The interrupt stack of the tasks begins where the stack pointer of `setup_tss` was
  (`kernel/task.c:87`), below which `run_tasks` keeps its return address: their frames leave it
  intact only because `setup_tss` has at least as many words on the stack as `run_tasks` saves
  (`FrameAssumption`).
* The scheduler's array is not a fifo (`task.c:26`): the task of slot 1 runs first and an exit moves
  the last task forward.
* The stubs push a zero where the processor pushes no code, except that `trap.pl:10` does not list
  vectors 21, 29 and 30, which have one; they belong to features that the kernel does not enable
  (`ExceptionAssumption`).
* A task may execute `int $129`, whose handler overwrites the saved context of the kernel, or `int`
  with a vector that has an error code, which then leaves a frame one word short: all gates are open
  to it (`kernel/idt.c:28`).
* `printk` with a format that ends in an unfinished conversion (`"%5"`) reads past its end
  (`kernel/printk.c:85`); `StaysInFormat` is about formats made of complete conversions.
* `hash.c:47` copies 25 bytes into a buffer of 16.

Janus:
* The exhausted pool of the guest (`guest/memory.c:109`, `:79`): as in Rackdoll.
* `trap_write` checks the first byte only, with `<=` (`monitor/shadow.c:107`; `TME3/README.md:101`);
  the cells of a wide write all get the same two bytes (`:104`, `:111`); `trap_read` exits
  (`shadow.h:29`) and `set_page_table` installs nothing (`shadow.h:40`), both unfinished in this
  commit.
* A tag of size zero makes the loader loop for ever (`multiboot2.c:80`); `ParsingEnds` excludes it.
* Addresses of 2 GiB and above are listed wrong (`shadow.c:77`); `ListsLowMappings` excludes them.
* `move to CR8` stores past the array of control registers (`state.c:173`); `read_register` of a
  high byte register would return the low byte; the comment of `entry.S` announces WP, the mask sets
  bit 8.
* The monitor pushes an error code for vectors 9 and 16 (`intercept.c:399`, `:405`) and the guest's
  stub expects none (`guest/trap.pl:10`). Only vector 13 is ever raised, on which they agree.
* `protect_low_memory` compares its count with the length of the array after the loop, and with `==`
  (`monitor/memory.c:147`): a process loaded with too many low mappings may have its data
  overwritten (`SealOverruns`) and not the message of `:159`. `FewMapsKept` is about the others.
* The upper part of the guest's memory is mapped at offset 4 GiB of a backend of 3 GiB
  (`monitor/shadow.c:53`), where `:45` speaks of the remaining memory: an access there is a bus
  error, for which no handler is installed (`BusError`).
* Only low memory is sealed (`monitor/memory.c:140`): the bss of the monitor, at 2 GiB, stays
  writable while the guest runs.
* A header that leaves the search zone is walked in the heap (`multiboot2.c:64`), and an image is
  copied wherever it asks to be, also over the monitor's data (`multiboot2.c:146`).
* `vector_grow` never updates its capacity (`vector.h:43`, unused).

## 5. Proofs

| Theorem | For every | Assuming |
|---|---|---|
| `SchedulerProofs`: `TypeCorrect`, `CurrentIsCallerCorrect`, `SlotsDistinctCorrect`, `KernelResumesCorrect` | number of slots, set of tasks, set of register contents | `FifoLen` is positive, `NoTask` is no task |
| `SchedulerProofs`: `SchedulerImplementsTaskMachine` | the same | the same |
| `OutputProofs`: `TypeCorrect`, `ConsoleImplementsTerminal` | size of screen, tabulation, set of characters | at least one line, and lines longer than a tabulation |
| `OutputProofs`: `PrintkIsFaithful`, `PrintkStaysInFormat` | set of characters, calls of the kernel (items, flags, widths, arguments, size of buffer), width of an int and of a long | a long is wider than an int (`FormattingAssumption`); digits, flags and signs are characters (`CharactersAssumption`); the calls are made of items (`SieveAssumption`) |
| `OutputProofs`: `SieveLeavesPrimes`, `SieveSaysOk` | `MAX_SEARCH`, number of words of a page | `MAX_SEARCH` is above 2, a page has a word (`SieveAssumption`) |
| `JanusConsoleProofs`: `StoresOnScreen`, `ConsoleIsFaithful` | the same | the same |
| `JanusCpuProofs`: `TypeCorrect`, `NothingPendingCorrect`, `StackShapeCorrect`, `InterruptsReturnCorrect`, `LongModeNeedsPaeCorrect` | set of values of the control registers, number of instructions and depth of nesting | the values are made of known bits; `CS` is a selector |
| `JanusCpuProofs`: `BootCorrect`, `FaultsFindHandler`, `BootedAsAsked` | content of the registers at the start, number of free instructions and of writes per print | the same, and the selectors are those of `entry.S` |
| `JanusMonitorProofs`: `GuestCannotWriteMonitor`, `MonitorStaysIntact` | size of memory, filling of low memory, length of the array of mappings, kernel, number of traps | the order of the areas (`MemoryAssumption`) |
| `JanusMonitorProofs`: `FewMapsSuffice` | the same | the same; the property is about layouts with fewer low mappings than the array has places |
| `JanusMonitorProofs`: `ImageAsLinked` | kernel whose header is whole in the search zone: place of its header, number, order and contents of its tags; search zone; window of the guest's memory | `KernelAssumption`: below |
| `JanusMonitorProofs`: `LowMappingsListed` | tables of the guest; bits of a page, of an index and of an int | an int has room for a page and one index (`WalkAssumption`); a leaf has one to four indices (`MonitorAssumption`) |
| `GuestPagingProofs`: `TablesAreATree`, `PagesReached`, `TlbAgrees`, `NoLeakNoDoubleFree`, `AutomaticPages`, `ImplementsAddressSpace` | number of pages, of levels and of entries, set of addresses | `PagingAssumption`, and `EvenData`: the program stores even words |
| `RackdollBootProofs`: `TypeCorrect`, `FramesAgree`, `ContextsComeBack`, `IrqsStayApart` | size of the stack and of the compiler's frames, exceptions, number of tasks and calls, what tasks write in which registers, mask left by the firmware | `FrameAssumption`, `ExceptionAssumption`, `WrittenAssumption`; no task executes `int $129` or `int` with a vector of `Errvec` (`TaskIntAssumption`) |
| `RackdollBootProofs`: `ModulesLoaded` | boot information, length of the array of tasks | `LoaderAssumption`: a tag has a type and a size, a header lies in its module |
| `RackdollPagingProofs`: `KernelTreeStays`, `LastTaskReached`, `TablesStayApart` | number and size of tasks, gaps between modules | `PoolFits`: the pool has room for them |

*Scheduler.* None of the invariants is inductive alone. The inductive one joins types, the agreement
of the current slot with the frame while a task runs, distinctness and nature of the live slots, the
kernel's frame in `save` or in `ctx` according to the phase, and what is alive in each phase. It is
needed because an exit copies the last slot: that the copy does not duplicate a task rests on
distinctness, that the copied slot can be run on its holding a task. The refinement takes one lemma
per action: each computes the mapped registers and the running task before and after.

*Console.* The invariant is that the cursor is a cell. Two lemmas give the quotient and the
remainder by the length of a line, which the provers lack, and each character is then a case: the
place after it is at most one line further, so that one scroll suffices; the mapped page is then the
terminal's page moved up, or not.

*Printk.* The invariant compares what is left to read with what is left to print: in each state what
the items of the call show is what the handler has taken followed by what some sequence of items
still owes, and the input and the arguments are those of these items. The state lies between two
items, inside a plain text, after a percent sign, or holds a conversion that has been read; once the
handler has refused a character, the buffer is full and what it holds is the beginning of what the
items show. Two lemmas carry it. `FormatIsRead`: from the written form of any conversion the code
reads back its flags, width, length and type, and stops right behind the type; this is where the
width must not begin with a 0 and the type must be no flag, digit or `l`, and it gives
`StaysInFormat`. `ConversionIsPrinted`: what each function prints, digit by digit with a divisor
that goes down to 1, is the numeral of the reference in its field, with the sign of a value that
wraps at its width. The functions that compute lengths, divisors and numerals are recursive; that
they exist, and what they compute, is shown by induction.

*Sieve.* The invariant is `SievedSoFar` and that the two arrays have pages of their own. `filter`
divides by the numbers at places 2 to `index` - 1 of the array, and it must be shown that these are
the first primes: a composite that the first n - 3 primes leave has a smaller prime that is not
among them, hence at least n smaller numbers that are left, and stands further on. So what is kept
is what one prime more leaves, in the same order, and once `index` has reached the length only
primes are left behind 0 and 1; what `entry` counts is then right (`SieveSaysOk`). `filter` writes
only the beginning of an array whose rest is zeros, because `realloc_array` has mapped its pages
again.

*Console on the emulated screen.* The invariant relates two programs: the cursor, which only the
guest has, is a cell of the screen, which only the monitor has. While `clear` runs, its index is a
cell too. It follows that the range check of `write_vga` never fails, although the one of
`trap_write` lets one address too many through. The refinement is a step property, that a step after
which the monitor goes on is a step of `VgaConsole`; the scroll, at which the monitor gives up, is
the limit.

*Virtual processor.* The inductive invariant adds to the types that nothing is pending between two
traps, and the shape of the stack: one frame of six words for each interrupt in progress, the second
word of each being the place to return to. The return of an interrupt needs both: the stub and
`iretq` remove six words exactly when the vector delivered pushed six. A fault history makes the
statement on PAE inductive: it holds until a fault is raised, because the code writes registers in
spite of the faults.

*Boot of the Janus guest.* `entry.S` is straight-line code, and its invariant says what each
register holds before each instruction, whatever the registers held at the start: what has been
loaded, masked and written back is known bit by bit. After `lidt` the invariant only keeps that
there is an IDT and that the mode is 64-bit: no later instruction of any program takes either away,
so that every fault finds `default_interrupt`. `BootedAsAsked` is the safety part of `ReachesMain`.

*Janus monitor.* The process has one of three views of its memory: as loaded, with the guest's
memory mapped, and the second sealed. The theorems follow when sealing and opening undo each other
(`OpenUndoesSeal`), whatever the linker left: the protections are those of mappings, which are
intervals that the host makes of neighbouring pages, so that the lemmas show that every low page
with something in it lies in exactly one mapping, and has its protection. What is saved at one trap
is what is restored at the next, because each seal reads the mappings again from the same view.

*Janus loader.* `LoadedAsLinked` has an invariant of its own: nothing of the guest's memory has
changed before the copy, the walk stands before some tag with the tags before it read, or for ever
at one without a size, and after the copy the image is as it was linked. Three things are shown:
where the words of a kernel are in its file, by induction on the number of its tags; that the
rounding of the walk agrees with the padding of the tags, so that the walk goes from tag to tag; and
that the copy is right. For the last the code subtracts 32-bit numbers. A start that wraps around
lies so far behind the header that the file ends first, and a length of the image or of the bss that
wraps around reaches the end of the 32-bit addresses, where the guest has no memory: the load is
refused. The header must be whole in the search zone (`HeaderInZone`), so that the walk reads the
file and never the heap behind the buffer. `KernelAssumption` does the rest: a tag has its size or
none, an address tag that names a part of the file that is not empty names one with the header in
it, as Multiboot2 asks, and nothing else in the zone looks like a header; the file is smaller than 4
GiB, and the memory with 32-bit addresses ends before (at 2 GiB, `shadow.c:35`).

*Listing of page tables.* `ListsLowMappings` is about one state, but about sums of any number of
shifted indices. That powers of two grow comes from the cardinality of the sets of subsets, the only
fact on powers that the library has. If the sum fits an int, so does each of its terms; a term whose
shift is the width of an int or more can only fit when its index is 0, and then whatever the
compiler makes of the shift is 0 too. Hence `parse_pml_lvl` has one thing to print.

*Guest memory.* None of the invariants is inductive alone. The inductive one joins: a table is at
one level and below one entry; the pages in use are the tables and what a client holds, without
overlap; a page that is no table holds no word that reads as an entry; translations reach pages that
are held; between two levels of `map_page`, the loop stands on the path of its address, and the page
it will map is nobody's; cached translations agree with the tables. The third part is where the
condition comes in: `map_page` does not clear its tables (section 4), so that a page from the pool
must hold no word with the valid bit when it becomes one. Pages are given back as the program left
them, hence `EvenData`; the run `guest_paging_stale` shows what odd words do, and the types and
nothing else are proved without it. Most of the work is in three lemmas on what one write does to
the paths of all addresses: a new table, a new translation, and the removal of one change the walk
of those addresses only that go through the entry. The refinement takes the contents of an address
from the page its walk reaches.

*Rackdoll memory.* The pool gives its pages out in order and none comes back, so that the pages in
use are 1 to k, and what `load_task` writes, entry 0 of page 0 apart, are pages from k + 1 on.
`TaskMem` writes down what a load leaves for any number of pages, and induction shows that the
code's recursion computes it. The kernel's tables and the three of the last task follow. `PoolFits`
is necessary: the 0 of an exhausted pool becomes a table in page 0 (section 4).

*Rackdoll boot.* The words that the processor and the stub push are compared with the structure one
by one, for a frame at any place of the stack, with the code of the processor or the zero of the
stub. The inductive invariant says for each phase which handlers are set, whose registers the
processor, the frame and each saved context hold, and where frames begin: from either mode above
what `run_tasks` needs, which is where `FrameAssumption` is used. A live task has the registers it
left in its context or, while it runs, in the processor and the frame, which is what a fork copies.
A handler tells by its vector whose frame it is, as the two vectors of the tasks have their handlers
only once the tasks are loaded. The controllers are followed through the writes of `remap_pic`: each
of them is the one that the initialisation waits for, so that none is taken for a mask.
`ModulesLoaded` has an invariant of its own: the walk stands before some tag, and the array holds
the tasks of the modules before it. That it stands there is arithmetic of multiples of 8, by
induction on the number of the tag.

*Induction.* The provers cannot use the library's induction theorems, which take a predicate. The
proofs that need induction derive, from the well-foundedness of the naturals, a version that takes a
set: upwards for loops over any number of pages or tags, downwards for paths through tables of any
number of levels, and that a function defined by recursion from the root down exists.

Every invariant and action property that a passing run checks is proved, under the assumptions of
the table. Out of the prover's reach and left to TLC: liveness under fairness (`NoStarvation`,
`ReachesMain`, `FaultsHalt`, `SieveSucceeds`, `ParsingEnds`), and `ENABLED`.

## 6. Not modelled, and the plan

* XED (`janus/xed`), the vendored instruction decoder: 19 495 of the repository's lines of C,
  declarations and inline accessors that the monitor uses as a library. Its results are the
  instructions of `JanusCpu`.
* Generated files: the unrolled stubs `trap.S`; their generator `trap.pl` is modelled.
* The cache benchmarks (`TME2`): their results are measurements of the host.
* Course notes and trials of the language (`src/CM`, `help.cpp`).
* `vector.h`, the page allocator, `free_page`, `write_physical`, `unmap_page` and `display_mapping`
  of `monitor/memory.c`, `duplicate_task` of both kernels, `setup_apic`: called by nobody.
* `task/hash.c` and `task/adversary.c`: the first computes a table on pages that this commit does
  not give it, the second stores to addresses of the kernel, of which the first already halts.
* The switch of Rackdoll's `entry.S` to long mode runs on the real processor.

So about a third of the lines written for this repository are modelled, and, as vendored and
generated lines are most of it, about a tenth of all.

Order of work. The scheduler, the two page-table managers and the emulated processor came first,
then the loaders, interrupts, the monitor's memory, formatting and the register transfers, then the
proofs of section 5. What is left to TLC alone is liveness, which is out of the provers' reach.

To repeat the checks, in this directory: `tlc -config MCScheduler.cfg MCScheduler.tla` for a run,
`tlapm SchedulerProofs.tla` for the proofs of a module.
