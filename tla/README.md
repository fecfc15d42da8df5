# TLA+ models of miniOS

This directory holds TLA+ models of miniOS (`src/MyOS`): the kernel core, the VGA
console, and the shell with the file system it drives. Each module models one part, translated
from the C source. An `MC_*` module and its `.cfg` files instantiate a model
for the TLC model checker. `PROJECT.json` lists:

- the components, modelled or not, and why;
- the runs, and a mutant for every property of every passing run;
- the map from every definition to the source lines it models;
- the findings, and the hazards with the properties that cover them.

Run a check from this directory with `tlc -workers 2 -config MC_X.cfg MC_X`.

## The system

miniOS is a 32-bit x86 kernel running on one CPU. Paths below are relative to
`src/MyOS/kernel` unless they say otherwise.

| Part | Source | State | Operations |
|---|---|---|---|
| Heap allocator | `memory/memory.c` 98-178 | block list in the arena, `used_size` | `init_heap`, `malloc`/`kmalloc`, `free`/`kfree` |
| Physical page allocator | `memory/memory.c` 59-78, 180-205 | bitmap, used/free page counters | `init_physical_memory`, `allocate_physical_page`, `free_physical_page` |
| Virtual memory | `memory/memory.c` 80-96, 207-258 | page directory, page tables | `init_paging`, `map_page`, `unmap_page`, `enable_paging`, `kmalloc_early` |
| Interrupts | `core/interrupt.c` 106-242 | IDT, the two 8259 PICs | `init_idt`, `set_idt_gate`, `exception_handler`, `irq_handler`, `timer_handler` |
| Keyboard input | `core/interrupt.c` 244-298 | `key_buffer`, `key_buffer_pos` | `keyboard_handler` (IRQ1), `getchar` |
| System calls | `core/syscall.c` 1-144 | dispatch table | `syscall_handler`, `sys_exit`, `sys_read`, `sys_sleep`, `sys_malloc`, ... |
| Scheduler and processes | `core/syscall.c` 146-240 | `process_list`, `current_process`, `next_pid` | `init_scheduler`, `create_process`, `destroy_process`, `schedule`, `yield` |
| Threads | `core/syscall.c` 242-285 | `thread_list`, `next_tid` | `create_thread`, `destroy_thread` |
| IPC | `core/syscall.c` 287-360 | `message_queue` | `send_message`, `receive_message` |
| Timer and sleep | `drivers/keyboard.c` 294-340 | timer.c's own `timer_ticks` | `init_timer`, `timer_callback`, `sleep` |
| File system | `filesystem/vfs.c` | the `VFSManager` node array and tree | `init_vfs`, `create_file`, `add_child`, `find_file`, `delete_file`, `change_directory`, `list_directory`, ... |
| Shell | `userspace/shell/shell.c` | command line, `shell_running` | `shell_loop`, `read_line`, `parse_line`, `execute_command`, `cmd_*` |
| User C library | `userspace/lib/libc/stdio.c` | none (stack buffers) | `printf`, `vsprintf`, `itoa`, `atoi`, `strtok`, `strncpy`, `malloc`/`free` |
| Console | `core/kernel.c` 8-52, 157-207 | `cursor_x`, `cursor_y`, video memory | `clear_screen`, `print_colored`, `print` |
| Boot | `core/kernel.c` 38-140 | initialisation order | `kernel_main`, `init_memory`, `init_interrupts`, `init_filesystem` |

The parts interact in these ways:

- The timer interrupt calls `schedule()` on every 10th tick.
- The keyboard interrupt fills the buffer that `getchar()` drains. `getchar()`
  is reached from `sys_read` inside the `int 0x80` handler.
- Process and thread control blocks and IPC messages live on the heap. Freed
  memory is reused, by either kind of block.
- `sys_exit` destroys the current process and leaves `current_process` as it
  was.
- `keyboard_handler` echoes each key with `print()`, which moves the same
  `cursor_x`/`cursor_y` as `kernel_main`'s own prints.
- The shell's `cd`, `rm` and `rmdir` call the VFS. The VFS and the shell both
  tokenise with the user library's `strtok`. Every builtin prints through
  the library's `printf`, and `kill` parses its argument with `atoi`.

Everything runs on one CPU. The only concurrency is between interrupt handlers
and the code they interrupt. All IDT gates are interrupt gates (type `0x8E`,
`interrupt.c:191`), so a handler runs with interrupts masked, the `int 0x80`
handler included. The assembly stubs that enter the handlers are not in the
tree.

Three facts about the tree shape the models:

- `kernel_main` never calls `init_scheduler` or `init_timer`.
- `start_desktop_environment` (`userspace/gui/desktop/desktop.c` 56-73) never
  returns. So `kernel_main`'s own loop, which calls `schedule_processes()`,
  is never reached.
- `yield()`, `create_thread`, `destroy_thread` and `timer_callback` have no
  caller.

The models therefore take the process and thread operations as the API they
are: any caller, in any order.

## Modules

### `Heap` (`memory.c` `init_heap`, `malloc`, `free`)

**State.** The block list is contiguous and sorted by address. It is a
sequence of `[size, free]` records in address order:

- a header's address is the sum of the headers and payloads before it;
- `next` and `prev` are the neighbouring records;
- `used_size` is the code's counter;
- `live` holds the pointers handed to callers, each with the size asked for.

`unsigned int` arithmetic is taken modulo `2^WordBits`.

**Actions.** There is one action per function:

- `Malloc(req)`: the alignment, the first-fit search, the split when the block
  exceeds `size + header + 16`, the mark as used and the accounting;
- `Free(a)`: the mark as free, the accounting, the forward merge and then the
  backward merge.

A request that fails returns 0 and changes nothing, so it is not a step.
The block-list effect of each is also a pure operator, `MallocBlocks(bs,
req)` and `FreeBlocks(bs, i)`, so a property can apply a malloc and a free
to any reachable heap: `HeapRoundTrip` (spec 8) says the free of a fresh
allocation gives back the very list the malloc started from.

**Refinement.** `Held` maps the state to the abstract `Allocator`'s `held`:
one range per live pointer, its length the size of the block it points into.
`Abstract == INSTANCE Allocator WITH ...` and the property
`AllocatorRefined == Abstract!Spec` say that every `Malloc` is an
`Allocator` `Alloc` (or, when it fails, a stuttering step) and every `Free` a
`Release`.

### `Allocator` (abstract)

What any allocator over `[Base, Base + Size)` promises: a granted range is
aligned to `Grain` (4, from `malloc`'s rounding), at least as long as the
request, inside the arena and disjoint from every range still held; it keeps
its place until released. It has no blocks, headers or lists, and maps no
source lines.

### `Scheduler` (`syscall.c` scheduler and thread parts; `timer_handler`; `sys_exit`)

**State.** Control blocks are heap memory, modelled as a fixed set of
`Slots` shared by processes and threads:

- `alloc` holds the allocated slots, and `threads` those of them that are
  threads;
- `pid`, `state` and `nxt` of a slot keep their values after `kfree`, as heap
  payloads do.

`Thread` and `Process` have tid/pid, state and next at the same offsets
(`kernel.h` 108-134). So a dangling `current_process` reads a thread that
reuses its block exactly as the code would.

**Initial state.** `Init` is the state after `init_scheduler`: process 1 is
RUNNING.

**Actions.**

- `CreateProcess` and `DestroyProcess` follow the list code of
  `create_process` and `destroy_process`.
- `CreateThread` and `DestroyThread` do the same for `create_thread` and
  `destroy_thread`.
- `SysExit` destroys the process that `current_process` points to.
- `TimerIRQ` counts the tick and runs `Schedule` every `TicksPerSchedule`-th
  tick. `Schedule` is atomic because the interrupt gate masks interrupts.

`schedule()` itself is the pure operator `ScheduleFrom(st, cur)`: `Pick`
finds the process to switch to (`ScanFrom` from `current_process->next`) and
`Switched` demotes the old and promotes the new one. `Visits` applies it K
times, so `RoundRobin` (spec 8) can say that from any reachable state with
everyone else READY the next K calls run every live process once, in list
order.

**Termination.** The search loop of `schedule()` is `ScanFrom`. It stops at a
READY process or back at `current_process`. If it has not stopped within
`|Slots|` steps it never will, and `hung` records that.

### `KeyBuffer` (`interrupt.c` `keyboard_handler`, `getchar`; `sys_read`)

**State.**

- `key_buffer` is modelled over `0..BufSize-1`;
- `key_buffer_pos` is the code's write position;
- `gpc` is `getchar()`'s program counter.

**Actions.** `getchar()` is split where an IRQ could interleave:

- `GetcharTake` takes `key_buffer[0]`;
- `GetcharShift` is one iteration of the shift loop;
- `GetcharDec` is the `key_buffer_pos--`;
- `GetcharTerm` is the terminator store.

`KeyboardIRQ(k)` is the whole handler for key `k`.

**Interrupts during `getchar()`.** `IFInSyscall` says whether IRQ1 can arrive
while `getchar()` runs. Under the interrupt-gate semantics of the tree it
cannot (`FALSE`).

**Ghost state.** `queue`, `expected` and `returned` record what the buffer
should hold and what `getchar()` returned.

### `Timer` (`interrupt.c` `timer_handler`; timer.c in `keyboard.c`; `sys_sleep`)

The model has two counters:

- `irq_ticks`, which IRQ0 increments in unsigned arithmetic;
- `cb_ticks`, timer.c's counter, which only `timer_callback` would increment.
  Nothing calls `timer_callback`, so no action changes `cb_ticks`.

**Actions.**

- `SysSleep(m)` computes `sleep()`'s target in unsigned arithmetic.
- `SleepWake` is the exit of its `hlt` loop.

### `Console` (`kernel.c` `clear_screen`, `print_colored`; `keyboard_handler`'s echo)

**State.** `cursor_x`, `cursor_y`, and `vga`, the character cells of a
`Width` x `Height` screen plus the row of video memory just after it. `fpc`
is the statement of `print_colored` the foreground is at, and `str` the
index of `*str` in the text `kernel_main` prints.

**Actions.** The foreground's loop body is four steps, one per statement on
the cursor: `FgTest` (newline, or write the cell), `FgInc` (`cursor_x++`),
`FgWrap` and `FgScroll` (which also does `str++`). `KeyEcho(k)` is
IRQ1's whole `print` of one key, atomic because it runs in an interrupt
gate; it may come between any two foreground steps, since boot prints after
`sti` with every PIC line unmasked.

### `Paging` (`memory.c` physical allocator and page tables)

**State.**

- Frames are numbered, and the bitmap is the set `used`.
- `mem` holds the contents of the frames used as directory or tables. Two
  directory entries that point to one frame therefore share a table, as in
  memory.

**Actions.** There is one action per function:

- `InitPhysicalMemory` and `InitPaging`, the latter with `kmalloc_early` and
  the identity map;
- `AllocatePage` and `FreePage`;
- `MapPage`, including its unchecked table allocation;
- `UnmapPage`.

**Layout.** The fixed addresses of the code are constants in frame units:
the bitmap at 0x200000, `kmalloc_early` at 0x300000, and `HEAP_START`. So
the layout is checked separately from the allocator logic.

### `Interrupts` (`interrupt.c` `init_idt`, `irq_handler`; `init_syscalls`; `init_interrupts`)

**State.** The IDT is a function from vector to gate kind. The two PICs are
modelled by what the port writes do to them:

- ICW1 starts initialisation;
- ICW2-ICW4 set the vector base, the cascade and the mode;
- later data writes set the mask;
- `0x20` is a non-specific EOI.

**Actions.**

- `InitIdt` covers the gate table and the remap.
- `Raise(n)` is a device raising line `n`.
- `Accept` is the CPU taking the highest-priority deliverable line through its
  gate, or halting on an exception gate.
- `IrqHandler` is `irq_handler`'s EOIs and `iret`.
- `Foreground` is the desktop loop after boot, which touches none of this
  state. It is taken to keep running. In the code, `init_gui` (called after
  `init_interrupts`) first stores to the framebuffer at `0xA0000000`. That
  address is outside the 4 MB identity map `init_paging` builds, so the
  store would page-fault and `exception_handler` would halt. The
  `interrupts` run therefore shows what dispatch does for a foreground that
  does not fault.

### `IPC` (`syscall.c` `send_message`, `receive_message`)

**Heap.** The model runs on the `Heap` model's block list: its first-fit,
split and coalescing operators come from `INSTANCE Heap`. So both `kmalloc`
calls of a send, the `kfree` on its failure path, and both `kfree` calls of
a receive act on the real allocator.

**State.**

- `queue` is `message_queue`, head first.
- `Switch` changes the current pid.
- The ghost variables `pending`, `sends`, `ret` and `got` record what was sent
  and what came back.

**Refinement.** `Mailboxes` maps the shared queue to one list per receiver
pid: the messages addressed to it, in queue order, without ids or heap
pointers. `AM == INSTANCE Mailbox WITH ...` and `MailboxRefined == AM!Spec`
say that every `Send` is a `Post` to the front of its addressee's mailbox or
a `Refuse`, and every `Receive` a `Take` of the front of the caller's own
mailbox or a `Miss`.

### `Mailbox` (abstract)

What spec 4.4 promises the callers of the IPC queue: one mailbox per
receiver, newest first. A send by the current process puts its message in
front of the destination's mailbox, or fails with -1 and changes nothing;
a receive takes the front of the caller's mailbox and returns
`min(length, buffer size)`, or -1 when it is empty. It maps no source lines.

### `VFS` (`filesystem/vfs.c`; `strtok`, `strncpy` of `userspace/lib/libc/stdio.c`; `shell.c`)

**State.** `vfs` is the static `VFSManager`. Its nodes form an array indexed
from 0, and a pointer is an index or `NULL`. A node keeps:

- its name, as a sequence of characters;
- its type and size;
- its parent, children and next pointers;
- whether `data` holds a heap block.

**Initial state.** `Init` is the state after `init_filesystem`. `InitVfs`,
`MountRootFs` and `CreateSystemDirs` are composed from `CreateFile` and
`AddChild`.

**Operations.** `DeleteFile(path)` and `ChangeDirectory(path)`, with
`DeleteTarget` and `CdTarget` the node each acts on (or none, when the
function returns -1). Module `Shell` calls them.

**Paths.** `FindFile` is `find_file`:

- `Tokens` is `strtok` over `"/"`;
- `Step` handles `.`, `..` and the children-list scan.

**Reads.** `ListDirectory`, `ReadWholeFile` (`read_file` through
`default_read`) and `GetCurrentDirectory` change nothing; they give what
`ls`, `cat` and `pwd` print. `GetCurrentDirectory` builds `temp_path` from
the current node up (`UpPath`) and copies it reversed, as the code does.

**Deletion.** `DeleteFile` unlinks through the head pointer or the
predecessor's `next`, then clears name, type, size and data. The node's own
`parent`, `children` and `next` stay stale, and its slot is never reused.

### `Shell` (`userspace/shell/shell.c`)

**State.** The file system (`FS == INSTANCE VFS`), `input` (what the user
has typed and `getchar` has not returned yet) and `shell_running`. The line
`read_line` returns is not kept: `ReadLineInBounds` is an action property
on the step that reads it.

**Actions.**

- `Type(l)`: the user types a line and Enter while the shell waits.
- `ShellLoop`: one iteration of `shell_loop`. `ReadLine` is `read_line`:
  characters are stored until `'\n'`, backspace drops one, and the line is
  returned cut once `MAX_COMMAND_LENGTH - 1` characters are stored, the rest
  staying in the input. `ParseLine` is `parse_line`'s `strtok`.
  `ExecuteCommand` dispatches by name to `CmdCd`, `CmdRm` (`cmd_rm` and
  `cmd_rmdir`) or exit, which clears `shell_running`; every other builtin
  and an unknown name only print.

**Output.** `PrintfCalls(args)` is the sequence of `printf` calls
`execute_command` makes for a parsed line: one definition per builtin that
prints something depending on state or arguments (`HelpOut`, `LsOut`,
`CdOut`, `CatOut`, `EchoOut`, `KillOut`, `FreeOut`, and `ArgOut` for the
usage-or-message pattern of `mkdir`, `rm`, `rmdir`, `cp` and `mv`), fixed
texts for the others, and `launch_program`'s message for an unknown name.
A call is a format and its arguments. A format keeps its `%` conversions
and the length of its literal parts (`Lit(n)`); an argument is a token, a
name, a path, a file's contents as its size, or an `int`. What a call
prints is `Vsprintf` of module `Libc`. `PrintfFits` is an action property
on `ShellLoop`, like `ReadLineInBounds`, so no output is kept in the state.
`copy_file` and `move_file` are declared and defined nowhere; `cp` and `mv`
with two arguments are taken to print their failure message.

`ReadFrom` and `Tokens` recurse once per special character or token, not
per character, so a 262-character line stays within TLC's stack.

### `Libc` (`userspace/lib/libc/stdio.c` `printf`, `vsprintf`, `itoa`, `atoi`)

Operators, no state. A text is a sequence of one-character strings.

- `Vsprintf(fmt, args)` is `vsprintf`: characters other than `%` are
  copied; `%d`, `%x`, `%s`, `%c` and `%%` convert (`Convert`), taking an
  argument where the code calls `va_arg`; any other character after `%`
  prints `%` and itself and takes no argument.
- `Itoa(value, base)` is `itoa`: the sign, the do-while digit loop
  (`DigitsOf`) with C's truncating division (`CDiv`), then the reversal.
  An index outside `"0123456789abcdef"` reads a byte that is not a digit
  (`Garbage`).
- `Atoi(str)` is `atoi`: blanks and tabs, one sign, the decimal digits.
- `PrintfFitsBuffer(call)` says `printf`'s text and its `'\0'` fit
  `char buffer[1024]`.

`int` arithmetic is 32-bit with the two's-complement wrap i686 code
produces. TLC's own integers are 32-bit, so the operators stay in that
range: `Neg32` is negation with its one wrap (`-INT_MIN = INT_MIN`), and
`Atoi` accumulates the negated value, so the inputs of magnitude up to
`2^31` (`kill -2147483648` included) are computed exactly.

## Runs

| Run | Config | Expect | What it shows |
|---|---|---|---|
| heap | `MC_Heap.cfg` | pass | Any malloc/free sequence of 4, 9 and 40 bytes keeps the arena tiled, coalesced, accounted (`used_size` = header + used payloads), the callers' pointers equal to the used blocks, and every block at least as large as its request; from every reachable heap a malloc and the free of its pointer restore the block list (`HeapRoundTrip`); `Heap` implements `Allocator` (`AllocatorRefined`). |
| sched_list | `MC_Scheduler.cfg` | pass | Process and thread creation and destruction, `sys_exit` and the timer's `schedule()` in the same heap blocks keep both lists acyclic and exactly the live blocks, at most one process RUNNING, and the search loop exiting, even with `current_process` dangling; with everyone else READY the next K timer schedules visit the K live processes once each, in list order (`RoundRobin`). |
| sched_exit_starves | `MC_Scheduler_live.cfg` | violation | After `sys_exit`, a process created in the freed block is current but READY and is never run. |
| keybuf | `MC_KeyBuffer.cfg` | pass | With IRQs masked in `int 0x80` (no IRQ1 inside `getchar()`), every `getchar()` returns the oldest stored key through its shift loop, decrement and terminator, and the buffer keeps exactly the keys `keyboard_handler` stored and not yet read, full-buffer drops and backspaces included. |
| keybuf_hang | `MC_KeyBuffer_hang.cfg` | violation | With IRQs masked in `int 0x80`, `getchar()` on an empty buffer halts for good. |
| timer_sleep | `MC_Timer_sleep.cfg` | violation | `sleep()` never returns: the counter it waits on has no incrementer. |
| paging | `MC_Paging.cfg` | pass | With a sound layout, allocations, frees, `map_page` and `unmap_page` keep the counters equal to the bitmap and every page translating to what was last asked. |
| paging_layout | `MC_Paging_layout.cfg` | violation | With the code's addresses, the bitmap and page directory are free frames, the first page table is the heap's first frame, and the heap runs past the identity map. |
| interrupts | `MC_Interrupts.cfg` | pass | After the PIC remap, `init_syscalls` and `sti`, every raised line of either PIC enters `irq_handler` with its own number and is eventually handled. |
| ipc | `MC_IPC.cfg` | pass | Sends, receives and failed sends on the real heap keep every queued message and payload accounted for, deliver each receiver's newest message first with a truncated copy; the shared queue implements per-receiver mailboxes (`MailboxRefined`). |
| shell | `MC_Shell.cfg` | pass | Any sequence of typed lines (`cd`, `rm`, `rmdir`, `exit`, every builtin that only prints, unknown commands, two over-long lines) keeps `read_line`'s result within its buffer and the boot tree well formed; `find_file` resolves every path as the tree does, also from a deleted current directory, and `ls` lists each directory's live entries once; every `printf` of the prompt, a builtin or `launch_program` fits its 1024-byte buffer (`PrintfFits`). |
| console_race | `MC_Console.cfg` | violation | A key echoed between the foreground print's `cursor_y++` and its scroll check is written past the last screen row. |

**Mutants.** Each property of a passing run has a mutant in `PROJECT.json`:
a plausible bug in a mapped definition. Examples are a merge that drops a
header, an off-by-one bound, a preempted process set BLOCKED instead of READY,
`used_size` decreased by the merged size on `free`, an unlink of the head
only, and `..` climbing above the root. TLC finds each mutant violating its
property.

### Findings (violation runs)

- **`sched_exit_starves`** (`syscall.c:60`). `sys_exit` frees the current
  process and keeps pointing at it. A process created in the freed block is
  current and READY, and `schedule()` stops at it forever.
- **`keybuf_hang`** (`interrupt.c:284`). `getchar()` waits with `hlt` inside
  an interrupt gate, so no keyboard IRQ can wake it.
- **`timer_sleep`** (`keyboard.c:337`). `sleep()` waits on a counter that only
  the never-called `timer_callback` advances.
- **`console_race`** (`kernel.c:167`). `print_colored` updates the shared
  cursor with interrupts enabled. When `keyboard_handler` echoes a key after
  a foreground newline has set `cursor_y = VGA_HEIGHT` and before the scroll
  check, the key is written at row `VGA_HEIGHT`, past the text area (12
  states).
- **`paging_layout`** (`memory.c:67`). Only the first 1MB is reserved. The
  bitmap and the page directory can be handed out, the first page table is
  `HEAP_START`, and the 16MB heap extends past the 4MB identity map.

### Further disagreements met while modelling

These have no run of their own, because the project keeps at most twelve
runs:

- `malloc(2^32 - 2)` (e.g. `sys_malloc(-2)`) aligns to 0 and returns a
  0-byte block. `heap` uses requests that do not overflow.
- `used_size` starts at one header (`init_heap`), not at 0 as the spec's
  invariant ("the sum of the used blocks") has it. `UsedSizeAccounted`
  states the code's offset.
- `send_message` with length 0 always fails, because `kmalloc(0)` returns
  NULL. `ipc` sends lengths 4 and 40; no property states when a send
  may fail, so this is a hazard in `PROJECT.json` without a run.
- With the `int 0x80` stub re-enabling interrupts (`IFInSyscall = TRUE`,
  the one way out of `keybuf_hang`), `FIFOIntact` is violated: an IRQ1 that
  lands inside `getchar()`'s shift loses or duplicates a key (TLC, 262
  states). The code's `getchar()` either hangs or races.
- `keyboard_handler` stores a `'\b'` and then steps back over that same
  `'\b'`, so backspace never removes the previous character.
- `sleep(ms)` overflows `ms * 100` from `ms = 42949673`. This cannot make
  `sleep` return early while it never returns at all (`timer_sleep`).
- `timer_handler`'s counter wraps at `2^32`, and `2^32 mod 10 = 6`, so after
  the wrap the scheduler runs after 6 ticks instead of 10.
- `map_page` on exhaustion takes frame 0, the "no frame" result, as a page
  table. This overwrites the first megabyte.
- `read_line` cuts a line at 255 characters and leaves the rest typed, so
  the tail runs as the next command: `echo`, 251 spaces and `rm /tmp`
  deletes `/tmp`. The `shell` run reaches it (`LongEcho`); its properties
  hold, since the cut line is in bounds and the deletion is an ordinary one.
- `get_current_directory` reverses its whole path string character by
  character, so `pwd` in `/bin` prints `nib/`.
- `rm .` of the current directory leaves `current_dir` on a cleared node.
  `cd ..` and relative paths still work from it.
- After `sys_exit`, `create_thread` can reuse the freed block. `schedule()`
  then makes thread blocks current, and a later `sys_exit` destroys the
  process whose pid equals that tid.

## Bounds

**Heap.** An 8-bit word, a 128-byte arena, 16-byte headers, requests of 4, 9
and 40 bytes, and at most 3 live allocations. This reaches:

- a split, and a split refused for the slack;
- first fit skipping a small free block;
- both merges, alone and together;
- exhaustion.

**Scheduler.** Three slots give a head, a middle and a tail. Five process
and two thread creations reuse freed blocks of both kinds. The scheduler runs
every 2nd tick. Slots are symmetric model values (`Permutations`).

**KeyBuffer.** The buffer has 4 entries, so it is full after 3 keys. Two
printable keys make the order visible, plus backspace, with at most 5 key
presses.

**Timer.** The word is 12 bits, so `ms * 100` overflows within reach. The arguments are 5, 10 and
20 ms: below, at and above one tick.

**Paging.** One frame stands for 1MB, and a table has 4 entries, so one
table maps 4MB as in the code. There are 8 frames, so later directory entries
and exhaustion are reached. Virtual pages are chosen in four directory
entries. Two layouts are checked: the code's, and one with the paging
structures inside the reserved frames.

**Interrupts.** Lines 0 and 1 (master) and 8 and 12 (slave), each raised up
to twice. This covers the priority order inside and across the PICs, and
both EOIs.

**IPC.** A 224-byte arena and a 24-byte `Message`. Payloads of 4 bytes and of
40 bytes; the 40-byte payload exceeds the 8-byte receive buffer. Two pids,
plus a destination nobody runs as. Three sends, so both failure branches of
`send_message` (message and payload allocation) are reached.

**Shell (VFS).** The nine nodes `init_filesystem` creates, which is all
there are: nothing creates a node after boot. The commands `cd`, `rm` and
`rmdir` are combined with ten paths, and typed alone. The paths cover:

- absolute and relative paths, `.` and `..`;
- `..` at the root and `..` through a regular file;
- repeated and trailing slashes;
- a name that does not exist in the directory it is looked up from.

Further lines: `exit`, `ls`, an unknown `foo`, a line with tabs and
repeated blanks, and `LongEcho`, 262 characters, which `read_line` cuts.
`PrintLines` types each builtin that only prints, with and without its
arguments: `cat` of both files and of a directory, `ls` of a missing
path, `echo` with a doubled blank, `cp`, `mv`, `mkdir`, and `kill` of 42
and of `-2147483648`. `WideEcho` is `echo` and a 1030-character word: cut,
it prints 250 characters; without the cut (the mutant `ReadFromNoCut`) it
would overflow `printf`'s buffer.

**Console.** A 3 x 2 screen. The foreground prints `"OK\nOK\n"`, which
scrolls; the keyboard echoes up to two keys, a letter or a newline. Two
rows are enough for a newline to reach `cursor_y = VGA_HEIGHT`.

## Fairness

- **Scheduler, Timer.** The PIT keeps interrupting: weak fairness on
  `TimerIRQ`. A sleeping caller re-tests its loop after every wake-up: weak
  fairness on `SleepWake`.
- **KeyBuffer.** A running `getchar()` continues. The user keeps typing
  printable keys while presses remain.
- **Interrupts.** Boot runs to the end, the CPU takes a deliverable interrupt
  while IF is set, and a handler runs to its `iret`.
- **IPC, Heap, Paging, Shell, Console.** These models check safety only; they assume no
  fairness.

`CHECK_DEADLOCK FALSE` appears only where the system really stops:

- **Scheduler.** The CPU spins for good inside the timer interrupt (`hung`).
- **KeyBuffer.** The CPU halts with IF clear. The bound on key presses also
  ends behaviours.
- **Timer.** `sleep()` halts with nothing left to wake it.
- **Shell.** `exit` ends `shell_loop` and `shell_main` returns.
- **Console.** The foreground's text and the key bound end behaviours.

## Not modelled, and the plan

Not modelled, with the reason:

- **System-call dispatch.** `syscall_handler` is a table lookup with a range
  check. The handlers it reaches are modelled where they change state:
  `sys_exit`, `sys_read`, `sys_sleep`, `sys_malloc` and `sys_free`.
- **Boot as a whole.** Each module's `Init` is the state its part of
  `kernel_main` leaves. `init_timer` and `init_scheduler` are never called.
- **`write_file`, `copy_file`, `move_file`.** `write_file` has no
  caller, and `copy_file` and `move_file` have no definition.
- **Colours and `update_cursor`.** Port writes only; `Console` keeps the
  characters and the cursor.
- **The shell's allocation-error exits and echo.** `read_line` and
  `parse_line` call `exit(1)` when `malloc` returns NULL; the shell's
  heap use is not connected to `Heap`. `read_line`'s `putchar` echo and
  its `"\b \b"` only write to the console.
- **The mouse, VGA, disk and network drivers, and the desktop GUI.** These
  are port I/O and drawing, with no state shared with the modelled parts;
  the desktop calls `handle_input`, `update_windows` and
  `handle_mouse_input`, which the tree does not define. The two 8042
  hazards in `PROJECT.json` (the unsynchronised configuration read in
  `init_mouse`, and IRQ12 bytes that nobody reads) would each be a
  violation run.
- **The rest of the user C library** (`sprintf`, `puts`, `putchar`,
  `calloc`, `realloc`, `abs` and the string functions other than `strtok`
  and `strncpy`): no caller's state a property reads depends on them
  (`realloc`'s over-read from `parse_line` is a hazard in `PROJECT.json`).
  What reading `printf`, `vsprintf` and `itoa` turned up is a violation
  each, for which no run is left; `Libc` computes each of them:
  - `vsprintf` knows no `%u` and no width: `free` prints `Total:     %u KB`
    literally, and `help`'s `"  %-10s - %s"` prints `%-10s - ` and then
    the command name where the description should be;
  - `itoa(INT_MIN, ..)` negates `INT_MIN` and then indexes its digit table
    with negative numbers, so `kill -2147483648` prints bytes from before
    the table; `%x` of a value of `2^31` or more does the same;
  - `printf` formats into a 1024-byte stack buffer with no bound; the
    `shell` run checks that no shell output reaches it (`PrintfFits`).

Plan for the next steps:

1. Boot ordering (`kernel_main`): memory, interrupts, file system, with the
   scheduler never initialised.
2. The hazards in `PROJECT.json` that no property covers yet; each needs a
   violation run, and the twelve runs are spent on the findings above.
