# Verification of juejin-cs-internal

The repository is a collection of programs that go with a book on computer
systems: a futex lock, a coroutine scheduler on a priority queue, a ptrace
debugger, a toy container runtime, a routing trie, a lock-free stack, and many
one-page demonstrations of system calls. They share almost no code; what they
share is that each implements a mechanism whose correctness hangs on an
interleaving, a pointer kept across a switch, or a step that may fail. This
directory models those mechanisms in TLA+, checks them with TLC and proves the
main results with TLAPS.

## 1. Inventory

| Component | Source | State | Operations | Hard because of |
|---|---|---|---|---|
| Futex lock | `thread/lock-impl/lock_impl.c` | lock word (0 free, 1 held, 2 held and perhaps awaited), `sum`, `go` | `lll_lock`, `__lll_lock_wait_private`, `__lll_unlock`, `fn`, `main` | threads between any two memory accesses; futex calls that return for no reason |
| Priority queue | `cpu/pqueue.c`, `pqueue.h` | array, `size`, `avail`, position and priority in every node | init, insert, pop, peek, change_priority, remove, is_valid | positions that must follow every move; growth that fails |
| Coroutines, event loop | `cpu/my_coroutine.c` | saved registers per context, `sched->current`, tasks in the queue, wall clock | resume, yield, delay, eventloop | hand-written context switch; stale pointers; a clock that is set back |
| mini-gdb | `basic/mini-gdb/src` | patched bytes, breakpoint table, tracee's state | `b`, `c`, `si`, `step`, quit | tracee and debugger alternate through signals |
| toy_docker, network step | `toy_docker/step_network` | veth pairs, pipe, cgroup, child's configuration, hardware address | `init_network`, `main`, `child_setup_func`, `start_network`, netlink, `new_hwaddr`, `lxc_convert_mac` | two processes per launch, several launches, lost answers, crashes |
| Routing trie | `network/route/route_test.cpp` | trie | `insert`, `search` | which tables make `search` wrong or crash |
| Lock-free stack | `thread/atomic/test.cpp` | `top`, `next` of the nodes | `push`, `pop` | ABA, retries |
| Earlier toy_docker steps | `toy_docker/step_chroot`, `step_namespace`, `step_cgroup` | root directory, child, cgroup | `set_rootdir`, `start_cmd`, `write_cgroup`, `main` | ignored results; a child that runs, and may end, while it is put into the cgroup; pids used again |
| CAS counter, TLS and thread demos | `thread/` | a counter, thread-local variables | `increment`, `thread_func` | lost additions |
| Zero-copy servers | `io/zerocopy` | file offset, connection | accept loop | short writes, clients that stall or go, a file that grows |
| FUSE file systems | `io/fuse` | none of their own; the kernel's view of what exists | getattr, readdir, open, read | callbacks that must agree with each other |
| fd, epoll, list demos | `io/fd` | a list | `list_add` | |
| ucontext demos | `cpu/ucontext_test*.c` | contexts | makecontext, setcontext, swapcontext, `uc_link` | order of hand-over |
| Packet tools, kernel modules | `network/tcpdump`, `network/netfilter` | a frame; the hooks | `minidump`'s loop; `hook_init`, `hook_func`, `hook_exit` | frames that are padded, cut or not Ethernet; unloading under traffic |
| DNS examples | `network/dns` | none | | single library calls |
| Assembly, hooks, clock, SystemTap, memory demos | `basic/`, `mem/` | none | | tools, not programs |
| FUSE headers | `include/` | | | vendored |

Interactions: the coroutine scheduler calls the priority queue (its timers are
the queue's nodes, its expiry times the priorities) and the model composes the
two modules in the same way. mini-gdb and its tracee interact through ptrace
stops; the parent and the child of toy_docker through a pipe, the kernel's
network namespaces and exit; launches of toy_docker through the names of the
host's interfaces. Everything else stands alone.

`PROJECT.json` lists every component with its status and every hazard with the
line where it bites and the properties that would catch it.

## 2. Modules

| Module | What it is |
|---|---|
| `LllLock`, `AbstractMutex` | the lock and the program around it; a mutex with an atomic increment |
| `LllLockProofs` | proofs about `LllLock` |
| `PQueue`, `AbstractPQ` | the heap; a set with a minimum |
| `PQueueProofs` | proofs about `PQueue` |
| `Coroutine` | the scheduler; instantiates `PQueue` as `PQ` |
| `CoroutineProofs` | proofs about `Coroutine`, through `MCCoroutine` |
| `MiniGdb`, `AbstractProgram` | debugger and tracee; the program running alone |
| `MiniGdbProofs` | proofs about `MiniGdb` |
| `ToyDocker` | launches of the container runtime |
| `ToyDockerProofs` | proofs about `ToyDocker` |
| `NlMsg` | netlink messages built in a buffer of fixed size |
| `RouteTrie` | the trie and its two methods |
| `RouteTrieProofs` | proofs about `RouteTrie` |
| `TreiberStack`, `AbstractStack` | the lock-free stack; a sequential one |
| `TreiberStackProofs` | proofs about `TreiberStack` |
| `DockerSteps` | the three earlier steps of the container runtime |
| `HwAddr` | hardware addresses written and read back |
| `ZeroCopy` | the two servers that answer with a file |
| `Netfilter` | the two kernel modules, and packets going through their hooks |
| `Minidump` | the packet printer |
| `Ucontext` | three examples of contexts |
| `Increments` | threads that add: compare-and-swap, thread-local, plain |
| `Fuse` | the callbacks of two file systems, and the kernel calling them |
| `MCPrograms` | the small programs for TLC, and one launch of `ToyDocker` |
| `ProgramsProofs` | proofs about the small programs, as `MCPrograms` instantiates them |
| `MCCoroutine` | the scheduler for TLC and for its proofs; extends `PQueue`, so that the queue `Coroutine` instantiates is one about which theorems can be cited |
| `MCToyDocker` | the launches for TLC, and the messages of `NlMsg` |
| other `MC*` | instances for TLC: symmetry sets, small programs, a view |

Definitions named `X_mutant_y` are not part of a specification. Each is a
plausible mistake in the code `X` models, and stands there to show that some
property would notice it.

### LllLock

One action per access to shared memory and per futex call. `pc` is where a task
stands: `lock` before the compare-and-swap of `lll_lock`, `test` and `xchg`
before the load and the exchange of `__lll_lock_wait_private`, `wait` before and
`asleep` inside FUTEX_WAIT, `load` and `store` the two halves of `sum++`,
`unlock` before the exchange and `wake` before FUTEX_WAKE. FUTEX_WAIT compares
and sleeps in one step, as the kernel does; `Interrupt` is its return for no
reason.

The source as committed is not a complete translation unit: macros are used
above their definitions and two helper macros are missing. The model reads the
macros by the definitions further down. It has no build file, so
`while (!go);` is taken to read `go` on every turn, as an unoptimised build
does. pthread_create does not fail.

### PQueue

The array, `size`, `avail`, and what the nodes carry (`pri`, `pos`). A call does
its own work in one step and opens a hole; each turn of the loops of `bubble_up`
and `percolate_down` is a step; `Settle` is the two assignments at their end.
The caller waits for `op = "idle"`. realloc may fail at any growth, and always
fails above MaxAvail. `cmp_pri` is that of `my_coroutine.c`: the smaller expiry
comes first.

### Coroutine

A register holds a pair of the context it belongs to and its name, so that a
value that ends up in the wrong register or in the wrong context shows.
`swap_context` is its table of slots. `CallDelay` is a coroutine's code from one
`delay` to the insertion of the next, `Yield` the switch; `Poll` is the peek, the
comparison, the pop and the free of `eventloop`. While the queue's loops run
(`QueueLoop`) nothing else does. `Tick` and `SetBack` are the wall clock. `Times`
bounds the expiry times and is the queue's set of priorities.

### MiniGdb

Memory has one byte per instruction, either the program's or an int3. The
debugger's steps go from one waitpid to the next; `Execute` and `Signal` are the
tracee and the kernel. `Confused` stands for everything the debugger does with
registers and siginfo that ptrace could not deliver because the tracee has
exited. On a tracee that is alive the debugger can end in the middle of a command as
well: after an int3 `handle_sigtrap` shows the source and panics on a location it
cannot find or a file it cannot open (`HandleSigtrapFails`), and so does `step_in`
after each of its steps (`StepInFails`). The kernel then lets the tracee run on
(`Leave`), with its instruction pointer corrected, and with the breakpoint that was
being stepped over not armed again if it was `handle_sigtrap` that failed. The history
variables `moved`, `disturbed` and `twice` exist for the
properties.

### ToyDocker

A launch has a parent and a child, each with its control point. The kernel's
part is what device exists, in which namespace its second end is, and what is
configured; a netlink transaction is done, refused, or done with its answer
lost. Devices of the host are found by name, whoever made them. `ParentDies`
is a crash in `fputs(data, NULL)` or a kill, from the clone on; the kernel then
closes the pipe just as a successful parent would.

A transaction that did not take place, because the socket could not be opened, the
message not built or not sent, is one that is refused.

A remark on a comment: `toy_docker.c:149` says that veth0 goes into the
container and veth1 onto the bridge. The code does it the other way round
(lines 155 and 137), as the model does.

### NlMsg

A message is its capacity, its length and its attributes; an attribute is known by
the offset of its header and has the length that is written there. The caller is any
caller: it allocates, reserves the fixed part, puts attributes and nests in any order,
gives up when one does not fit, sends and frees. The kernel's reading is in the
property `ParsesBack`, by the lengths alone. Types and values of attributes, and the
answer but for the room it is given, are left out.

### RouteTrie

A node is the string of bits leading to it, so the loop variable `i` is its
length. `insert` is one step, as nothing can happen in between; each turn of
`search`'s loops is a step. A search that runs into a null pointer is `crashed`.

### TreiberStack

A node stands for its value. `pop` evaluates `oldTop->next` before its
compare-and-swap (`PopNext`), which may happen long before. `free` are the
addresses `new` can still return; nothing is deleted, so none comes back.
`compare_and_swap` is not a member of `std::atomic`; it is read as the
`lock cmpxchg` of `cmp_and_swap.asm` next to it. `top` has no initialiser and no
`Stack` is created anywhere in the repository; the model starts with null.

### DockerSteps

One module for three programs, as each adds to the one before. Processes of the
host are pids that are used again once they are given back, so that a pid which
`write_cgroup` has from `clone` could by then be somebody else's; what rules this
out is that only `waitpid`, which comes later, gives it back. `chdir` and `chroot`
can fail unnoticed: `rootdir` is then the host's root or the directory the program
was started in. As the child does not wait for `write_cgroup`, a command it runs
early is outside the cgroup and stays outside; the model has this, and no property
denies it. The end of the shell ends the pid namespace.

### HwAddr

The text as a sequence of digits and colons. Texts are those `new_hwaddr` writes,
the same without leading zeros, and all others up to a length. The conversion is
the loop of `lxc_convert_mac`, one turn per step.

### ZeroCopy

One action per system call of either server; each can fail, and each does with
its result what the code does: end the process, end the loop, or nothing. Byte k
of the file is the number k, so that a wrong offset shows. The address length that
`accept` is given is uninitialised and may make it fail (`AcceptFails`), which is not a
step of `Server`: an `accept` that waits need not ever fail. A client may stop reading,
which blocks the write once its buffer is full (`stalled`), or close its end, which ends
the server by SIGPIPE. An answer with a short write or a failed call in it is `spoilt`;
of it there remains that it has holes at most, no byte twice and none out of order.

### Netfilter

A packet goes through the hooks that were registered when it came in, on any of
several CPUs, while modules are loaded and unloaded; a module's code is freed when
no packet can be in its hook any more (the grace period of the kernel). Registering a
hook may fail unnoticed; what the hooks log is left out.

### Minidump

A frame is what decides where its headers are and how long it is. Where the
program looks at a header that is not there (another device, IP options, a later
fragment) the bytes may say anything. The length is computed modulo WORD, which
stands for 2^64; the wording of the line is left out. `LineExact` is about all frames
whose headers are where the program looks for them: of a padded one the program counts
the padding, of one that the buffer cut off what there is.

### Ucontext

A function is the sequence of its calls, a context a function and a place in it.
The stacks of 1024 bytes, on which printf runs, are taken to be large enough.

### Increments

One module for three programs that make the same loads and stores under different
disciplines: whose variable it is (`Home`) and whether the store compares.

### Fuse

The callbacks as functions of their arguments, and the kernel as their caller,
which looks a path up before it opens it. `fuse_test_02` defines callbacks but
registers none. In `fuse_test_03` a read beyond the text would return other bytes;
it cannot happen, because the file cannot be opened (see below).

## 3. Runs

| Run | Instance | Distinct states | Shows |
|---|---|---|---|
| `lock` | 3 tasks, COUNT 2 | 34,706 | mutual exclusion, no lost wake-up, no lost increment, implements `AbstractMutex`, ends |
| `lock_comment` | 3 tasks, COUNT 1 | violated | the comment's "acquired with no waiters" |
| `pqueue` | 6 nodes, 3 priorities, N 2, up to 9 slots | 5,610 (view) | heap order, positions, nothing lost, `pqueue_is_valid` exact, implements `AbstractPQ` |
| `coroutine` | 3 coroutines, N 1, up to 4 slots, clock to 5, set back once | 245,808 | registers, bookkeeping, order, delays end |
| `gdb` | 5 instructions with a branch, a loop, a line without information; 1 signal | 209,070 | breakpoints, text, the program's own behaviour, commands end |
| `docker_safety` | 2 launches, 2 names per template, symmetric; or messages of 40 bytes after the header, with fixed parts of 8, 12 and 16 and attributes of 1, 4 and 16 | 674,537 | no shell half set up, no foreign veth; messages stay in their buffer and are read back as they were put |
| `route` | 2-bit addresses, 2 next hops, all tables | 76,280 | no null pointer unless empty, a match is the longest |
| `route_longest` | 3-bit addresses | violated | `search` is not longest prefix match |
| `stack` | 2 threads, 3 nodes | 158,536 | no ABA, implements `AbstractStack`, lock-free |
| `programs` | one of the small programs, or one launch | 108,048 | the ten properties of their modules |
| `pingdrop_comment` | 2 CPUs | violated | the comment's "NF_ACCEPT in the end, ICMP or not" |
| `fuse_listed` | text of 2 bytes | violated | a listed file cannot be looked up |

`programs` asks one question of each of eight programs that have nothing to do with
one another. Its initial state chooses one; the others keep their initial values,
so its states are the sum of theirs, not the product. The programs may end, so
deadlock is not checked there.

Why the bounds are enough to be interesting:

- Three tasks are needed for the lock's hardest state: one owes a wake-up, one
  sleeps, one takes the lock in between. Two rounds let a task meet the state
  its own earlier round left.
- Six nodes are the fewest with which `pqueue_remove` moves the last node
  *upwards*: it has to come from the other subtree. N = 2 makes the array grow
  twice. The view forgets which node is which and what is written before it is
  read again. None of this is told apart by the invariants or by a step of
  `AbstractPQ`, and TLC checks these on every transition out of the states it keeps.
- Three coroutines make a heap with two levels; the array must grow, and may
  fail to. The clock reaches the shorter delay several times.
- Five instructions give the debugger a breakpoint at every position relative
  to the next: same, adjacent, on the same source line, in a loop, without line
  information. One signal is enough to come at any point of a command.
- Two launches and two names give every collision of names, before and after
  the listing of interfaces. A launch draws one name of each template, so a
  free one always exists.
- Addresses of two bits have seven prefixes; with two next hops, and none, that
  is every table up to the depth at which a walk can overrun the best match and
  end in an inner node.
- Two clients and a file that grows from one byte to three, through a buffer of
  two, make the second answer start where the first left the file offset, take
  more than one read, and end while the file grows.
- Forty bytes take a fixed part and up to eight attributes or nests, one inside the
  other; attributes of 1 byte need padding, and the capacity is reached with and
  without it. The size asked for, 38, is not aligned itself.
- Two CPUs have packets inside the hooks in every order with the loading and
  unloading of both modules.
- Payloads of 0 and 6 bytes are below and at the 60 bytes of a shortest frame,
  1460 is an ordinary segment, 2100 is cut by the buffer. 65536 is larger than any
  length, so a difference below zero wraps as it does with 2^64.
- Three pids: the child, what the shell starts, and a stranger who may get the pid
  of either.
- Hardware addresses of two octets, one given and one drawn, from the digits 0, 3
  and f; other texts up to five characters, as many as two octets take with the
  colon between them.
- Two threads of three rounds: a compare-and-swap can fail repeatedly and in
  either thread.
- ABA takes two threads and a node that is seen, taken off and put back; three
  nodes give it something else to find below.

### Fairness

Weak fairness on each task's own step (`LllLock`), on the parent and on the
child of a launch, on the tracee and the debugger, on the event loop and the
clock, on the calls in progress of the stack, on the zero-copy server,
and on `main` and the child of the earlier toy_docker steps up to the shell: the
kernel schedules every runnable thread, and time passes. Nothing is assumed of what
need not happen: a spurious return of FUTEX_WAIT, a user who types, a shell that
is left, a signal, a crash, a caller who calls, a client who comes, reads or goes, an
`accept` that fails. `LockFree` is stated without
assuming that other threads stop: it says that only they can hold up a call.
`DelayEnds` claims the end of delays that expire within the bound on the clock.

### What the runs found

- `lock_comment`: 1 in the lock word does not mean "no waiters". Harmless, since
  the previous holder still owes the wake-up (`NoLostWakeup`).
- `route_longest`: `search`'s second loop claims to go back up to the longest
  match and goes down instead. The answer is then a route that does not match.
  `MatchIsLongest` says that it is never merely a shorter match. The comment at
  `route_test.cpp:73` expects 192.168.2.1 for a query that matches the route
  110/3; there the program's answer, 192.168.3.1, is right.
- `fuse_listed`: `getattr_callback` of `fuse_test_03` fills in the attributes of its
  text file and then returns -ENOENT. `ls` shows the name; nothing can open it.
- `pingdrop_comment`: the comment above the last return of pingdrop's hook says that
  NF_ACCEPT is returned in the end whether the packet is ICMP or not. The hook has
  returned NF_DROP for ICMP by then, as the name of the module says.
- Setting a breakpoint twice saves the int3 as the program's byte. `Armed` and
  `RefinesProgram` hold even then, but `step` may never get past it; the other
  properties of the debugger exclude the case by name.

## 4. Proofs

The theorems hold for every value of the constants that the named assumptions
admit; the assumptions stand in the module that declares the constants, and TLC
evaluates them on its instances. Every inductive invariant was checked by TLC on
the instance of the component's run; where it quantifies over all sequences
(`ListInv`) or names a function by its equation (`HwInv`), in a form bounded by the
instance.

**LllLock** (`TasksAssumption`: a finite, non-empty set of tasks;
`CountAssumption`: COUNT a natural number). The inductive invariant is
`ControlInv /\ LockInv`. Mutual exclusion alone is not inductive: a state with
one holder and a lock word of 0 would let a second in. `LockWord` (0 exactly when
nobody holds the lock) excludes it, and is preserved because a waiter that
exchanges 2 into a held lock leaves it non-zero. `LoadedInv` (what `sum++` loaded
is still `sum`) and `LoopInv`, `JoinInv` (how far each task is) give `SumExact`, by
counting pairs of task and round, and from it `TestPasses`. `NoLostWakeup` is
inductive together with the types. `Refinement` maps every step to a step or a
stutter of `AbstractMutex`; the store of `sum++` is its atomic increment.
`NobodyStuck` is deadlock-freedom: until the verdict is printed main or some task
can take a step, and nobody's sleep has to be interrupted for it. With `StartInv`
(who spins on `go` has a main that will set it) it follows from `NoLostWakeup`:
if everybody slept, somebody would hold the lock or a wake-up would be under way.

**PQueue** (`PrioritiesAssumption`, `SizesAssumption`, `GarbageAssumption`). The
inductive invariant `HeapInv` speaks of the array with the moving node in the
hole. While a loop runs the order may fail at one edge only (`OrderInv`): above
the hole while a node rises, below it while one sinks; `BridgeInv` says that it
holds *across* the hole, which is what makes one turn of the loop preserve it.
That peek and pop return a minimum is not in the invariant: it follows from the
heap order by taking the least slot that would precede the head
(`HeadIsMinimal`). `Refinement` takes a call as one abstract step when it opens
the hole; the loops stutter. `ValidIsExact` is about the array as it is in memory,
the hole included (`RawInv`). The prover has no induction, so what is below a slot
is the least set closed under children, the function `subtree_is_valid` is shown to
satisfy its equation by giving a solution of it (`ValidSubtrees`), and the two
inductions, down from the root and up from the leaves, look at the least or the
greatest slot at which they would fail. `LoopsShrink`: each turn of `bubble_up`
at least halves the index of the hole, each of `percolate_down` at least doubles it
and stays below `size`, so that every call of the queue ends.

**TreiberStack** (`NullAssumption`, `NodesAssumption`). The invariant says that
unpublished nodes are reachable from nowhere (`Hidden`), that no two pushes share
one (`Distinct`) and that what a pop remembers stays true (`Remembered`). The last
is the argument against ABA: `next` is only ever written in an unpublished node,
and a node a pop has seen is not one. For `Refinement` there is also, at every
moment, a finite sequence that is the list hanging from top (`ListInv`), and a node
about to be published leads to what its push saw (`Linked`). `ChainIsList` says that
the refinement mapping, which walks along `next` by recursion, finds that sequence;
a step that writes only unpublished nodes leaves it (`QuietStep`), and a
compare-and-swap that wins adds or takes its first node. `LockFreeSteps` is what
makes the stack lock-free: a call is at most five steps from its return, each of
its steps is one less, and only the return of another call can add to them.

**Coroutine** (`ProgramAssumption`: main resumes distinct coroutines;
`TimesAssumption`: a clock value and a delay make an expiry time; and those of
`PQueue`). Nothing of the heap is proved again. `SameQueue` says that the queue
inside `Coroutine` is that of `PQueue`; `TurnFacts`, `PopFacts` and `InsertFacts`
say what one turn, one pop and one insertion do to the *set* of queued tasks, from
the lemmas behind the queue's refinement of `AbstractPQ`; the rest uses only these.
The inductive invariant is `RegsInv /\ TaskInv /\ PlaceInv`. `RegsInv` follows the
registers: the processor has those of the running context, every other context has
its own saved, `sched->current` is who runs, and main is in the middle of the
event loop whenever a coroutine runs. `TaskInv` says that what is queued is
malloc'ed and that the popped task is malloc'ed and not queued; it carries the
queue's `HeapInv`. `PlaceInv` gives each coroutine one of five places and at most
one task; `OnePlace` counts them. `ResumedInOrder` is the theorem that pop returns a
minimum, at the step that compares it with the clock.

**MiniGdb** (`ProgramAssumption`: a non-empty program, each instruction with its
successors and its line; `SignalsAssumption`). `Armed` fails at one address while
it is stepped over; `OverInv` says that this address is a breakpoint and that the
program's byte is there just then, so that arming it again restores both `Armed`
and `TextIntact`. `ControlInv` ties the debugger's phase to the state of the tracee:
without it a signal that comes during the step could be taken for the end of the
step. `CommandsMove` needs `MoveInv`: until a command has moved the program, the byte
under its instruction pointer is the program's own. `Refinement`: the tracee's steps
are those of `AbstractProgram`; running into an int3 and correcting the instruction
pointer afterwards stutter, as does everything the debugger does. `NoDetour` says
that the debugger does not go round by itself: while a command is executed every
step is an instruction of the program, a signal, one that brings the prompt
nearer (`Distance`), or the end of the debugger where it has a location to show, after
an int3 or in `step_in`. It needs `StepInv`: a single step always starts at an instruction
of the program, never at an int3.

**ToyDocker** (`HostAssumption`: the host is not a launch). `NamesInv` (the
kernel refuses a name that is in use on the host) is what turns the *name* a launch
moves and attaches into its *own* device, hence `OwnVeth`; `PairInv` says from which
point a launch has a pair and that nobody else can have moved it. `LimitsInv` and
`ConfInv` put the limits before the move, the move before the address and the
address before the shell: `ShellConfined` is the end of that chain, and it does not
depend on how the parent ended. `PipeInv` says who can still have the write end of the
pipe; from it, `NoMutualWait`: the child's read and the parent's waitpid never block
on each other. `LaunchesAdvance` counts what a launch has left (`StepsLeft`, at most
22): every step of it is one less, and no other launch adds any.

**RouteTrie** (`WidthAssumption`, `CallsAssumption`: calls of `insert` give an
address and a length not above its width). `PrefixClosed` and `EndsAtLeaves` (a node
without a child is a leaf, but for the root of an empty table) give
`CrashOnlyIfEmpty`. `WalkInv` (the first loop is at a prefix of the address) and
`DescendInv` (the second starts no higher than the longest match) give
`MatchIsLongest`: it only goes down, so a match it reports is no shorter.
`SearchShrinks`: a search of either outcome takes at most `Width + 2` turns.

**The small programs** (`ProgramsProofs`; the assumptions are in `MCPrograms`:
`DumpAssumption`, `BufferAssumption`, `AddressAssumption`: an address has at least
the one octet of the prefix, `ThreadsAssumption`). Each is proved of its own
module through the instance in `MCPrograms`, whose other programs stand still.

- `OnlyOursLimited`: the pid `write_cgroup` writes is still the child's, running or a
  zombie, until `wait` has returned it (`StepsInv`). `NothingLeft`: after the shell,
  main has crashed, is through, or has something to do; when it is through no
  process of the container is left (`ReapInv`: what the shell started lives no longer
  than the shell, and a zombie is the child's).
- `NoStaleHook`: a registered hook is a loaded module's, once
  (`HooksInv`), and what a packet has still to pass was there when it came in
  (`PacketInv`).
- `LineExact`: the subtraction of the headers does not wrap for a frame that has
  them, as long as the buffer holds them and is smaller than the word; padding only
  adds to what is left.
- `AnswerIntact`: what was sent is the file up to the offset less what is in the
  buffer, or, after a short write, some bytes of it and none beyond (`ProgressInv`,
  `UpTo`), so that what is sent next comes after all of it (`MoreBytes`); a client is in
  one place at a time (`PlacesInv`). `Serves`:
  every step of the server is one nearer to its next `accept` (`ToAccept`; a file that
  grows adds to it), and that takes the first of a backlog to which clients are only
  appended.
- `OnceEach`: an outline of each of the three programs (`Outline2` to `Outline4`) says
  for every place the thread can be at what has been printed and what is in the
  variables that the rest of the way goes by; every step goes from one line of the
  outline to the next. In the last program this shows at which moment which of the
  three variables may be overwritten.
- `ConvertExact`: what is read is the beginning of the address that was drawn, and
  what is not read yet is the text of the other octets, with or without leading
  zeros (`HwInv`); `ReadOctet` says that one turn takes just one octet off such a text.
  The text is a recursive function; that it exists for every length is `TextsEquation`,
  by the last octet from which on there would be none.
- `TotalsRight`: the counter is the number of pairs of thread and addition already
  made (`CasInv`); for the globals, what a thread has loaded is at most what the
  threads that have got so far can have added (`GlobalInv`).

Type correctness (`TypeOK`) of `LllLock`, `PQueue` and `TreiberStack`, `LockWord` and
`TestPasses` of the lock and `PushOwnsNode` of the stack are proved and no longer
run. `TypeOK` of `ToyDocker`, `MiniGdb` and `RouteTrie` is part of their invariants.

Only model-checked: all liveness (`Terminates`, `DelayEnds`, `CommandsReturn`,
`LaunchEnds`, `LockFree`, `Answered`, `Reaped`), since the prover has
no rules for fairness or `ENABLED` here; and the two properties of `NlMsg`. Of each
liveness property there is a safety half, and that is
proved, for every value of the constants: that nobody is stuck (`NobodyStuck`,
`NoMutualWait`, `NothingLeft`) or that every step brings the end nearer
(`LaunchesAdvance`, `LockFreeSteps`, `NoDetour`, `Serves`; and, where no liveness is
run because the code is a plain loop, `SearchShrinks` and `LoopsShrink`). What is left to TLC is the step from there to "it
happens", by the fairness of the run. The exception is `DelayEnds`: there is
`ResumedInOrder`, that nobody overtakes, but no measure, as the clock may be set back
under everybody who waits. These theorems were also checked by TLC on the instances of the
runs; they are not properties of runs of their own, as the
liveness properties there say more.

## 5. Not modelled

- Types and values in netlink messages, register and memory writes typed by the
  debugger's user, DWARF, the text `minidump` prints: data no property tells apart. Where
  the code looks something up in them on the way of a modelled operation and can fail,
  the failure is in the model: a transaction that is refused, a panic of the debugger
  on a location or a source file.
- The check of `netlink_rcv` for an answer that was cut off: the program reads only the
  type and the error code, at the beginning of it.
- Failing malloc in the scheduler, failing pthread_create, joins of uninitialised
  ids: the outcome cannot be enumerated.
- Compiler optimisation of the unsynchronised `go` (`lock_impl.c:246`).
- Values of the cgroup files that the kernel refuses: the code cannot notice.
- `lxc_mkifname` with every name taken: it draws for ever (`network.c:617`). The
  instances always leave a free name.
- Leaving the debugger, by a command or by a panic, with breakpoints set: the tracee is killed by the first one
  it runs into. No property of the repository's says otherwise.
- A siginfo that could not be read because the tracee has exited: whatever the
  debugger makes of it is the single step `Confused`.
- Functions of `network.c` and of the lock that nobody calls.
- `busy.c`, `namespace_test.cpp`, `tuntap_test`, `socket_01`, the thread demos that
  only sleep or print: sequences of system calls without a decision of their own.
- The components with status `not_modelled` in `PROJECT.json`, with reasons:
  `list_add` on a list of three items and system calls in a row, DNS look-ups,
  demonstrations of tools or of compiler output, and the vendored FUSE headers.
  About a third of the implementation's lines are those headers.

## 6. Plan

1. Done: the models of section 2; proofs of every safety property of the lock, the
   queue, the scheduler, the debugger, the launch protocol, the trie and the stack,
   of the refinements of the lock, the queue, the debugger and the stack, of the
   small programs' properties named in section 4, and of the safety half of the
   liveness properties.
2. Models left: `list_add`, if anything should ever depend on it.
3. Proofs left: the two properties of `NlMsg`. For `DelayEnds`, a measure would have to
   count the times the clock can still be set back, the turns of the event loop and
   the tasks that expire earlier.
