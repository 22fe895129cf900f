# A TLA+ verification of the CS:APP labs

This directory specifies, model-checks and proves the programs of the repository:
solutions of the nine CS:APP labs under `src/labs/`. The labs do not call one
another; each is a program of its own. What they share is a shape: a small data
structure, updated in place, under concurrency or over long sequences of calls, that
is hard to test. The concurrent ones (the proxy and the shell) are modelled first.

`PROJECT.json` lists the components, the runs, the source lines of every definition,
a mutant for every checked property, the hazards and the findings.

    tlasany M.tla                             # parse
    tlc -workers 2 -config X.cfg MCM.tla      # check
    tlapm LabsProofs.tla                      # prove

## 1. The system

### 1.1 The caching proxy (`09-proxy`)

Three parts in one process, which share memory:

    clients -> main thread --sbuf_enq--> connection buffer --sbuf_deq--> 8 workers
                                                                          |   ^
                                                    cache_get, cache_put  v   | responses
                                                                object cache  origin servers

| Part | State | Operations | What is hard |
|---|---|---|---|
| connection buffer `sbuf.c` | byte array, two `size_t` cursors, a mutex, two semaphores | `sbuf_create`, `sbuf_enq`, `sbuf_deq` | blocking at both ends, cursors that wrap, slots addressed in bytes |
| object cache `cache.c` | doubly linked list, free bytes, a patience count in each entry, a reader-writer lock | `cache_init`, `cache_get`, `cache_put` | concurrent readers that write the patience, an eviction walk that reorders the list it walks, two puts of one uri |
| proxy `proxy.c` | the connections, per worker the request and the saved response | `server_loop`, `worker_loop`, `handle_connection`, `forward_request`, `forward_response` | failures after part of a response was sent, servers that hang, what may be cached, ownership of a connection across threads |
| `csapp.c`, `tiny/`, `driver.sh` | none shared | socket wrappers, an origin server, tests | sequential |

It is correct when a connection has one owner and is closed once; a client gets the
data of the server it named or one status; the cache is a map that never mixes
objects, accounts for its bytes and makes room without an endless loop; and one bad
server does not stop the others from being served.

### 1.2 The shell (`07-shell`)

`tsh.c` has a main program (`eval`, `builtin_cmd`, `do_bgfg`, `waitfg`), signal
handlers (`sigchld_handler`, `sigint_tstp_handler`) that interrupt it at any
instruction, and the job list (`addjob`, `deletejob`, `clearjob`, `getjob*`) which both
use. Its environment is the kernel (fork, process groups, pending signals, `waitpid`)
and the children. Hard: a child that ends before its job exists; one SIGCHLD for
several children; a report that goes to the handler although `waitfg` waits for it; a
handler between the stores of `clearjob`. It is correct when the list agrees with the
children, at most one job is in the foreground, keys go to that job, the main program
waits for it and for nothing else, and every child is reaped.

### 1.3 The allocator (`08-malloc`)

`mm.c` keeps blocks with boundary tags in one heap, free blocks in segregated lists
linked through the blocks. Operations `mm_init`, `malloc`, `free`, `realloc`, `calloc`;
`memlib.c` is the heap's end, `mdriver.c` replays traces. Sequential; hard are long
call sequences, coalescing with both neighbours, `realloc` in place with a coalescing
that is undone when no block suffices (`uncoalesce_was_resvd`), the last block and
the end of the heap. It is correct when the live payloads are disjoint, aligned and
keep their contents, and the lists hold exactly the free blocks (`mm_check`).

### 1.4 The cache simulator and transpose (`05-cache`)

`cache.c` is a set-associative cache with time stamps, `csim.c` replays a trace on it,
`params.c` cuts addresses into tag, set and block; `trans.c` transposes tile by tile.
The simulator is correct when every set behaves like a list ordered by last use, the
transpose when every element is copied once.

### 1.5 The Y86-64 processor (`04-architecture`)

`misc/isa.c` interprets instructions; `pipe/psim.c` with `pipe/pipe-full.hcl` runs them
in five stages with forwarding, stalls and bubbles; `seq/` in one stage; `misc/` has an
assembler and the HCL compiler. Hard: load-use, mispredicted branches and returns that
meet in one cycle. The pipeline is correct when what it retires is what the
instruction set does.

### 1.6 The rest

`01-data/bits.c` (bit puzzles with reference functions in `tests.c`),
`06-performance/kernels.c` (loop transformations), `02-bomb`, `03-attack` (a main
program and a farm of bytes, without behaviour of their own).

## 2. Modules

| Module | Models | Kind |
|---|---|---|
| `SBuf` | `sbuf.c` | threads on semaphores, mutex, byte array |
| `CacheStore` | what `cache.h` offers | abstract specification |
| `ProxyCache` | `cache.c` | list, lock, eviction walk; implements `CacheStore` |
| `ProxyCacheProofs` | | theorems about `ProxyCache` |
| `ProxyService` | what a client of the proxy sees | abstract specification |
| `Proxy` | `proxy.c`, on a bounded queue and on `CacheStore` | implements `ProxyService` |
| `ProxyProofs` | | theorems about `Proxy` |
| `ByteStream` | what the buffered reads promise | abstract specification |
| `Rio` | the Rio package of `tiny/csapp.c`, one system call a step | implements `ByteStream` |
| `Tiny` | `tiny.c` and `cgi-bin/adder.c`, on `Rio` | one client after the other |
| `JobTable` | the job list of `tsh.c` | operators |
| `CommandLine` | `parseline`, `builtin_cmd` and the arguments of `fg` and `bg` | operators |
| `Shell` | `tsh.c` with the kernel and the children, on `JobTable` | main program and handlers |
| `ShellProofs` | | theorems about `Shell` |
| `MM` | `mm.c` on `memlib.c`, and `mm_check` | operators on a heap |
| `Allocator` | what the driver expects of an allocator | abstract specification |
| `Malloc` | any client of `MM`, one action a call | implements `Allocator` |
| `MallocProofs` | | theorems about `Malloc` |
| `Mdriver` | `mdriver.c` on `MM`: a trace is read, checked, measured and timed | the driver's own steps |
| `Words` | two's complement words of `WordBits` bits | operators |
| `ISA` | `step_state` of `isa.c` | operators |
| `Y86` | one instruction after the other | abstract specification |
| `Assembler` | `yas.c` and `load_mem` | operators: lines to an image |
| `Pipe` | `psim.c` with `pipe-full.hcl` | one action a cycle; implements `Y86` |
| `Seq` | `ssim.c` with `seq-full.hcl` | implements `Y86` |
| `ISAProofs`, `SeqProofs`, `PipeProofs` | | theorems about `ISA`, `Seq` and `Pipe` |
| `LRU` | a cache that replaces what was used least recently | abstract specification |
| `CacheSim` | `cache.c`, `csim.c`, `params.c` of the cache lab | implements `LRU` |
| `Transpose`, `TransTest` | `trans.c`; `test-trans.c` with `tracegen.c`, on `CacheSim` | loads and stores; the tester |
| `Puzzles`, `Btest` | `bits.c` with `tests.c`; `btest.c` with `decl.c` | operators; the harness |
| `KBest`, `PerfLab` | `clock.c`, `fcyc.c`; `kernels.c`, `driver.c` | measurement; the driver |
| `LabsProofs` | | theorems about `SBuf`, about `Rio` and `Tiny`, and about `PerfLab` and `KBest` |
| `MCSBuf`, `MCProxyCache`, `MCProxy`, `MCShell`, `MCMalloc`, `MCY86`, `MCLabs` | | instances for TLC |

A definition named after another with a suffix (`EnqPostLost`, `DeqKeeps`) or marked
"A bug" is no part of a specification: it is a plausible mistake, put in the
place of the definition it is named after to show that the property listed with it
in `PROJECT.json` notices.

How they compose: `Proxy` uses `CacheStore`, which `ProxyCache` implements, and takes over
from `SBuf` that only the newest item in the buffer is sure to be whole. `Malloc` and
`Mdriver` are two clients of `MM`; `MCMalloc` has behaviours of either. `MCY86` assembles
short programs and runs both processors on each. `TransTest` feeds the trace of
`Transpose` to `CacheSim`, as test-trans feeds it to csim. `MCLabs` has a behaviour for
each program that runs in one thread and shares nothing with the others.

### 2.1 SBuf

A thread's place (`pc`) changes where another thread can run: at the wait on a
semaphore, the lock, the copy with its cursor increment, the unlock, the post.
`data` is the array byte by byte and `WriteAt` copies `Sz` bytes to the slot *number*
`rear % N`, because the code does not scale it by the size of an item. Cursors are
`size_t`: `Incr` wraps at `SizeMax`. `queue` is a history of the items that are in.
`sem_retry_wait` and `sem_retry_post` retry on EINTR, which is a stutter.

### 2.2 ProxyCache and CacheStore

`list` is the sequence of nodes behind `cache.head`; `entry` maps the allocated nodes
to uri, data and patience, so a freed node is outside its domain and may be allocated
again. `cache_get` is four steps under the read lock (find, copy, count, unlock) because
other readers lower patiences in between. `cache_put` allocates before it locks, then
each iteration of a loop of `cache_bookkeeping` is a step: `WalkMatch`, `WalkPromote`,
`WalkEvict`, `WalkKeep`, then `Sweep` rounds, then the insertion. `LoopEnd` is the
`while` condition.

`CacheStore` is a map: `Lookup` reads it at one instant, `Store` never replaces an
object, `Evict` needs a put that lacks room. `ProxyCache` implements it with
`Contents` (the listed entries as a map) and `Call` (a call is done once it took effect).
`Proxy` uses `CacheStore` through `INSTANCE`, so what the proxy's runs show rests on what
`cache_full` shows.

### 2.3 Proxy and ProxyService

`Accept` and `Enq` are the main thread, `Deq` and `Handle` a worker. `ReadBad` to `Close`
follow `handle_connection` with its gotos: every error path sends at most one status
and closes. `Relay` is one `recv` with its `send`, `RelayEnds` the end of a response:
what was saved is put when it did not pass `MAX_OBJECT_SIZE`. Servers are pairs of a
host and a port, one in `Hanging` may stop answering (`Hang`), a connection in `Stalling` may stop sending or reading (`Stall`), one in `Several` has a second
address, which `wrap_socket_open` tries as long as it refuses (`Retry`, `Reached`), and `Uri` keeps the host only, as `uri_parse` does. The buffer is a
sequence whose older items may be damaged when another is enqueued (what `SBuf` shows);
a worker that dequeues a damaged `FILE *` ends the process (`up`).

`ProxyService` is the life of each connection alone: connecting, open or abandoned,
closed and forgotten; it gets one status or growing data of one server *on the host it named*.

### 2.4 JobTable, CommandLine and Shell

`JobTable` is the array of jobs and `nextjid`, searched from the start as in the code.
`clearjob` is two steps (`clearpid`, `deletejob`) since the key handlers can run between
its stores.

In `CommandLine` a line is a sequence of tokens: the characters with a meaning, numbers,
and runs of letters. `Command` gives what `eval` does for it. `Shell` takes the set of these
as the constant `Commands`; `MCShell` checks (as an assumption that TLC evaluates) that its value is
what all lines of up to four tokens ask for (but for those that name the pid 0), and that a line put together from
arguments is split into the same ones.

`Shell` has two frames, the main program and the SIGCHLD handler. While the handler
runs the main program stands still; the key handler is one step that fits anywhere
its signal is not blocked. The kernel's part is `proc` (the life of each child),
`unreported` (stops that no `waitpid` returned yet), `chld` (SIGCHLD pends, once for any
number of children), `keys` and `mask`. `Reap`, `Clear`, `Collect` and `CollectNone` are
`wait_childs` and `reap_child` in whichever frame runs them.

### 2.5 MM, Malloc, Allocator and Mdriver

The heap is a function of words, as the code sees it: addresses and sizes are in words
of 4 bytes, a block's header is the word before it and its footer the second last of
its words (`HDRP`, `PFTRP`, `META_PUT`), the prolog holds the list heads. Because `mm_init`
puts the prolog at the start of the heap, its header is word -1, which `mem_sbrk` does not
own; nothing reads that word, and the model has it. Each list is a sequence with the newest block first, and the
links, which the code keeps in the first two words of a free block, are `Junk`. The heap is one record
so that the helpers of `MM` compose as the functions do: `coalesce_will_free`, then
`free_tail_was_resvd` or `free_node`. `mm_realloc` is `GrowInPlace` or `Move`.

The program is sequential, so a call is one action. The client of `Malloc` may make any calls;
it fills a payload right after the call that gave it (`Write`), and until then makes no other.
`Allocator` says what the driver's checks say (`add_range` and the comparison after a
realloc): payloads aligned, inside the heap, disjoint, contents kept, a failing call changes
nothing. `Undo` says whether a realloc that finds no larger block may be made where the
block in front is allocated (section 4).

`Mdriver` has the passes of `mdriver.c` over each trace: `StartValid` with `CheckedObtain` and
`CheckedFree` (`eval_mm_valid`), `StartUtil` with `Measure`, `StartSpeed` with `Time`. `Restart` is
`mem_reset_brk` with `mm_init`: the words, the tags and the lists of the pass before stay
where they are. A file that cannot be read, and a call that fails in a later pass, end the
program.

### 2.6 ISA, Y86, Pipe and Seq

`ISA` translates `step_state`: `StepState` gives the machine after one instruction, with the status
of one that fails. Code and data are kept apart: `code` maps the address of an
instruction to its record, `mem` the address of a data word to its value. `Y86` makes
one such step at a time.

`Pipe` has the pipeline registers F, D, E, M and W as records and the signals of the HCL file
by their names. `Cycle` is one turn of the loop of `sim_run_pipe`. `PipeImplementsISA` counts an
instruction as done when it leaves the execute stage, and flushes what the memory and write-back
stages still hold, so a cycle is one step of `Y86` or none. `Seq` computes an instruction and stores it at the top of
the next call, as `sim_step` does; its refinement counts what is pending
as done, except for the last instruction of a run, whose status is not AOK and which is never stored.

`Assembler` does both passes of `finish_line` and gives what `load_mem` reads back.

### 2.7 The labs of one thread

`CacheSim` keeps lines in fixed places with time stamps and finds the victim as
`access_cache` does; `LRU` keeps a list in order of last use. `Transpose` gives each tile as a
sequence of loads and stores, with the two temporaries of `trans_64`; `TransTest` validates the
matrix, then counts misses tile by tile.

`Puzzles` has each function of `bits.c` as the expression that it returns, on words of
`WordBits` bits, and the reference of `tests.c` beside it; `Btest` asks them on the values of
`gen_vals`. `KBest` has a cycle counter of two small words, the insertion of `add_sample`, and the correction for
timer interrupts, which subtracts an estimate: the number of ticks says nothing of the cycles that they took.
`PerfLab` runs a kernel on images in one array and ends as the driver does at a time that is not positive.

`Rio` is `rio_read`, `rio_readlineb`, `rio_readnb` and `rio_writen` with short counts, EINTR, end of
file and reset. `Tiny` runs on it: a request line, headers up to the empty line, a page, a
file or a forked program. A byte is a symbol that stands for a run of bytes that the code
treats alike. `MovesOn` names the clients behind which the server does not get to the next one.

## 3. Runs

States are distinct states found by TLC.

| Run | Configuration | States | Shows |
|---|---|---|---|
| `sbuf_full` | 1 producer, 2 consumers, 2 slots of 2 bytes, `SizeMax` 3 | 101 k | semaphores and cursors keep the account of the slots; the newest item is intact; the front moves on |
| `sbuf_overlap` | the same | violation | the slots overlap |
| `cache_full` | 2 threads, 3 uris, 5 nodes, objects of 1 and 2 in a cache of 3 | 159 k | no use after free, no leak, unique uris, second chance, the walk shrinks what is left, implements `CacheStore` |
| `shell_safe` | 3 children, 2 slots, 1 key, all commands of short lines | 352 k | the list agrees with the children, no report is lost |
| `shell_wait` | 2 children, 2 slots | violation | `waitfg` waits for a job that has stopped |
| `proxy_full` | 3 connections, 2 workers, 2 servers, one that may hang and one with two addresses, one client that may stall | 493 k | one owner, the cache gets what was sent, implements `ProxyService`; while a worker is left the others are served |
| `proxy_port` | 2 connections, two servers on one host | violation | the cache key lacks the port |
| `malloc_safe` | 3 blocks of 4 sizes, chunks of 16 words, 48 words, `Undo` false; the driver on all traces of 3 requests, pairs of traces and unreadable files | 104 k | `mm_check` holds and more, no needless growth, implements `Allocator`; the driver finds no fault and its passes agree |
| `malloc_undo` | the same, `Undo` true | violation | a failing realloc frees its neighbour |
| `y86_full` | all programs of 3 lines of 18 kinds and of 4 lines of 7 kinds | 83 k | no stage is stalled and bubbled at once; both processors implement `Y86`; the pipeline keeps retiring |
| `y86_bare` | two loads without a base register | violation | the pipeline forwards an address as a base |
| `labs_full` | see below | 144 k | caches are LRU, graded sizes and puzzles pass, shortest corrected times are kept, kernels are accepted, bytes come in order, Tiny answers whole and moves on after all clients but those it names |

### 3.1 Bounds, and why they are enough

- **SBuf.** `SizeMax` 3 and 2 slots make every cursor wrap twice around the slots; 2
  bytes per item are the least for which slots overlap; 2 consumers race for the lock;
  the real buffer has one producer. The theorems of section 5 hold for every value.
- **ProxyCache.** An object of 1 and one of 2 in 3 units make a put that evicts
  nothing, one and two entries; `PatienceMin` bounds how often an entry is hit.
  Three uris for two
  threads give equal and different concurrent puts. The spare nodes let a freed node
  be reused while another is pending.
- **Shell.** `MaxJobs` 2 with 3 children fills the list; `KeysMax` bounds the typed keys.
  All lines of up to four tokens are typed but those that name the pid 0.
  The children are symmetric in `shell_safe`.
- **Malloc.** Requests of 1, 5, 10 and 20 words make blocks of 4, 8, 12 and 22: the least
  block, one of each class, one above a chunk; the rests include 2 words, too few
  for a block. 48 words are three chunks, so that the heap grows by one and by two and
  is exhausted. The traces of three requests obtain, move, free and free nothing in every
  order; a pair has a first trace that uses up the memory in a realloc. `SpeedRuns` 2 is
  the least for which a timed run follows another.
- **Proxy.** Two workers are the least with which one can hang and another go on; 3
  connections and `N` 2 let the main thread wait for a slot; `MaxObject` 1 with
  responses of 2 and 1 blocks gives objects above and at the limit. One origin may hang and one client stall, so
  that both workers can be taken.
- **Y86.** Words have 8 bits and memory 120 bytes, of which the words at 80, 88, ..., 112
  are data; the registers are rax, rdx and rsp. A prologue sets the stack and a pointer. Three
  instructions in a row are what forwarding can tell apart, and four of the late ones
  make a load, a return and a branch meet in one cycle. Jumps go forward, to the line after the next.
  An access to memory without a base register is left to `y86_bare`. The instruction
  limit of `-l` is modelled and not set.
- **Cache simulator.** Two sets of two lines, one of three, two of one without block bits;
  6 accesses to 6 addresses, of every kind of trace line.
- **Transpose.** The graded sizes 32 by 32, 64 by 64 and 61 by 67 in full, with the misses
  that the grading allows; 4 by 256 and an empty matrix.
- **Puzzles.** Words of 8 bits and floats with 5 bits of exponent and 2 of fraction; every
  argument that `gen_vals` makes, and every float for `FloatsElsewhere`.
- **Performance lab.** All images of 2 by 2 (and 3 by 3 for the odd size) of two colours, one
  component; counter words of 2 bits, so that both words wrap. A run takes 5 or 8 cycles and a tick is taken for 6,
  so that with a tick the shorter time comes out negative and the longer one positive.
- **Tiny.** Lines of at most 4 symbols, a Rio buffer of 2, six requests, five of which name
  a page, an empty file, a directory, a program with and without `&`, and nothing.

Deadlock is checked where it is not said otherwise in the .cfg. It is not checked for the shell, which may
exit, the proxy, where nobody has to connect and `main` may return, the allocator's run and the
labs, where a driver exits, and the processors, which halt.

### 3.2 Fairness

- **Threads** inside an operation are scheduled (weak fairness of the operation's
  steps). In `SBuf` no worker has to call `sbuf_deq`: a worker comes back when `handle_connection` returns, which
  may be never. `FrontAdvances` says that the front moves while there is a call of `sbuf_deq`.
- **Callers** are free: nobody has to enqueue, to connect, to call the cache or to type.
- **Signals.** `Deliver` is strongly fair: `sigprocmask` delivers a pending signal before
  it returns (POSIX), so a SIGCHLD that is unblocked again and again is not missed.
- **Children** do reach `exec`; they need not end.
- **Clients and servers of the proxy** are assumed to go on, except those in `Stalling` and `Hanging`. Neither `getline` nor
  `recv` nor `send` has a timeout, so this is an assumption about the peers and not about the proxy: a step of
  `Handle` that waits for a peer is fair only for one that goes on. A second address may refuse for ever.
  `OthersServed` claims service only while a worker is not with a stuck peer.
- **Eviction** in `Proxy` is weakly fair. `WalkShrinks` of `ProxyCache` justifies it: every
  step of the walk makes a measure (`Work`, a natural number) smaller, while the writer has the
  lock. This is checked and, for every value of the constants, proved (`WalksEnd`).
- **Processors.** A simulator's loop runs on (`MCNext`).
- **Tiny** goes on whenever it can; its clients need not send, read or reset. The
  child that `serve_dynamic` waits for ends.

## 4. What the code does not do

Five runs find a property that a document or a comment of the repository claims violated:

1. `sbuf_overlap` (`sbuf.c:66`): the slot of an item is `rear % n` *bytes* into the
   array. With two queued connections the second pointer overwrites seven bytes of
   the first. One queued connection is safe, which is `NewestIntact` (checked and proved).
2. `shell_wait` (`tsh.c:342`): the handler may take the report of a stop before
   `waitfg` asks; `waitpid` then waits for a child that is no longer in the foreground.
3. `proxy_port` (`proxy.c:374`): two servers on one host share their cache entries.
4. `malloc_undo` (`mm.c:227`): when a realloc finds no larger block it gives back what it
   had merged, and takes an allocated block in front for a merged one: that live
   block is put into a free list. The code is right when the block in front was free.
5. `y86_bare` (`pipe-full.hcl`): a load without a base register leaves its destination
   fields so that the next one takes a forwarded value for its base.

### 4.1 Known deviations without a run

- **Shell.** A comment disagrees with the code: the transitions listed at `tsh.c:28-34` are FG to ST, ST to FG, ST to
  BG and BG to FG, but `reap_child` (`tsh.c:387`) stores ST for any child that stops, so a background job that is
  stopped from outside goes from BG to ST. A property that allows the listed transitions only fails on the instance of
  `shell_wait` (start a job with `&`, stop its child). `JobLife` has the transitions that do occur, each with its cause.
- **Shell.** Between the stores of `clearjob` a job is FG with pid 0, and a key goes to
  the shell's own process group (`tsh.c:457`). Job ids are not unique (`tsh.c:515`): `nextjid`
  wraps without a look at the ids in use. `fg 0` marks a cleared slot FG; `fg x` restores a
  signal mask that was never saved, after which SIGCHLD may stay blocked.
- **Proxy.** `wrap_socket_open` advances to the address after the *first* (`proxy.c:107`), so a
  second address that refuses is tried for ever. `Proxy` has this, and `OthersServed` allows for it. Nothing has a
  timeout: eight origins that hang, or clients that neither send nor read nor hang up, take all the workers for ever.
- **Allocator's driver.** `add_range` does not notice a payload that encloses an old one
  (`mdriver.c:401`).
- **Tiny.** The end of the connection inside the headers keeps `read_requesthdrs` in its loop
  for ever (`tiny.c:108`); an empty file ends the server (`Mmap` of length 0); so does a write to a
  connection that was reset. These are the exceptions of `MovesOn`, with clients that stay and neither send nor read.
- **Performance lab.** The correction of a time subtracts the least cycles per tick that `callibrate` saw
  (`clock.c:192`, `clock.c:235`), whatever the interrupts took: a time can come out too long, too short or not
  positive, and at the last the driver exits (`driver.c:407`). `KeepsTheBest` is about corrected times.
- **Data lab.** Doubling a large float gives a NaN, a conversion of 2^24 or more shifts by a negative
  count, and one power of two at the border of the denormalised ones is 0; `FloatsElsewhere` says exactly where,
  and that `btest` does not look there.
- **Cache lab.** The blocked transposition is wrong for some sizes that are not graded (64 by 128,
  128 by 128, 256 by 256, 4 by 256), which `test-trans` would take. With neither set nor block bits a
  tag loses the lowest bit of the address (`cache.c:38`), a geometry that `ConfigsAssumption` excludes.
- **Processors.** The limit `-l` counts cycles of the pipeline as soon as one of them retires
  a bubble (`psim.c:762`), and the state it leaves need not be one of the instruction set.
  The comparison of `-t` also fails for a push, a call or a pop that faults, where the stack pointer
  differs; `PipeImplementsISA` compares what has retired before.

## 5. Proofs

37 theorems hold for every value of the constants that the named assumptions allow; TLC checks the
same properties on the small instances of section 3.

| Module | Theorem | Property |
|---|---|---|
| `LabsProofs` (SBuf) | `TypeCorrect` | `TypeOK` |
| | `MutualExclusion` | `LockDiscipline` |
| | `Conservation` | `TokensConserved` |
| | `NoOverrun` | `CopyHasRoom` and `CursorsBracketQueue` |
| | `NewestDelivered` | `NewestIntact` |
| `LabsProofs` (Rio, Tiny) | `CallerReads`, `TinyReads` | `ImplementsStream` |
| `LabsProofs` (PerfLab) | `AcceptsKernels` | `KernelsAccepted` |
| | `MeasuresBest` | `KeepsTheBest` |
| `ProxyCacheProofs` | `LockHeld` | `LockDiscipline` |
| | `NoUseAfterFree` | `ReaderSafe` |
| | `UrisUnique` | `UniqueUris` |
| | `EntriesOwned` | `NothingLeaks` |
| | `TypesKept` | `TypeOK`, with the range of `freesz` |
| | `SecondChances` | `SecondChance` |
| | `WalksEnd` | `WalkShrinks` |
| | `StoreImplemented` | `ImplementsStore` |
| `ProxyProofs` | `OwnedOnce` | `OneOwner` |
| | `PutsWhole` | `PutsWhatItSent` |
| | `Serves` | `ImplementsService` |
| | `UsesTheStore` | `Cache!Spec`: the workers use the cache as `CacheStore` allows |
| `ShellProofs` | `TypesKept` | `TypeOK` |
| | `NothingForgotten` | `ReportsKept` |
| | `Invariant` | `IInv` |
| | `NoneLeftBehind` | `NoStaleJob` |
| | `AlwaysAwaited` | `ForegroundAwaited` |
| | `ListTruthful` | `StatesTruthful` |
| | `JobsLast` | `JobLife` |
| `ISAProofs` | `StepTyped` | `step_state` keeps words words |
| `SeqProofs` | `SeqCorrect` | `SeqImplementsISA` |
| `PipeProofs` | `PipeCorrect` | `PipeImplementsISA` |
| | `NeverBoth` | `NoConflict` |
| `MallocProofs` | `AlwaysConsistent` | `Consistent` |
| | `AlwaysIntact` | `Intact`, where `malloc_undo` does not reach |
| | `GrowthNeeded` | `GrowsOnlyWhenFull` |
| | `MallocImplements` | `ImplementsAllocator` |
| | `DriverFindsNoFault` | `FindsNoFault` |

So every safety property that a run checks of the proxy's parts, the shell, the allocator, the processors and the
performance lab is a theorem, and so are their refinements and that of the buffered reads; the exceptions are in
section 5.8. `LabsProofs` has three sections that use nothing of one another.

### 5.1 SBuf

Assumptions: the threads are finitely many (they are counted), at least one slot and
one byte, and the number of slots divides 2^64 (`SBufAssumption`, `CursorAssumption`;
`LISTENQ` is 1024).

The inductive invariant `IInv` is the conjunction of `TypeOK`, `LockDiscipline`,
`TokensConserved`, `CursorsBracketQueue` and `NewestIntact` with `ItemsInQueue`:

    Len(queue) = items + (calls of sbuf_enq that copied and have not posted)
                       + (calls of sbuf_deq that have a token and have not copied)

It is needed because `CopyHasRoom` speaks of the queue and the semaphores do not: with
`TokensConserved` the sum bounds `Len(queue)` by `N`, strictly so while a producer
is about to copy, and keeps it above zero while a consumer is (`RoomFromTokens`). The
counts of threads are cardinalities; `CountMove` says how they change when one thread
moves, and `AccountKept` turns that into the two sums for each of the ten steps.
`NewestIntact` rests on `ReadAfterWrite`, and on the fact that a dequeue writes nothing.

### 5.2 ProxyCache

The only assumption is `CacheAssumption`: no object is larger than the cache (the proxy caches
nothing above `MAX_OBJECT_SIZE`). `Locks` (the places of the threads and `LockDiscipline`) is
inductive by itself. `Struct` is inductive given `Locks`: types, `UniqueUris`, `NothingLeaks`,
`ReaderSafe` and `Walks`, which says what the code of `cache_bookkeeping` relies on and
the checked invariants do not say. A walk is inside the list, the positions behind it do
not hold the new object's uri, and therefore no position does when the second loop or
the insertion begins. Without it `UniqueUris` is not inductive: `PutInsert` could add
a uri that is listed. The steps are grouped by what they do to the list:

- `Undisturbed`: list and uris stay, one thread moves (most steps);
- `AfterPromote`, with `PromotedList`: a promotion permutes the positions by `From`, and
  leaves those behind the walk in place, since the node moves to the far end;
- `AfterEvict`, with `ShortenedList`: the positions close up by `Behind`;
- `AfterCreate`, `AfterInsert`, `AfterDrop`: a node changes its owner.

In all but the first and `AfterCreate` the thread has the write lock, so that no other
thread reads or walks (`OneWriter`).

The second half of `ProxyCacheProofs` adds `Kept`, inductive given these two:

- `Accounts`: the free bytes are those that no listed entry takes. There is no induction over
  the list: `CacheStore` counts the *set* of bytes that are stored (pairs of a uri and a number), whose
  cardinality changes by the size of one entry at a time.
- `Tails`: a walk that lacks room has kept no entry, so it stands at the tail, or at the head behind
  the one that it promoted last; the second loop starts with one entry at most, and it always has
  room when it ends. This is what makes `WalksEnd` true: a round never starts on an empty list.
- `Chances`: the promoted entries are in front of those not yet visited; `SecondChances` needs it.
- `Answers`: a reader holds an object only between the copy and its return.

`WalksEnd` takes a cardinality as its measure, that of `Rounds`: the passes that the patience of each
listed entry still allows. `StoreImplemented` maps the list to a map and each call to done from
the step on that made it take effect.

### 5.3 Proxy

`ProxyAssumption` gives every response a length of at most `MaxLen`, an arbitrary number. The
invariant `IInv` has `Owned` (the open connections are those of the main thread, the
buffer and the workers, without overlap: this is `OneOwner` with the uniqueness that it needs),
`Fresh` (a client that got something is served by a worker that is relaying or about to close),
`Keyed` (what the cache has is from a server of the host of its key: not from the *port*, section 4)
and `Local`, which ties a worker's place to its saved response, its call of the cache and what its
client got. With `Sent` it says that what was saved is what was relayed until the first
block that is too much; hence `PutsWhole`. `Serves` and `UsesTheStore` take the steps one by one.

### 5.4 Shell

`TypesKept` and `NothingForgotten` need no hypothesis but `ShellAssumption` (the form of the commands). The others
assume `NamesJobs`: no `fg` or `bg` names the process 0 (the job 0 is not found, `tsh.c:559`). The code searches its list for
that number and finds a *free* slot (`tsh.c:314`), which it then marks FG; with such a line the properties
fail, and `shell_safe` types all the others. `NamesJobs` is a hazard that no property covers, not
something that the code ensures.

The properties are not inductive. `NoStaleJob` needs to know why eval's `addjob` comes in time: `Fresh`
says that SIGCHLD is blocked from the `fork` on, so that the child has not been waited for. `Stale` names the
frame (the main program in `waitfg`, or the handler) that was told of an end and is about to delete the
job, and `Told` says that what a frame was told of its child stays true until it acts: a reaped child does not
come back, a stopped one may run on only by `SIGCONT`, which the main program sends with SIGCHLD blocked.
`Table` has the list as a whole (one slot for each child, at most one slot half cleared),
`Control` says where the handler may interrupt, `Awaited` and `Truthful` are the last two properties with the
frames that are on their way to correct the list. `JobLife` says of each change of a job's state what caused it: ST is stored only
where `waitpid` told of a stop of its child, FG and BG only where `fg` and `bg` name the job. The proof has one lemma for each kind of step and conjunct:
those of `wait_childs`, which either frame may run, are proved for both at once.

### 5.5 The processors

The word size, the registers, the size of the memory and the programs are arbitrary. Hypotheses
(`Programs` in each module): every instruction has a function code of its kind and a register wherever it takes
one, which is what `yas` writes; for the pipeline also a base register in every address, without which
`y86_bare` shows it wrong, and no `-l` limit (section 4.1). `PipeCorrect` assumes `Clear` besides:
no instruction is executed in the last five bytes of the memory, where the simulator's fetch fails
(`psim.c` reads five bytes after the first one) and `step_state`'s does not. All programs of `y86_full` are of
this kind.

`ISAProofs` has what both need. `PowerPositive` gets 2^n > 0 from the number of subsets of a set, since the provers
have no theory of powers; `SumsInt` says that the sum behind `And` and `Xor` is an integer, by the
well-foundedness of the finite subsets. `Executed` writes the fourteen cases of `step_state` as one data
path (`SrcA`, `AluA`, `Place`, ...), with the order of its two register writes, and `Stepped` adds the status.

`SeqCorrect` then says that the signals of `ssim` are the data path (`SignalsAre`); its invariant is that
what is pending is a machine state.

`PipeCorrect` rests on the invariant `Live`, which holds until an instruction stops the processor:

- `Decoding`, `Executing`: a stage holds what the fetch made of its address, or a bubble.
- `Operands`: the operands in the execute stage are the registers as the older instructions leave them.
  `Forwards` proves it of the order in which the forwarding asks the stages, given that no load in the execute stage
  is about to write the register (`LoadUse` stalls).
- `Path`: the stages hold a path of the program. The instruction in decode is the predicted
  successor of the one in execute, and the one to be fetched of that in decode; behind a return, and behind
  a branch that was mispredicted, there are only bubbles.
- `Ending`: an instruction that failed before the memory stage does not store.

A cycle then does one of three things: with a failure in the memory stage nothing shows (`Halts`: no condition code
is set and no word stored); with a bubble in the execute stage nothing shows either (`Waits`); and with an
instruction there the visible state makes the step of `step_state` (`Completes`), after which the
oldest instruction left is the next of the program (`NextOldest`, where the mispredicted branch, the return, the load
and its use are told apart).

### 5.6 The allocator

`MMAssumption` is what the constants of `mm.c` satisfy (the prolog and a chunk fit the heap, the smallest class is
the smallest block), with `MAX_HEAP < SizeMod`: a size fits its tag. `MallocAssumption` has finitely many blocks and
requests that do not wrap in `ALLOC_SIZE`. The first four theorems assume `~Undo`, that a realloc which finds no larger block is
made only where the block in front is free; with `Undo` the properties fail, which is the finding of `malloc_undo`.

`Consistent` and `mm_check` find the blocks by walking the tags (`Blocks`), and what a recursive definition computes is out
of the prover's reach. The proof knows the blocks beforehand: a *layout* `sz` maps the address of each block to its size, and
`Tiling` says that the blocks begin behind the prolog, end at the end of the heap, and that each begins where another
ends. Merging, cutting and growing are operations on layouts (`Joined`, `Cut`, `Grown`) that keep `Tiling`, with no
induction. Only `BlocksWalked` has to connect the two: in a heap with a layout the walk visits its blocks.

- `Laid` says that the tags in memory are those of the layout: equal headers and footers, the allocated blocks marked.
- `Good` adds the lists: each free block is in the list of its class, once, no two free blocks are neighbours.
- While a function runs a block may be *in hand*: allocated for the lists and free for the tags. `Held` and `Loose` say what
  `coalesce_will_free` leaves behind and what `free_node`, `free_tail_was_resvd` and `uncoalesce_was_resvd` expect.

There is a lemma for each function: `Coalesce`, `FreeNode`, `FreeTail`, `ExtendHeap`, `AllocateBlock`, then `Releases` (free),
`GrowsInPlace`, `Moves` and `Undone` (realloc) and `Starts` (`mm_init`). Each says which layout the heap has afterwards, which
words it may have changed, and for the search that no smaller class had a block that fits.

The invariant `Inv` of the client has `Lives` (the table of blocks), `Owned` (the heap is `Good` for some layout whose
allocated blocks are the client's) and `Intact`. `Steps` says that each call does one of four things: nothing that the
client sees (`Idles`), free a block (`Drops`), give one (`Places`) or fill it (`Fills`). The first four theorems follow from
that lemma and the invariant.

`DriverFindsNoFault` is about `Mdriver`, the other client of `MM`, and assumes `TracesOrderly` of its traces: no trace uses a
block that it has freed, which the driver does not check of a file (TLC checks the assumption of the traces of
`malloc_safe`). It does not need `~Undo`: the driver stops at the call that fails, and `Starts` says that `mm_init` makes
a good heap of any memory, whatever tags and lists are left in it. `Answers` sums up the lemmas of the functions for a
client that calls `mm_realloc`, of which `mm_malloc` and `mm_free` are cases. The invariant `DriverInv` says that in a
pass the heap is `Good`, the tables name its blocks (`Serves`), and, in the pass with checks, the blocks hold their numbers
(`Contains`) and the ranges lie in the blocks, one in each (`Ranged`). From these `Accepted` shows that each
check of `add_range` and the comparison after a realloc pass.

### 5.7 The buffered reads and the performance lab

`CallerReads` and `TinyReads` map the state of `Rio` to that of `ByteStream`: what is left of the stream is `Rest`, what the call
in progress has got followed by what the buffer holds and what the system has. The first takes any program that calls
`rio_readlineb` and `rio_readnb` in any order with any number (`CallerNext`), the second the server. The invariant is
`Reading`: count and buffer agree, and a call in progress has not got what completes it, neither the line's end nor
the number it asked for. Without the latter a step could take bytes past the end of a line, and the refinement would have
to give them back. `Copies` is the main lemma: one round of the loop moves the border between what was returned and what is
left, and completes the call only where `ByteStream` does. `Serving` adds for Tiny that it reads only where it has
nothing left to write. Assumptions: requests are sequences of bytes of `ByteStream`, and `MaxLine` is at least 2 (a
`rio_readlineb` with room for the final zero alone asks for nothing).

`AcceptsKernels` holds for images of any size and any colours. The invariant is `Driving`, with `Laid`: the
array is as the driver laid it out and the copy is that of the original. `RIDX` gives each pixel one place
(`OnePlace`), so that what a kernel writes it writes once; `SameSquare` says that the square around a pixel as `avg` cuts it
is the one that `check_average` looks at. A run leaves the original as it was (`Writes`), so that the next run on the
same array is accepted as well.

`MeasuresBest` assumes of the counter only that it does not come round within one run. `Counts` says that the difference of
two readings word by word, with its borrow, is what passed between them. It does not say that a corrected time is what the
function took: the ticks times `CycPerTick`, an estimate, go off it. Its invariant is `Sampled`: the filled places
hold the shortest times, each that of another run, and until all are filled no run is missing. The second part is
what makes it inductive: when the last place is taken, there is no run outside the places that could be shorter.
`Place` and `Sinks` are about `add_sample`: a new time goes behind those that are not longer, and of places
that are all taken only the longest time goes. The places are compared with the runs by a choice of runs, not by sorting them.

### 5.8 What is not proved

- Liveness (`FrontAdvances`, `OthersServed`, `KeepsRetiring`, `MovesOn`): out of the prover's reach.
- `PassesAgree`: it compares two runs of the allocator, on heaps with other words in them, and bounds a sum over the
  blocks.
- `AnsweredWhole`: what Tiny has sent is compared with the pieces of its answer joined, a fold over a sequence of
  sequences, for which there are no theorems. The same goes for `ImplementsLRU` (`LRU` orders its entries) and
  `GradedSizesPass` (a fold over loads and stores; the sizes are given, and TLC runs them in full).
- `AllPointsScored` and `FloatsElsewhere`: they are about words of a given width, all of which TLC tries.

## 6. Not modelled, and why

- **The text of a request** (`parse_reqline`, `parse_uri`): a request is `Bad` or a server with a
  location; in `Tiny` a uri is a symbol with what `strstr` and `index` find in it. `listjobs` changes nothing.
- **`sbuf_destroy`**: the proxy calls it once, when its loop has ended and the process exits.
- **In the cache**, a failing `malloc` (`entry_create`); the second loop of
  `cache_bookkeeping` is modelled and `cache_full` reaches it, although in the real
  configuration (objects of 102400 in 1049000 bytes) the first loop always suffices.
- **In the shell**: a SIGCONT from outside, reuse of a pid, SIGQUIT, a failing `fork`, more
  arguments than `MAXARGS`, and a child that dies before it has called `setpgid`.
- **In the allocator**: requests close to `SIZE_MAX`, which wrap in `ALLOC_SIZE` or in the
  rounding of `extend_heap` (an assumption on `Requests`). In its driver the options, libc's
  `malloc`, and the indices and tables that are printed.
- **In the proxy**: descriptors that leak when `fdopen` fails, and the choice of a socket's address family.
- **In Tiny**: `rio_readn`, the wrappers of other system calls; a child whose `execve` fails
  ends without output.
- **In the processors**: programs that write or read their own code, the graphical interface,
  the early program counter of `ssim` (plusmode) and the performance counters.
- **HCL compiler**: it keeps no state at run time; `Pipe` and `Seq` translate the HCL files.
- `02-bomb` and `03-attack`, the scripts and the printing programs, for the reasons in `PROJECT.json`.

## 7. Plan

Modelled: every lab whose program has behaviour of its own. Proved: the proxy's buffer, cache and workers, the
shell, the allocator, the processors, the buffered reads and the performance lab. What is left is to prove more:

| Step | Component | Theorems |
|---|---|---|
| 1 | `CacheSim` | a set never holds a tag twice, which `ImplementsLRU` rests on |
| 2 | `Tiny` | what was sent is a beginning of the answer, with the pieces counted instead of joined: `AnsweredWhole` |
