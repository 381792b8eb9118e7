# A TLA+ model of the SVR4/3B2 kernel where processes meet

The repository is the source of UNIX System V Release 4 for the 3B2: the kernel
(`usr/src/uts/3b2`), the commands, the libraries and the compilers. This project
models the parts of the kernel where processes, interrupts and the dispatcher
meet: System V IPC, resource maps, sleep and signals, record locks, the buffer
cache and STREAMS flow control. All paths below are relative to
`src/usr/src/uts/3b2`.

## The system

The kernel runs on one processor and is not preempted. A process in the kernel
keeps the processor until it calls `sleep()` itself or takes a page fault in
`copyin`/`copyout`; interrupts run to completion in between, unless the code has
raised the processor priority (`spl6`, `splstr`, `splhi`). Every shared table is
protected by these two rules alone, so the interesting interleavings are those
at sleeps, at faults and where the priority is low: what was read before one of
them may be stale after it.

| Part | Source | State | Operations | What makes it correct |
|---|---|---|---|---|
| Resource maps | `os/malloc.c`, `sys/map.h` | array of free extents, number of slots left, want flag | `rmalloc`, `rmfree` | entries sorted and apart, terminator kept, no unit lost or doubled |
| System virtual space | `os/mapin.c`, `vm/seg_kmem.c`, `os/machdep.c` | `sptmap` | `bp_mapin`, `sptalloc`, `ptmalloc`, their frees | sleepers are woken when their space is there |
| IPC identifiers | `os/ipc.c` | `ipc_perm` in each facility's table | `ipcget`, the `conv` functions | an old identifier does not name a new object |
| Semaphores | `os/sem.c` | sets, values, waiter counts, undo structures, `semtmp` | `semget`, `semop`, `semctl`, `semexit` | lists are all or nothing; nobody sleeps who could go on; undo is exact |
| Messages | `os/msg.c` | queues, headers, segments, locks, wait flags | `msgget`, `msgsnd`, `msgrcv`, `msgctl` | queue semantics by type; exclusion across faults; pools conserved |
| Sleep queues, dispatcher | `os/slp.c`, `disp/disp.c` | hashed queues of sleepers, run queues | `sleep`, `wakeprocs`, `setrun`, `unsleep`, `swtch` | a wakeup finds every sleeper; a process is on one queue, and can be run |
| Signals, job control, /proc stops | `os/sig.c`, `fs/proc` | pending and held sets, stop state, permissions to run | `sigtoproc`, `issig`, `stop`, `psig`, the `PIOC` requests | a stopped or signalled sleeper is neither lost nor run too early |
| Record locks | `os/flock.c` | a list of locks per file, `sleeplcks` | `reclock`, `flckadj`, `deadflck`, `chklock`, `cleanlocks` | no two conflicting locks; each call changes its bytes only; no undetected deadlock |
| Buffer cache | `os/bio.c`, `fs/fsflush.c` | headers, hash and free lists, `B_BUSY`, `B_WANTED`, counters | `getblk`, `bread`, `bwrite`, `brelse`, `biowait`, `biodone`, flushes | one buffer per block, one owner per buffer, no write lost, readers see the last write |
| STREAMS | `os/streamio.c`, `os/strsubr.c`, `io/stream.c`, `io/iuart.c` | queues and water marks, run list, list of held messages | `putq`, `getq`, `canput`, `queuerun`, read, write, poll | blocked writers are enabled again; nothing accepted is lost |
| Shared memory | `os/shm.c` | segments, attach counts | `shmget`, `shmat`, `shmdt`, `shmctl` | a segment lives as long as it is attached |
| Processes | `os/fork.c`, `os/exit.c`, `os/pgrp.c` | process table, pids, zombies, groups | `fork`, `exit`, `waitid` | every child is waited for once; slots are reused safely |
| Callouts | `os/clock.c` | callout table | `timeout`, `untimeout` | runs once, not before its time, unless cancelled |
| VM, file systems, networking, drivers, commands | the rest | | | see "Not modelled" |

Interactions: `sem.c` and `msg.c` get their table entries from `ipcget`, their
semaphores and segments from resource maps, and their sleeps from `slp.c`;
`exit` calls `semexit`; a signal from `sig.c` ends an interruptible sleep, which
is what `Signal` in `Sem`, `Msg`, `Flock` and `Streams` stands for; the file
systems call `bio.c` and `chklock`; the disk interrupt calls `biodone`, the
serial port's enables queues that `queuerun` serves.

What is hard to test here, and what the properties are for (the full list with
lines is under `hazards` in `PROJECT.json`): waiter counts and want flags that
one sleeper gives back for another; lists of operations, locks or buffers
changed half way when memory runs out; tables removed, reused or searched again
while somebody sleeps; a stop, a signal, a wakeup and a debugger that race for
one process; a timer, an interrupt and a writer that race for one message.

## Modules

| Module | Models | Uses |
|---|---|---|
| `ResourceMap` | `rmalloc`, `rmfree` as operators on a map | |
| `MapClients` | the users of `sptmap` as a state machine | `ResourceMap` |
| `Ipc` | `ipcget`, identifiers | |
| `Sem` | semaphores | `Ipc`, `ResourceMap` |
| `Msg` | messages | `Ipc`, `ResourceMap`, `MsgQueue` (refined) |
| `MsgQueue` | what messages promise (abstract) | |
| `Flock` | record locks, deadlock detection | `ByteLocks` (refined) |
| `ByteLocks` | what record locks promise, byte by byte (abstract) | |
| `Slp` | sleep, wakeup, signals, stops | |
| `Bio` | the buffer cache and the disk interrupt | |
| `StrQueue` | one queue: `putq`, `getq`, `canput`, marks, as operators | |
| `Streams` | stream head, `queuerun`, serial port | `StrQueue` |
| `MC...` | instances for TLC | |
| `ResourceMap_proofs`, `MapClients_proofs`, `Sem_proofs`, `Msg_proofs` | theorems | the module they are about, `ResourceMap_proofs` for the maps in it |
| `Slp_proofs`, `Flock_proofs`, `Bio_proofs`, `Streams_proofs` | theorems | the module they are about |

### Correspondence

**Processes.** `pc[p]` is the place in the code and `cpu` the process that has
the processor. While `cpu` is set no other process takes a step, which is the
kernel's rule. Sleeping, or a fault, clears `cpu`. A sleeper that is woken, by a
wakeup or a signal, is `"woken"` and continues at any later time; a signal that
comes between the wakeup and the continuation is seen by the sleep as an
interrupt, as in `sleep()`, which calls `issig` after it has been switched back.
Only `Slp` has `sleep()` itself; the others use what it promises.

**Semaphores** (`Sem`). A step per operation of the list (`OpApplies`, `OpPasses`,
`OpFails`, `OpWaits`) and per operation undone (`SemundoStep`): what happens in
between cannot be interrupted, but the steps name the code's branches. `cnt`
holds `semncnt` and `semzcnt`, and since the code sleeps on the address of the
count, its index is also the channel. `un` is the undo tables with both of their
lists. `Semaoe`, `Semunrm`, `Unlink` are the list operations. `FaultAt` says at
which copyins a page may be missing, `SlotReuse` whether a process table slot is
given to a new process. `snap` and `plain` are history variables: the state at the
label `check`, and what each semaphore would be if nothing were done under
`SEM_UNDO`.

**Messages** (`Msg`). `pc` names the labels and the faults: `conv` is `msgconv`,
`first` the part before the label `findmsg`/`getres`, `again` the part from the
label on, `text`/`textin`, `copyout`/`textout`, `typein`, `setin`, `statout` the
copies, `rmid` the loop that frees messages. `next` is where `msgconv` returns
to. Headers are interchangeable, so `msgfp` is the length of the free list.

**Maps.** A map is the array with its header cell; `Squeeze` and `Spread` are the
copying loops. Unit 0 is never in a map, as in the code, where it means failure.

**Record locks** (`Flock`). A call runs until it returns or sleeps, so each of
these pieces is one step. A record is named by its owner and its start instead
of by its address; a record keeps both, and `ListCanonical` says that they name
it. `Scan` is the loop of `flckadj`, a recursive function over the records it visits,
with one operator for each kind of overlap, and `Cleaned` the loop of `cleanlocks`; `insflck` may fail where the code calls it (`nomem`: the piece
left over by a split, or the new lock). `blk` is the entry of a process in
`sleeplcks`; it is there until the process has run again, as in the code, so the
entry of a process that was woken is still seen by `deadflck`. `Remote` are the
owners that act for another machine. `Convert` does `convoff` and the sums in
the width of a long, `MAXEND` being the largest one.

**Sleep and signals** (`Slp`). `sleep()` runs at `splhi`, so it is one step up to
its `swtch`; each turn of the loop of `issig` is a step, since interrupts and,
where it sleeps, other processes come in between. `site` says from where `issig`
was called (the return to user mode, or one of the two calls in `sleep()`),
`disp` the priority of the sleep, `kret` where a sleep in `kmem_alloc` inside
`stop()` returns to. The debugger is outside of the modelled processes and acts
when none of them has the processor. `KMEMSHORT` turns on the sleep inside
`stop()`; without it the run shows what holds when memory is there.

**Buffer cache** (`Bio`). A step is what the code does at `spl6`, or what no
interrupt can tell apart; `Biodone` ends a transfer between any two of them.
The contents of a block are abstracted to who has the current ones: the field
`cur` of a buffer, and `disk`. The driver is external: it ends the transfers of
one block in the order it got them, fails some, and its strategy routine does
not sleep. `KMEMSLEEP` names the callers whose `kmem_zalloc` may sleep.

**STREAMS** (`StrQueue`, `Streams`). A stream is a head on a serial port, with
write queues `hw`, `dw` and read queues `dr`, `hr`. A step is what runs at
`splstr`; the transmit and receive interrupts come between any two. `run` holds
the run list with `q_link` as a field per queue, because the list of held
messages (`scan`) uses the same field. `held` is the message in `q_first` of the
head's write queue, `due` that its time is over. A read takes one message; a
message is its size.

## Runs

`runs` in `PROJECT.json` lists them. An invariant that is a conjunction
(`TablesSound`, `StopsSound`, `Accounted`, `ListsSound`, `NobodyForgotten`,
`DataMoves`, `PoolsExact`, `ListSound`) joins parts that have a name and a
comment of their own.

| Run | Shows |
|---|---|
| `map_clients` | maps stay well formed, units are conserved also when the map overflows, first fit misses no run, sleepers are noticed |
| `sem` | all-or-nothing, undo exactness, lists and tables at their limits |
| `sem_faults` | with faults everywhere and slots reused, no wakeup is lost |
| `sem_live` | three waiters with different conditions and counts that are too low at times: `EventuallyServed` under fairness |
| `msg` | exclusion, receivers stable across faults, no lost wakeup, pools and byte counts exact; `Msg` implements `MsgQueue` |
| `flock` | every range, overflow and shortage of memory: the list keeps its shape, `blocked()` is exact, and `Flock` implements `ByteLocks` |
| `flock_wait` | three waiting processes: no lost wakeup, no undetected deadlock, the walk of `deadflck` ends |
| `slp` | queues and process table agree; stops have one master and end; sleepers notice signals; sleeps end as their priority says |
| `slp_live` | SIGKILL kills, a requested stop is granted, under fairness |
| `bio` | headers, counters and memory accounted for; one buffer per block; coherent reads; no write lost; no lost wakeup |
| `streams` | both lists of `queuerun` whole; readers and writers not forgotten; input and output move; nothing accepted is lost |
| `str_link` | a violation: the two lists share `q_link`, see Disagreements |

**Bounds.** Two or three processes: the wakeup rules concern the waker, one
sleeper that is entitled and one that is not; a third is in the runs where a
count has to be wrong for somebody else (`sem_live`) or a circle needs it
(`flock_wait`). Two semaphores are enough for a list that blocks at its second
operation. Maps have two or three slots, so that they overflow. `MaxSeq` bounds
removals of one header (one removal makes an identifier stale). The undo limits
are at 1 so that they are hit.

- `flock`: two owners, offsets 0 to 3 (`MAXEND`), every range, all three ways to
  give an offset: all positions of a new lock relative to an old one occur, with
  a neighbour on either side. `flock_wait`: three processes, offsets 0 to 2,
  requests that overlap at both ends, contain one another and are upgraded.
- `slp`: `p1` is under a debugger and gets every signal, `p2` is in an orphaned
  process group; their channels fall into one bucket. `slp_live`: `p1` alone.
- `bio`: two processes, two headers, two blocks of sizes 1 and 2 and memory for
  3 (`BUFHWM`), so that both headers and memory run out.
- `streams`: two processes on one stream, marks 3 and 2, buffers of 2 bytes and at
  most 2 waiting input messages. A stream either holds back small writes and
  only sends, or receives too and does not hold back (`Apart`); the other
  combination is `str_link`, where the list is cut.

Symmetry is on the processes (in `sem` and `sem_faults` also the undo structures)
where no action tells them apart; `flock`, `slp` and the liveness runs use none.

**Deadlock** is not checked: a system in which everybody sleeps on a semaphore,
lock or stream that nobody will change is a legal state of the program.

**Fairness.** `sem_live`: weak fairness for a process that has the processor,
which nothing takes away; strong fairness for a runnable process to get it,
since the processor is free again and again and the dispatcher ages waiting
processes. `slp_live`: the same for dispatch (`SF` of `Dispatch`) and for the loop
of `issig` and for `psig`; strong fairness of the return to user mode, because
the user program is made to trap by the clock at the latest; and strong fairness
of wakeups of high-priority sleeps, which wait for events that come by
themselves (I/O, memory). No fairness for interruptible waits, for signals or
for the debugger.

**Further instances**, not among the runs: `MCMsgPool.cfg` has the three kinds of
senders' sleeps together with two headers and two segments for three processes
(passes). `MCStreamsLive.cfg` checks `HeldSent` and `WriterServed` under `FairSpec`
of `Streams` (passes): queues that are enabled are run, the port ends what it
sends, the timer goes off, and a process that can run does.

## Disagreements

What the code does and what the source says of it differ in these places. The
first is a run with a finding; the others are configurations that TLC ends with a
counterexample of the property named.

| Configuration | Property | What happens | What the source says |
|---|---|---|---|
| `MCStreamsLink` (run `str_link`) | `RunListSound` | `strwrite` enters a write queue in the list of held messages (`os/streamio.c:1632`) and clears the `q_link` by which it is on the run list: what follows is marked `QENAB` and never served | `io/stream.c:1958` "Do not place on run queue if already enabled." |
| `MCSemReuse` | `UndoPrivate` | `semexit` frees the undo structure and leaves it in `sem_undo[]` (`os/sem.c:531`): the next process in the slot shares it | `sys/sem.h:145` "There is one undo structure per process in the system." |
| `MCSemTorn` | `OwnOps` | a fault in the copyin of a list (`os/sem.c:648`) lets another caller overwrite `semtmp` | `os/sem.c:647` "Copy in user operation list after sleep." |
| `MCSemStale` | `NotStale` | the set found before the first copyin (`os/sem.c:622`) is removed during it and used after | `os/sem.c:644` "Verify that the semaphores haven't been removed." |
| `MCSemIpcset` | `SetsDisjoint` | `IPC_SET` writes `IPC_ALLOC` into a header freed during its copyin (`os/sem.c:339`) | the ASSERT at `os/malloc.c:118`: what is freed is not free |
| `MCSemRepeat` | `SleepsOnlyIfBlocked` | a list that names a semaphore twice waits for a value only its own middle has (`os/sem.c:708`) | `os/sem.c:637` "Loop waiting for the operations to be satisfied atomically." |
| `MCMsgRaise` | `WritersBlocked` | `IPC_SET` raises `msg_qbytes` and wakes nobody (`os/msg.c:243`) | `sys/msg.h:35` "a writer is waiting to send" |
| `MCFlockDeadlk` | `DeadlockReal` | `deadflck` follows the entry of a process that was woken and has not run: EDEADLK without a deadlock | `os/flock.c:556` "If the blocking process is sleeping on a locked region, change the blocked lock to this one." |
| `MCSlpLost` | `RunnableQueued` | `stop()` reports to the parent and may sleep for memory; back as `SONPROC`, the `swtch` at `os/sig.c:163` (`disp/disp.c:144`) leaves the process `SRUN` on no queue | `os/slp.c:378` "Already on dispatcher queue." |
| `MCBioAssert` | `SleepsWhenEmpty` | an interrupt frees a buffer after `getfreeblk` has lowered its priority and before it sleeps for one | the ASSERT at `os/bio.c:331`: the free list is empty |
| `MCBioDup` | `OneBufPerBlock` | `kmem_zalloc` (`os/bio.c:350`) sleeps, another process brings the block in, and it is entered a second time | `os/bio.c:326`: after a sleep "must return to the caller to check the hash queue again" |
| `MCStreamsPoll` | `PollerNotForgotten` | `queuerun` clears `QBACK` after the service procedure (`os/strsubr.c:1816`): an enabling in between is served without telling poll | `os/streamio.c:4036` "ensure backq svc procedure runs" |
| `MCStreamsMake` | `NothingLost` | `strmakemsg` sleeps between the look at `q_first` and the store: a held message is lost | `os/streamio.c:1463` "the write will sleep until the buffers become available" |

## Proofs

`ResourceMap_proofs` proves, for every size of map and every extent, what
`rmalloc` and `rmfree` do: the shape is preserved (`RmallocShape`,
`RmfreeShape`), the free units change by just the extent (`RmallocUnits`,
`RmfreeUnits`), a fit exists if and only if there is a run of free units
(`CanAllocRun`), and taking units away never creates a fit (`RmallocMonotone`).
The first-entry choices of both scans rest on `Least`, the well-ordering of the
slots.

`MapClients_proofs` proves the invariants of the run `map_clients`, the types and
the ASSERTs of `rmfree` (`FreeAssertsHold`) for every number of clients, units
and slots and every alignment. The inductive invariant
`IInv` is the conjunction of `TypeOK`, `MapWellFormed`, `Conservation`
and `NoLostWakeup` with two facts that make it inductive: an extent that is held
has a positive address and size (`HeldType`), and a sleeping or retrying client
holds nothing (`WaitsEmpty`). Conservation is needed for the shape: that a freed
extent overlaps no free entry is what keeps the entries apart. The assumptions
are `MapSlotsAssumption` and `ClientsAssumption`, which TLC evaluates in the run.

`Msg_proofs` begins with `msglock` alone, for every number of processes and queues.
`LockInv` joins `MutualExclusion`, `HolderValid` and `LockSleepers` with the types
they need. A step takes a lock (`Take`), gives it back (`Release`) or does neither
(`Stay`); the exits, sleeps, faults and returns to `msgconv` of all handlers are
instances of these three. `HolderValid` is needed for itself to be inductive
through `msgget`: the entry it fills is unused, so nobody holds its lock.

Its second part proves `TypeOK`, `ReceiverStable` and `NoLostWakeup` of `Msg`.
`IInv` is `LockInv`, the types with the shape of `msgmap`, and three facts per
process: it sends a positive type (`Sends`); between finding and taking a message
it still has the one the type selects (`Receives`); asleep, it is on a channel of
its own queue or of a pool, what it waits for is missing and its flag is set
(`Sleeper`). Exclusion gives `Receives`: no other step changes a locked queue. The
shape of the map is what makes `rmalloc` unable to create a fit and an overflowing
`rmfree` leave the map alone, so that a sender asleep for segments is right to
sleep on. `Ends` says what a step does to the processes, `OtherSleeper` when a
sleeper that is not woken stays right, and `Assemble` puts the invariant together;
there is one lemma per handler.

Then what the queues hold. `ScansFind`: `Best` is the loop invariant of `msgrcv`'s
scan, kept by every turn (`LookBest`), and what it says of a whole queue is what
`Find` chooses. `DInv` adds to `IInv` that free and used headers add up, that
`msg_cbytes` is the bytes on a queue that is not being removed, that an unused queue
is empty, and what a call may rely on after a fault: a sender that there is still the
room it found (`CallInv`). Sums are recursive functions; `SumShifts` and `SumDrops`
say how they follow one of their terms. Each handler is one lemma (`...D`) that shows
`DInv` and the step of `MsgQueue` together, since the abstract `Send` needs the exact
count and the abstract `Receive` the position that `Receives` has kept. This gives
`HeadersAddUp`, `BytesAreExact` and `ImplementsMsgQueueAlways`.

`WritersWaitForRoom` has the hypothesis `[][NoRaise]_vars`, that no step raises the
limit of a queue in use; `MCMsgRaise.cfg` is the counterexample without it. A queue
gets room only in a step that clears `MSG_WWAIT`, and with it wakes (`Fuller`).

`PoolsAreExact` has the hypothesis `MSGTQL <= MapSlots`: an entry of `msgmap` for every
header. In `master.d/msg` these are 40 and 98 (`MSGMAP` less two). Without it `rmfree`
may overflow and throw segments away, as `MapClients` shows for `sptmap`. `Packed` says
unit by unit that a segment is free, in one text on a queue or in one being filled;
together with `Ordered` of the map it is inductive as long as no `rmfree` overflows
(`Roomy`). That none does is a counting argument (`NoOverflow`): a full map and a freed
extent that touches none of its entries have `MapSlots + 1` gaps, each gap has a unit
that is not free (`GapFacts`), two of them are never in one text because a free unit or
the freed extent parts them, and texts are numbered by their headers from 1 to `MSGTQL`
(`Numbered`); the pigeonhole principle does the rest.

The assumptions of `Msg_proofs` are `MsgAssumption` and `MapSlotsAssumption`.

The first part of `Flock_proofs` shows what the list operations of `os/flock.c` do to any list and
any lock. A list is `Good` if it is ordered by start, its records have distinct
names, none is empty and those of one owner are clear of one another.
`BlockedFacts`: on such a list the two scans of `blocked()`, which stop early, miss
nothing. `ScanInv` is the loop invariant of `flckadj`: the list as far as it was
visited is good (`Sound`), the lock is the one asked for joined with what it touches
(`Joined`), the visited records lie clear of it (`Cut`), and what the list, the lock
and the set of woken records still know of the original list (`Kept`). There is one
lemma per way in which the lock and a record may lie (`Turn...`). Both loops are
recursive functions; that they are defined, and that their invariants hold at the
end, is shown by a least counterexample, which needs no induction theorem.

The second part has `Inv`: the types, good lists, calls in progress that ask for a
range that is not empty (`Asks`), and `NoLostWakeup`, which is inductive together
with these: `flckadj` wakes the sleepers of every record it removes, cuts or
replaces. From it follow `ListSound`, `BlockedExact` and `NoLostWakeup`. Deadlock
detection: the entries of `sleeplcks` have no circle (`DeadflckEnds`). `deadflck`
admits a new entry of `p` behind the owner `o` only if some set that is closed under
the entries holds `o` and not `p`; a circle through the new entry would, cut with
that set, leave a circle of old entries (`AddAcyclic`). Every other step only takes
entries away (`RemoveAcyclic`). The entry of a process that sleeps names the owner in
the address it sleeps on, and by `NoLostWakeup` that lock is there, so those asleep
wait in no circle (`NoDeadlock`). Finally `Flock` implements `ByteLocks`: by `Inv` at
most one record of an owner is over a byte, so `HeldCovers` turns the type of a byte
into a question about records, which the list lemmas answer; every step maps to a
step of `ByteLocks` or to a stutter. The assumption is `FlockAssumption`.

`Slp_proofs` proves the four properties of the run `slp` for any number of processes,
channels and buckets. `Inv` is `IInv /\ QInv`. `IInv` says of every process how its
entry hangs together: `Local`, which values of the place in the code, the flags, the
priority and `p_wchan` go together; `Noticed`, which strengthens `SignalNoticed` to
"nothing it may take is pending", because a signal that becomes takeable while the
process sleeps would otherwise be missed by the induction; `Stopped`, which is
`StopsSound` for one process; and `Placed`, where the process is: on the CPU, on a
dispatcher queue or on neither. `QInv` says that a sleep queue holds just those whose
`p_wchan` falls into its bucket, each once; without it `unsleep` and `wakeprocs`
would not find what they unlink. Each action but a wakeup moves one process, so there
are two lemmas per action: the process stays good (`...Good`), and the rest of the
tables stays and the queues follow `p_wchan` (`...Moves`). `TablesAreSound` assumes
`KMEMSHORT = FALSE`: with it, `MCSlpLost.cfg` is a counterexample. The other three
theorems have no such hypothesis.

`Sem_proofs` proves the invariants of the runs `sem` and `sem_faults` for any number
of processes, sets, undo structures and for any operation lists. What may go wrong
is named in hypotheses, and each is needed, since a configuration shows a
counterexample without it:

| Hypothesis | Means | Without it |
|---|---|---|
| `Calm` | no copyin faults, no process slot is used again | `MCSemTorn`, `MCSemStale`, `MCSemIpcset`, `MCSemReuse` |
| `NoWrap` | no header is removed so often that its identifiers wrap around (`ipc_perm.seq` is reset) | an old identifier, and the undo entries made under it, would name a new set |
| `Single` | no list names a semaphore twice; for `SleepersAreBlocked` only | `MCSemRepeat` |
| `Roomy` | `SEMMNS <= 2 * MapSlots`: the map has room for every hole; for `SetsStayDisjoint` only | `rmfree` drops semaphores; the sets still share none |

`CountsKept` (`NoLostWakeup`) uses none of them, only that `semop` stays inside
`sem[]`. `Roomy` is a matter of configuration: with the values in `master.d/sem`
(`SEMMAP` 10, `SEMMNS` 60) enough holes between sets make `rmfree` give up semaphores,
with a warning; what `SetsDisjoint` says of sets and map holds nevertheless, as part
of `SemInv`. `SemInv` is the conjunction of these parts:

- `WaitInv`: sleepers are counted in the count they sleep on.
- `UndoOK`: types and limits of the undo structures, and their two lists. A list is
  stated as a set with positions that decrease along the links (`Lists`), so that
  unlinking a member or walking to the next one needs no induction over the list.
- `CallInv`, `SetInv`: one process is in `semop`'s loops and `semtmp` holds its list;
  the sets lie apart and outside of the map, and the set of a caller or a sleeper is
  there, or gone for good (`Bound`).
- `Entries`: likewise an undo entry that is not zero is for a semaphore of a set that
  is there, or for an identifier that no header has any more or will have again, so
  that a new set never inherits an entry.
- `Values`, `Traces`: the values stay in range, and for the process in the loops there
  are functions `h` and `g`, the values and its undo entries after each operation
  since `check`. `AllOrNothing` is about the two ends of a loop; `Traces` is what
  every turn of `OpApplies` and of `SemundoStep` keeps. That `semundo`'s own call of
  `semaoe` cannot fail, neither for `SEMAEM` nor for `SEMUME`, follows from `g`.
- `Sleepers`: whoever sleeps is stuck on an operation that has to wait with the
  present values and with all those in `h`; while a process is in the loops,
  the values of the others' operations may be half done, and go back.
- `Balance`: for every semaphore of a set, its value plus the undo entries of all
  structures for it is `plain`. `Total` adds along an enumeration of the structures;
  `TotalShift` says how a sum follows one of its terms. `semexit`, which applies all
  of a process's entries at once, is shown one semaphore at a time.

The assumptions are `SemAssumption`, `OpsAssumption` and `MapSlotsAssumption`.

`Bio_proofs` proves the five invariants of the run `bio` for any number of processes,
headers and blocks, any block sizes and any high-water mark. `IInv` is the conjunction
of these parts:

- `Struct`: every header is on the free list, on the header list, in one process's
  entry or, for asynchronous requests, with the driver (`Lonely`, `Apart`,
  `Somewhere`), its flags say which (`BufOK`), and every process has what its
  routine relies on: the buffer it holds, the channel it sleeps on with the flag that
  will wake it (`ProcOK`). `Accounted` alone is not inductive: that `biodone` gives
  a buffer back to the free list just once needs that `B_ASYNC` is only set on
  what the driver has, and that its holder has let go of it.
- `CpuOK`: who is in the middle of a routine has the processor. It makes the search
  of `getblk` and the count of `bawrite` atomic against other processes, while
  interrupts may come in between.
- `Counts`, `Charged`: `basyncnt` and `b_bufsize`. The write of `bawrite` that the
  driver may end before it is counted is apart (`InBawrite`), so that `basyncnt` is
  -1 for a moment. `b_bufsize` may go below zero when two processes sleep in
  `kmem_zalloc` on what both have found to be enough, and the sum still holds.
- `Data`: a valid block is there once (`Unique`); contents that the disk does not
  have are in one buffer, to be written or being written (`Somebody`, `Unwritten`,
  `Alone`); what is valid and done is current (`Valid`); and of the requests that
  the driver has for one block those of stale buffers come first and the write of the
  current contents last (`StaleFirst`, `LastWrite`), since a block invalidated by
  an error or `binval` may be read again while its old buffer is still in transit.
- `Searches`: between the search of `getblk` and the new identity no valid buffer of
  the block appears.

A step is a chain of operations on a state record, and in the middle of it a buffer
is on no list and in nobody's entry. `Base(s, p, H, k, m, d, D)` is the invariant
with the headers `H` in the hands of `p`, `k` writes not counted, `m` bytes charged
and not allocated, and `D` changed and not marked. There is one lemma per operation
(`Base...`), and four that lead back to the invariant (`Returns`, `Owns`, `Stepped`,
`Interrupted`).

`BlocksUnique`, `ReadsCurrent` and `DataSafe`, which rest on `Data` and `Searches`,
have the hypothesis `"getblk" \notin KMEMSLEEP`: `kmem_zalloc` does not sleep under
`getblk`. The code asks for `KM_SLEEP`, so the hypothesis is about how much memory there
is; without it `MCBioDup.cfg` is a counterexample. `CacheAccounted` and `WakeupsKept`
hold without it. The assumption is `ConstantsAssumption`.

`Streams_proofs` proves the four properties of the run `streams` for any number of
processes and streams, any water marks and any sizes of writes. `IInv` is the
conjunction of the types with these parts:

- `Flow`: a queue is `QFULL` if and only if it is at the high water mark (`QueueOK`);
  what is in the driver's write queue waits for the port
  or for `M_START` (`OutOK`), what is in its read queue for its service procedure or
  for a full head that is marked `QWANTW` (`InOK`); who sleeps has been promised a
  wakeup (`SleeperOK`); a call in progress has the sizes its place in the code needs
  (`CallOK`); `queuerun` runs at the end of a system call, if at all (`KernelOK`).
  A promise is more than the mark: with `QWANTW` alone on a queue that is already
  below the low mark, no `getq` would enable the queue behind. So `Promised` and
  `InOK` add that the count is at least `LOWAT`, which follows from `QFULL` when
  `canput` sets the mark and stays until the `getq` that enables.
- `Room`: a message is held, or in the hands of a writer behind `canput`, only while
  the driver's queue is below the high mark, so that the scan of `queuerun`, which does
  not ask, exceeds it by a message at most.
- `Linked`: the links. `OneList` has the run list as a sequence that `q_link` and
  `qhead` agree with, for streams on which no write is held back. `ShortLists` is for
  a stream that holds writes back and is alone: each list has one queue at most, and
  the head's write queue may be on both, since either list ends with it.

The two hypotheses of these theorems are each needed. `FlowControlled` and
`NothingIsLost` assume `MAKESLEEP = FALSE`, that `strmakemsg` does not sleep for
buffers: with it a writer comes back with what it saw of `q_first` before it slept,
and `MCStreamsMake.cfg` loses a message. `ListsWhole` assumes `Unshared`, that the
settings do not let streams use `q_link` for both lists at once; without it
`MCStreamsLink.cfg` is a counterexample. The settings of the run `streams` satisfy
it, in both ways that it allows. `SleepersPromised` and `NothingStuck`, the part of
`DataMoves` about service procedures, have no hypothesis.

Queue operations have a lemma each (`PutqFacts`, `GetqFacts` and so on), with the
loops of `iuisrv` (`Filled`, `Emptied`) shown by a least counterexample. For each part of
`IInv` there is one lemma per kind of step: the steps that only move the place in the
code, those that send to the port, the reader's, the writer's, and the scan.
`NothingLost` is an action property: `Kept(s)` compares what is held, queued, in hand
and sent before and after a step. What is in hand is a sum over the processes, and
`SumOne` says how it follows the one that moves.
The assumption is `StreamsAssumption`.

Only model-checked:

- liveness under fairness (`EventuallyServed`, `Killed`, `StopHonored`, and `HeldSent`
  and `WriterServed` of `Streams`): out of the prover's reach.

## Not modelled

- In the modelled parts: permissions, times, pids in the tables and reporting
  commands (they change nothing that is modelled); message text; `IPC_O_SET` and
  `IPC_O_STAT`, which differ in layout only. A copy that fails for a bad address is
  an error exit; one that succeeds after a fault continues. Swapping and the page
  daemon only show up as the length of a fault.
- Signals: `ptrace`, `vfork`, `EV_ISTRAP` and `PIOCKILL`; who is in which process
  group: a group is orphaned or not from the start.
- Buffer cache: buffers of the page layer (`B_PAGEIO`, `B_REMAPPED`, `b_iodone`),
  `physio`, the swap locks of `biowait`. The search of the hash queue and the test
  of `B_BUSY` in `getblk` are one step, although the code raises its priority only
  for the second (`os/bio.c:379`): an asynchronous transfer that fails in between
  makes the buffer found stale.
- STREAMS: priority bands (and with them `qbp` at `io/stream.c:1025`), `getmsg` and
  `putmsg`, ioctls other than those that suspend, resume and flush, open and close,
  multiplexors, `bufcall`. A flush is modelled only while the port is idle: what the
  DMA controller does with a second transfer is hardware.
- Shared memory (attaching is a matter of address spaces), fork, exit and wait,
  the kernel memory allocator and callouts: not reached yet.
- Virtual memory and the file systems: each larger than all that is modelled here;
  a page fault appears only as a sleep.
- Networking: protocol code over STREAMS. Drivers other than the serial port:
  registers and DMA, with no reference for the hardware in the repository.
- Commands, libraries and compilers: sequential user programs, which share nothing
  but files and pipes; they are most of the repository's lines.

## Plan

Next: `Shm` with attach counts, callouts, `waitid` and the reuse of process slots; bands
and `getmsg`/`putmsg` in `Streams`; the page layer's buffers in `Bio`.
