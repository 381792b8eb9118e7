--------------------------------- MODULE Bio ---------------------------------
(***************************************************************************)
(* The buffer cache (os/bio.c), with the part of the flush daemon that     *)
(* works on it (fs/fsflush.c).                                             *)
(*                                                                         *)
(* A process keeps the CPU until it sleeps or returns to its caller;       *)
(* `cpu' is the process in the middle of a routine.  Disk interrupts come  *)
(* between its steps: a step is what runs at spl6, or has no effect on     *)
(* what an interrupt sees.  The contents of a block are abstracted to who  *)
(* has the current ones: a buffer (field cur), the disk, or both.          *)
(***************************************************************************)
EXTENDS Integers, FiniteSets, SequencesExt

CONSTANTS
    Proc,        \* processes
    Buf,         \* buffer headers: v.v_buf of them
    Block,       \* <<device, block number>> pairs of one device
    Size,        \* the block size that goes with each of them
    ESIZE,       \* the size ngeteblk() is called with
    BUFHWM,      \* v.v_bufhwm: the bytes the cache may use
    AWFREE,      \* bawrite() writes behind if more buffers are free (4)
    RAFREE,      \* breada() reads ahead if more buffers are free (1)
    KMEMSLEEP,   \* the callers whose kmem_zalloc() may find no memory
    NULL

VARIABLES
    buf,         \* the buffer headers
    bfreelist,   \* the free list, oldest first
    bhdrlist,    \* headers without memory
    bufsize,     \* bfreelist.b_bufsize: bytes the cache may still allocate
    wanted,      \* those of the two lists whose header has B_WANTED
    basyncnt, basynwait,   \* asynchronous writes, and a process waiting for them
    ioq,         \* the requests the driver holds, oldest first
    disk,        \* disk[n]: the disk has the current contents of block n
    proc,        \* where each process is
    cpu

vars == <<buf, bfreelist, bhdrlist, bufsize, wanted, basyncnt, basynwait, ioq, disk, proc, cpu>>

ASSUME ConstantsAssumption ==
    /\ IsFiniteSet(Buf) /\ BUFHWM \in Nat /\ Size \in [Block -> 1 .. BUFHWM] /\ ESIZE \in 1 .. BUFHWM
    /\ AWFREE \in Nat /\ RAFREE \in Nat
    /\ KMEMSLEEP \subseteq {"getblk", "ngeteblk"}
    /\ NULL \notin Proc \cup Buf \cup Block
    /\ {"bfreelist", "bhdrlist", "basyncnt", "kmem"} \cap Buf = {}   \* channels are addresses
    /\ NULL \notin {"own", "read", "first", "ahead", "brelse", "blkflush", "close", "bfreelist", "bhdrlist",
                    "basyncnt", "kmem", "getblk", "getfreeblk", "zalloc", "biowait", "bdwait"}

(***************************************************************************)
(* The state.  A process is in a routine (pc), working on a block and a    *)
(* read-ahead block, holds the buffer bp and, in getfreeblk(), savebp;     *)
(* `then' is what it does with the buffer getblk() returns.                *)
(***************************************************************************)
NewBuf == [flags |-> {}, blk |-> NULL, size |-> 0, cur |-> FALSE]

Idle == [pc |-> "idle", blk |-> NULL, ra |-> NULL, bp |-> NULL, savebp |-> NULL,
         then |-> NULL, chan |-> NULL, ret |-> NULL]

\* binit().
Init ==
    /\ buf = [b \in Buf |-> NewBuf]
    /\ bfreelist = << >>
    /\ bhdrlist = SetToSeq(Buf)
    /\ bufsize = BUFHWM
    /\ wanted = {}
    /\ basyncnt = 0 /\ basynwait = FALSE
    /\ ioq = << >>
    /\ disk = [n \in Block |-> TRUE]
    /\ proc = [p \in Proc |-> Idle]
    /\ cpu = NULL

State == [buf |-> buf, bfreelist |-> bfreelist, bhdrlist |-> bhdrlist, bufsize |-> bufsize,
          wanted |-> wanted, basyncnt |-> basyncnt, basynwait |-> basynwait, ioq |-> ioq,
          proc |-> proc]

Become(s) ==
    /\ buf' = s.buf /\ bfreelist' = s.bfreelist /\ bhdrlist' = s.bhdrlist
    /\ bufsize' = s.bufsize /\ wanted' = s.wanted /\ basyncnt' = s.basyncnt
    /\ basynwait' = s.basynwait /\ ioq' = s.ioq /\ proc' = s.proc

Set(s, b, flags) == [s EXCEPT !.buf[b].flags = @ \cup flags]
Clear(s, b, flags) == [s EXCEPT !.buf[b].flags = @ \ flags]
With(s, p, r) == [s EXCEPT !.proc[p] = r]

(* The process continues, or returns to its caller; sleep() at PRIBIO      *)
(* cannot be interrupted, and a woken process continues at ret.            *)
Continue(s, p, r) == cpu' = p /\ Become(With(s, p, r))
Goto(s, p, pc) == Continue(s, p, [proc[p] EXCEPT !.pc = pc])
Return(s, p) == cpu' = NULL /\ Become(With(s, p, Idle))
Sleep(s, p, chan, ret) ==
    cpu' = NULL /\ Become(With(s, p, [proc[p] EXCEPT !.pc = "asleep", !.chan = chan, !.ret = ret]))

Woken(r, chan) ==
    IF r.pc = "asleep" /\ r.chan = chan
    THEN [r EXCEPT !.pc = r.ret, !.chan = NULL, !.ret = NULL] ELSE r

Wakeup(s, chan) == [s EXCEPT !.proc = [p \in Proc |-> Woken(s.proc[p], chan)]]

Runs(p, pc) == cpu \in {NULL, p} /\ proc[p].pc = pc

(***************************************************************************)
(* The lists.                                                              *)
(***************************************************************************)
Unlink(s, b) == [s EXCEPT !.bfreelist = RemoveFirst(@, b)]

Notavail(s, b) == Set(Unlink(s, b), b, {"B_BUSY"})

WakeWanted(s, b) == IF "B_WANTED" \in s.buf[b].flags THEN Wakeup(s, b) ELSE s

WakeList(s, list) ==
    IF list \in s.wanted THEN Wakeup([s EXCEPT !.wanted = @ \ {list}], list) ELSE s

\* After an error the contents are not to be found again.
Forget(s, b) ==
    IF "B_ERROR" \in s.buf[b].flags
    THEN Set(Clear(s, b, {"B_ERROR", "B_DELWRI"}), b, {"B_STALE", "B_AGE"}) ELSE s

Putback(s, b) ==
    [s EXCEPT !.bfreelist = IF "B_AGE" \in s.buf[b].flags THEN <<b>> \o @ ELSE Append(@, b)]

(* Mutant: a buffer whose transfer failed is kept as if it had not.        *)
BrelseError(s, b) ==
    LET t == WakeList(WakeWanted(s, b), "bfreelist")
    IN  Clear(Putback(t, b), b, {"B_WANTED", "B_BUSY", "B_ASYNC", "B_ERROR"})

(* brelse(): wake who waits for this buffer or for any.                    *)
Brelse(s, b) ==
    LET t == Forget(WakeList(WakeWanted(s, b), "bfreelist"), b)
    IN  Clear(Putback(t, b), b, {"B_WANTED", "B_BUSY", "B_ASYNC"})

\* The header loses its memory and joins bhdrlist.
FreeHeader(s, b) ==
    WakeList([s EXCEPT !.bufsize = @ + s.buf[b].size, !.buf[b] = NewBuf,
                       !.bhdrlist = <<b>> \o @], "bhdrlist")

\* The driver is given the request (external: it completes in Biodone).
Strategy(s, b) == [s EXCEPT !.ioq = Append(@, b)]

\* The head of bwrite(), up to the strategy call.
StartWrite(s, b) == Strategy(Clear(s, b, {"B_READ", "B_DONE", "B_ERROR", "B_DELWRI"}), b)

StartRead(s, b, flags) == Strategy(Set(s, b, {"B_READ"} \cup flags), b)

\* bwrite() of a buffer with B_ASYNC, called at spl6.
WriteBehind(s, b) ==
    [StartWrite(Set(s, b, {"B_ASYNC"}), b) EXCEPT !.basyncnt = @ + 1]

\* The buffer of a block that getblk() and incore() find, or NULL.
Lookup(s, n) ==
    LET found == {b \in Buf : s.buf[b].blk = n /\ "B_STALE" \notin s.buf[b].flags}
    IN  IF found = {} THEN NULL ELSE CHOOSE b \in found : TRUE

(* The holder changes the contents: every other copy is out of date.       *)
Modify(s, b) ==
    [s EXCEPT !.buf = [c \in Buf |->
        IF s.buf[c].blk = s.buf[b].blk /\ s.buf[b].blk # NULL
        THEN [s.buf[c] EXCEPT !.cur = (c = b)] ELSE s.buf[c]]]

Outdated(b) == [n \in Block |-> disk[n] /\ n # buf[b].blk]

(***************************************************************************)
(* getblk(), getfreeblk() and ngeteblk().                                  *)
(***************************************************************************)
Target(r) == IF r.then = "ahead" THEN r.ra ELSE r.blk

Want(r) == IF Target(r) = NULL THEN ESIZE ELSE Size[Target(r)]

AgainFree(r) == "getfreeblk"   \* Mutant: the hash queue is not searched again

\* Where the caller of getfreeblk() starts again when it returns NULL.
Again(r) == IF Target(r) = NULL THEN "getfreeblk" ELSE "getblk"

Own(s, p, b) == cpu' = NULL /\ Become(With(s, p, [Idle EXCEPT !.pc = "own", !.bp = b]))

\* The end of breada(): wait for the block, or read it if it was in core.
Ahead(s, p, r) ==
    IF r.bp = NULL THEN Continue(s, p, [r EXCEPT !.pc = "getblk", !.then = "read"])
    ELSE Continue(s, p, [r EXCEPT !.pc = "biowait", !.then = NULL])

(* What the caller does with the buffer getblk() returns.                  *)
Got(s, p, r, b) ==
    LET done == "B_DONE" \in s.buf[b].flags
    IN  \/ /\ r.then = "own" \/ (r.then = "read" /\ done)
           /\ Own(s, p, b)
        \/ /\ r.then = "read" /\ ~done
           /\ Continue(StartRead(s, b, {}), p, [r EXCEPT !.pc = "biowait", !.bp = b, !.then = NULL])
        \/ /\ r.then = "first"
           /\ Continue(IF done THEN s ELSE StartRead(s, b, {}), p, [r EXCEPT !.pc = "ahead", !.bp = b])
        \/ /\ r.then = "ahead"
           /\ Ahead(IF done THEN Brelse(s, b) ELSE StartRead(s, b, {"B_ASYNC"}), p, r)

NewId(r) ==
    [flags |-> IF Target(r) = NULL THEN {"B_BUSY", "B_AGE"} ELSE {"B_BUSY"},
     blk |-> Target(r), size |-> Want(r), cur |-> FALSE]

\* found: in getblk() and ngeteblk(): the buffer is given its new identity.
Found(s, p, b) ==
    Got([s EXCEPT !.buf[b] = NewId(proc[p])], p, [proc[p] EXCEPT !.savebp = NULL], b)

(* Mutant: a busy buffer is waited for without B_WANTED.                   *)
GetblkQuiet(p) ==
    LET b == Lookup(State, Target(proc[p]))
    IN  /\ Runs(p, "getblk")
        /\ \/ b = NULL /\ Goto(State, p, "getfreeblk")
           \/ b # NULL /\ "B_BUSY" \in buf[b].flags /\ Sleep(State, p, b, "getblk")
           \/ b # NULL /\ "B_BUSY" \notin buf[b].flags
              /\ Got(Notavail(Clear(State, b, {"B_AGE"}), b), p, proc[p], b)

Getblk(p) ==
    LET b == Lookup(State, Target(proc[p]))
    IN  /\ Runs(p, "getblk")
        /\ \/ b = NULL /\ Goto(State, p, "getfreeblk")
           \/ b # NULL /\ "B_BUSY" \in buf[b].flags
              /\ Sleep(Set(State, b, {"B_WANTED"}), p, b, "getblk")
           \/ b # NULL /\ "B_BUSY" \notin buf[b].flags
              /\ Got(Notavail(Clear(State, b, {"B_AGE"}), b), p, proc[p], b)

\* The free buffer at the head goes if memory or a header is short, or it is aged.
MustFree(r) ==
    /\ bfreelist # << >>
    /\ bufsize < Want(r) \/ "B_AGE" \in buf[Head(bfreelist)].flags \/ bhdrlist = << >>

Unhash(s, b) == [s EXCEPT !.buf[b].blk = NULL]

(* Mutant: a delayed write is given up with its buffer.                    *)
FreeOneDirty(s, p, b) ==
    LET t == Unhash(Notavail(s, b), b)
    IN  IF proc[p].savebp = NULL /\ s.buf[b].size = Want(proc[p])
        THEN With(t, p, [proc[p] EXCEPT !.savebp = b]) ELSE FreeHeader(t, b)

(* Mutant: every buffer of the right size is kept, the last one is used.   *)
FreeOneKeep(s, p, b) ==
    LET t == Unhash(Notavail(s, b), b)
    IN  IF "B_DELWRI" \in s.buf[b].flags THEN WriteBehind(Set(Notavail(s, b), b, {"B_AGE"}), b)
        ELSE IF s.buf[b].size = Want(proc[p])
             THEN With(t, p, [proc[p] EXCEPT !.savebp = b]) ELSE FreeHeader(t, b)

(* One turn of its loop: write the buffer behind, keep it if it has the    *)
(* right size, or free its memory.                                         *)
FreeOne(s, p, b) ==
    LET t == Unhash(Notavail(s, b), b)
    IN  IF "B_DELWRI" \in s.buf[b].flags THEN WriteBehind(Set(Notavail(s, b), b, {"B_AGE"}), b)
        ELSE IF proc[p].savebp = NULL /\ s.buf[b].size = Want(proc[p])
             THEN With(t, p, [proc[p] EXCEPT !.savebp = b]) ELSE FreeHeader(t, b)

Getfreeblk(p) ==
    /\ Runs(p, "getfreeblk")
    /\ IF MustFree(proc[p])
       THEN cpu' = p /\ Become(FreeOne(State, p, Head(bfreelist)))
       ELSE Goto(State, p, "alloc")

Asks(list) == [State EXCEPT !.wanted = @ \cup {list}]

\* A header is taken off bhdrlist.
Taken == [State EXCEPT !.bhdrlist = Tail(@)]

Charge(s, n) == [s EXCEPT !.bufsize = @ - n]

(* The rest of getfreeblk(), back at the caller's priority level.          *)
Alloc(p) ==
    LET r == proc[p]
    IN  /\ Runs(p, "alloc")
        /\ \/ r.savebp # NULL /\ Found(State, p, r.savebp)
           \/ /\ r.savebp = NULL /\ bufsize < Want(r)
              /\ Sleep(Asks("bfreelist"), p, "bfreelist", Again(r))
           \/ /\ r.savebp = NULL /\ bufsize >= Want(r) /\ bhdrlist = << >>
              /\ Sleep(Asks("bhdrlist"), p, "bhdrlist", Again(r))
           \/ /\ r.savebp = NULL /\ bufsize >= Want(r) /\ bhdrlist # << >>
              /\ \/ Found(Charge(Taken, Want(r)), p, Head(bhdrlist))
                 \/ /\ (IF Target(r) = NULL THEN "ngeteblk" ELSE "getblk") \in KMEMSLEEP
                    /\ cpu' = NULL
                    /\ Become(With(Taken, p, [r EXCEPT !.pc = "asleep", !.chan = "kmem", !.ret = "zalloc",
                                                       !.savebp = Head(bhdrlist)]))

\* kmem_zalloc() returns after a sleep.
Zalloc(p) ==
    /\ Runs(p, "zalloc")
    /\ Found(Charge(State, Want(proc[p])), p, proc[p].savebp)

(***************************************************************************)
(* Waiting for a transfer, and the holder's routines.                      *)
(***************************************************************************)
Biowait(p) ==
    LET b == proc[p].bp
        r == proc[p]
    IN  /\ Runs(p, "biowait")
        /\ \/ "B_DONE" \notin buf[b].flags /\ Sleep(Set(State, b, {"B_WANTED"}), p, b, "biowait")
           \/ "B_DONE" \in buf[b].flags /\ r.then = NULL /\ Own(State, p, b)
           \/ "B_DONE" \in buf[b].flags /\ r.then = "brelse" /\ Return(Brelse(State, b), p)
           \/ /\ "B_DONE" \in buf[b].flags /\ r.then = "blkflush"
              /\ Continue(Brelse(State, b), p, [r EXCEPT !.pc = "blkflush", !.bp = NULL])

Holds(p) == cpu = NULL /\ proc[p].pc = "own"

Changes(p) ==
    /\ Holds(p) /\ buf[proc[p].bp].blk # NULL /\ "B_ERROR" \notin buf[proc[p].bp].flags
    /\ disk' = Outdated(proc[p].bp)

Release(p) == Holds(p) /\ Return(Brelse(State, proc[p].bp), p) /\ UNCHANGED disk

\* bwrite() without B_ASYNC.
WriteWait(s, p, b, then) ==
    Continue(StartWrite(s, b), p, [proc[p] EXCEPT !.pc = "biowait", !.bp = b, !.then = then])

Bwrite(p) == Changes(p) /\ WriteWait(Modify(State, proc[p].bp), p, proc[p].bp, "brelse")

Bdwrite(p) ==
    LET b == proc[p].bp
    IN  Changes(p) /\ Return(Brelse(Set(Modify(State, b), b, {"B_DELWRI", "B_DONE"}), b), p)

\* bawrite(): with few free buffers it waits; else the count comes after the request.
Bawrite(p) ==
    LET b == proc[p].bp
        s == Modify(State, b)
    IN  /\ Changes(p)
        /\ IF Len(bfreelist) > AWFREE
           THEN Continue(StartWrite(Set(s, b, {"B_ASYNC"}), b), p,
                         [proc[p] EXCEPT !.pc = "bawrite", !.bp = NULL])
           ELSE WriteWait(s, p, b, "brelse")

BawriteCount(p) == Runs(p, "bawrite") /\ Return([State EXCEPT !.basyncnt = @ + 1], p)

BreadaAhead(p) ==
    /\ Runs(p, "ahead")
    /\ IF Len(bfreelist) > RAFREE /\ Lookup(State, proc[p].ra) = NULL
       THEN Continue(State, p, [proc[p] EXCEPT !.pc = "getblk", !.then = "ahead"])
       ELSE Ahead(State, p, proc[p])

(***************************************************************************)
(* Flushing.                                                               *)
(***************************************************************************)
Dirty(b) == "B_DELWRI" \in buf[b].flags

Binval(s) ==
    [s EXCEPT !.buf = [b \in Buf |-> IF s.buf[b].blk = NULL THEN s.buf[b]
                                     ELSE [s.buf[b] EXCEPT !.flags = @ \cup {"B_STALE", "B_AGE"}]]]

\* bflush(); the last close of the device invalidates its blocks after it.
Bflush(p) ==
    LET i == SelectInSeq(bfreelist, Dirty)
    IN  /\ Runs(p, "bflush")
        /\ IF i # 0
           THEN Goto(WriteBehind(Notavail(State, bfreelist[i]), bfreelist[i]), p, "bflush")
           ELSE Return(IF proc[p].then = "close" THEN Binval(State) ELSE State, p)

Blkflush(p) ==
    LET b == Lookup(State, proc[p].blk)
    IN  /\ Runs(p, "blkflush")
        /\ \/ b = NULL /\ Return(State, p)
           \/ /\ b # NULL /\ "B_BUSY" \in buf[b].flags
              /\ Sleep(Set(State, b, {"B_WANTED"}), p, b, "blkflush")
           \/ /\ b # NULL /\ "B_BUSY" \notin buf[b].flags
              /\ IF Dirty(b) THEN WriteWait(Notavail(State, b), p, b, "blkflush")
                 ELSE Return(State, p)

Bdwait(p) ==
    /\ Runs(p, "bdwait")
    /\ IF basyncnt = 0 THEN Return(State, p)
       ELSE Sleep([State EXCEPT !.basynwait = TRUE], p, "basyncnt", "bdwait")

\* A process calls one of the routines.
Call(p) ==
    /\ Runs(p, "idle") /\ cpu = NULL
    /\ \/ \E n \in Block, then \in {"read", "own"} :
             Continue(State, p, [Idle EXCEPT !.pc = "getblk", !.blk = n, !.then = then])
       \/ \E n, m \in Block :
             /\ n # m
             /\ Continue(State, p, [Idle EXCEPT !.pc = IF Lookup(State, n) = NULL THEN "getblk" ELSE "ahead",
                                                !.blk = n, !.ra = m, !.then = "first"])
       \/ Continue(State, p, [Idle EXCEPT !.pc = "getfreeblk", !.then = "own"])
       \/ \E n \in Block : Continue(State, p, [Idle EXCEPT !.pc = "blkflush", !.blk = n])
       \/ Goto(State, p, "bflush")
       \/ /\ \A q \in Proc : proc[q].pc = "idle"
          /\ Continue(State, p, [Idle EXCEPT !.pc = "bflush", !.then = "close"])
       \/ Goto(State, p, "bdwait")

(* The flush daemon: write what has been delayed long enough; free a clean *)
(* buffer when somebody waits for a header.                                *)
Fsflush ==
    /\ cpu = NULL /\ UNCHANGED <<cpu, disk>>
    /\ \E b \in ToSet(bfreelist) : Dirty(b) /\ Become(WriteBehind(Notavail(State, b), b))

FsflushHeader ==
    LET i == SelectInSeq(bfreelist, LAMBDA b : ~Dirty(b))
    IN  /\ cpu = NULL /\ UNCHANGED <<cpu, disk>>
        /\ "bhdrlist" \in wanted /\ i # 0
        /\ Become(FreeHeader(Notavail(State, bfreelist[i]), bfreelist[i]))

(***************************************************************************)
(* Interrupts.  The driver keeps the order of the requests for a block.    *)
(***************************************************************************)
First(b) ==
    \E i \in DOMAIN ioq : ioq[i] = b /\ \A j \in 1 .. i - 1 : buf[ioq[j]].blk # buf[b].blk

\* biodone(), once B_DONE is set: a write behind is counted off.
CountOff(s, b) == IF "B_READ" \in s.buf[b].flags THEN s ELSE [s EXCEPT !.basyncnt = @ - 1]

WakeSync(s) ==
    IF s.basyncnt = 0 /\ s.basynwait THEN Wakeup([s EXCEPT !.basynwait = FALSE], "basyncnt") ELSE s

Finish(s, b) ==
    IF "B_ASYNC" \in s.buf[b].flags THEN Brelse(WakeSync(CountOff(s, b)), b)
    ELSE Wakeup(Clear(s, b, {"B_WANTED"}), b)

Transferred(b, error) ==
    [buf[b] EXCEPT !.flags = @ \cup (IF error THEN {"B_DONE", "B_ERROR"} ELSE {"B_DONE"}),
                   !.cur = IF "B_READ" \in buf[b].flags THEN disk[buf[b].blk] /\ ~error ELSE @]

Ended(b, error) == [State EXCEPT !.ioq = RemoveFirst(@, b), !.buf[b] = Transferred(b, error)]

(* The transfer ends.  What a failed write was to put on the disk is given *)
(* up: the contents of the disk are then the current ones.                 *)
Biodone(b, error) ==
    /\ First(b) /\ UNCHANGED cpu
    /\ disk' = IF "B_READ" \in buf[b].flags THEN disk
               ELSE [disk EXCEPT ![buf[b].blk] = buf[b].cur \/ (error /\ @)]
    /\ Become(Finish(Ended(b, error), b))

\* Memory is freed (external: kmem_free() wakes the sleepers).
KmemWakeup(p) ==
    /\ proc[p].pc = "asleep" /\ proc[p].chan = "kmem" /\ UNCHANGED <<cpu, disk>>
    /\ Become(With(State, p, Woken(proc[p], "kmem")))

Routine(p) ==
    \/ /\ \/ Getblk(p) \/ Getfreeblk(p) \/ Alloc(p) \/ Zalloc(p) \/ Biowait(p) \/ BawriteCount(p)
          \/ BreadaAhead(p) \/ Bflush(p) \/ Blkflush(p) \/ Bdwait(p)
       /\ UNCHANGED disk
    \/ Release(p) \/ Bwrite(p) \/ Bdwrite(p) \/ Bawrite(p)

Next ==
    \/ \E p \in Proc : Routine(p) \/ (Call(p) /\ UNCHANGED disk) \/ KmemWakeup(p)
    \/ \E b \in Buf, error \in BOOLEAN : Biodone(b, error)
    \/ Fsflush \/ FsflushHeader

Spec == Init /\ [][Next]_vars

(***************************************************************************)
(* Properties.                                                             *)
(***************************************************************************)
BFlag == {"B_BUSY", "B_DONE", "B_WANTED", "B_ASYNC", "B_READ", "B_DELWRI", "B_AGE", "B_STALE", "B_ERROR"}

(* The headers, lists, counters and processes keep the values struct buf   *)
(* and the globals of bio.c can hold.                                      *)
TypeOK ==
    /\ buf \in [Buf -> [flags : SUBSET BFlag, blk : Block \cup {NULL}, size : 0 .. BUFHWM, cur : BOOLEAN]]
    /\ bfreelist \in Seq(Buf) /\ bhdrlist \in Seq(Buf) /\ ioq \in Seq(Buf)
    /\ bufsize \in Int /\ wanted \subseteq {"bfreelist", "bhdrlist"}
    /\ basyncnt \in -1 .. Cardinality(Buf) /\ basynwait \in BOOLEAN
    /\ disk \in [Block -> BOOLEAN]
    /\ proc \in [Proc ->
          [pc : {"idle", "getblk", "getfreeblk", "alloc", "zalloc", "biowait", "own", "bawrite",
                 "ahead", "bflush", "blkflush", "bdwait", "asleep"},
           blk : Block \cup {NULL}, ra : Block \cup {NULL}, bp : Buf \cup {NULL},
           savebp : Buf \cup {NULL}, chan : Buf \cup {NULL, "bfreelist", "bhdrlist", "basyncnt", "kmem"},
           then : {NULL, "own", "read", "first", "ahead", "brelse", "blkflush", "close"},
           ret : {NULL, "getblk", "getfreeblk", "zalloc", "biowait", "blkflush", "bdwait"}]]
    /\ cpu \in Proc \cup {NULL}

(* No two processes have the same buffer, and none gets lost: every header *)
(* is in exactly one place, the free list, the header list, one process's  *)
(* hands or, for asynchronous requests, the driver's, and B_BUSY says so.  *)
BufferOwned ==
    \A b \in Buf :
        LET holders == {p \in Proc : b \in {proc[p].bp, proc[p].savebp}}
            places  == Cardinality(holders)
                       + Cardinality({i \in DOMAIN bfreelist : bfreelist[i] = b})
                       + Cardinality({i \in DOMAIN bhdrlist : bhdrlist[i] = b})
                       + Cardinality({i \in DOMAIN ioq : ioq[i] = b /\ "B_ASYNC" \in buf[b].flags})
        IN  /\ places = 1
            /\ b \in ToSet(bfreelist) => "B_BUSY" \notin buf[b].flags

(* "the buffer is marked busy so that no one else can touch it": a block   *)
(* that is valid in the cache is there once.                               *)
OneBufPerBlock ==
    \A b, c \in Buf :
        b # c /\ buf[b].blk # NULL /\ buf[b].blk = buf[c].blk
            => "B_STALE" \in buf[b].flags \cup buf[c].flags

(* What a process reads through a buffer is what was last written to the   *)
(* block, through whichever buffer, cached, in transit or on the disk.     *)
Coherent ==
    \A p \in Proc : proc[p].pc = "own" =>
        LET r == buf[proc[p].bp]
        IN  (r.blk # NULL /\ "B_DONE" \in r.flags /\ "B_ERROR" \notin r.flags) => r.cur

(* A delayed write is not forgotten, whoever reuses, flushes or            *)
(* invalidates buffers: the current contents of a block are on the disk,   *)
(* with the driver, or marked to be written.                               *)
NoLostData ==
    \A n \in Block : disk[n] \/ \E b \in Buf :
        /\ buf[b].blk = n /\ buf[b].cur
        /\ "B_DELWRI" \in buf[b].flags \/ b \in ToSet(ioq)

(* A process asleep on a buffer will be woken: the buffer is busy and      *)
(* wanted, and in biowait() its transfer has not ended; one that waits for *)
(* a header has asked for it; one in bdwait() waits for a write.           *)
NoLostWakeup ==
    \A p \in Proc : proc[p].pc = "asleep" =>
        LET c == proc[p].chan
        IN  CASE c \in Buf ->
                    /\ {"B_BUSY", "B_WANTED"} \subseteq buf[c].flags
                    /\ proc[p].ret = "biowait" => c \in ToSet(ioq) /\ "B_DONE" \notin buf[c].flags
              [] c \in {"bfreelist", "bhdrlist"} -> c \in wanted
              [] c = "basyncnt" -> basynwait /\ basyncnt > 0
              [] OTHER -> TRUE

(* basyncnt counts the asynchronous writes with the driver, those that     *)
(* bawrite() has not counted yet apart.                                    *)
AsyncCounted ==
    basyncnt + Cardinality({p \in Proc : proc[p].pc = "bawrite"})
        = Cardinality({b \in ToSet(ioq) : "B_ASYNC" \in buf[b].flags /\ "B_READ" \notin buf[b].flags})

\* The sum of a number per header.
InUse(size) ==
    LET hdr == SetToSeq(Buf)
        sum[i \in 0 .. Cardinality(Buf)] == IF i = 0 THEN 0 ELSE sum[i - 1] + size[hdr[i]]
    IN  sum[Cardinality(Buf)]

(* The memory in the buffers and what may still be allocated add up to the *)
(* high-water mark.                                                        *)
MemoryBounded == bufsize + InUse([b \in Buf |-> buf[b].size]) = BUFHWM

(* Every header, every asynchronous write and all memory is accounted for  *)
(* in the lists, flags and counters of bio.c.                              *)
Accounted == TypeOK /\ BufferOwned /\ AsyncCounted /\ MemoryBounded

(* getfreeblk() sleeps for memory only when every buffer is in use, as its *)
(* ASSERT says: a release after that wakes it.                             *)
SleepsWhenEmpty ==
    \A p \in Proc : proc[p].pc = "asleep" /\ proc[p].chan = "bfreelist" => bfreelist = << >>
=============================================================================
