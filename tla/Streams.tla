------------------------------- MODULE Streams -------------------------------
(***************************************************************************)
(* STREAMS flow control and queue scheduling, for streams of a stream head *)
(* on a serial port: strwrite with the small writes it holds back,         *)
(* strread, strwaitq, strwsrv and strpoll (os/streamio.c, os/strsubr.c),   *)
(* queuerun and the two lists it works on, and the put, service and        *)
(* interrupt procedures of the iuart driver (io/iuart.c).                  *)
(*                                                                         *)
(* A stream has four queues: "hw" and "dw", the write queues of the head   *)
(* and the driver, and "dr" and "hr", the read queues.  All but "hr" have  *)
(* a service procedure.                                                    *)
(*                                                                         *)
(* There is one processor.  A process in the kernel (cpu) keeps it until   *)
(* it returns or sleeps, queuerun until it is through; interrupts come     *)
(* between any two steps, and a step is what the code does at splstr.      *)
(* Interrupts out of the kernel do not run the queues (ttrap.s), so queues *)
(* they enable wait until a process calls runqueues, returns to user mode, *)
(* or the processor is idle.                                               *)
(***************************************************************************)
EXTENDS Naturals, Sequences, FiniteSets, SequencesExt, StrQueue

CONSTANTS Proc, Stream, NULL,
          BUF,        \* the bytes a message buffer holds
          MAXIN,      \* bound: messages of input waiting in the driver
          Settings,   \* how a stream may be set and used: [strdelim, cread, sizes]
          MAKESLEEP   \* strmakemsg may sleep for memory or a page

Setting == [strdelim : BOOLEAN, cread : BOOLEAN, sizes : SUBSET (1 .. BUF)]

Queue == Stream \X {"hw", "dw", "dr"}     \* those with a service procedure

ASSUME StreamsAssumption ==
    /\ IsFiniteSet(Proc)
    /\ NULL \notin Proc /\ NULL \notin Stream /\ NULL \notin Queue
    /\ HIWAT \in Nat /\ LOWAT \in Nat /\ BUF \in Nat /\ MAXIN \in Nat
    /\ 0 < LOWAT /\ LOWAT <= HIWAT
    /\ Settings \subseteq Setting
    /\ MAKESLEEP \in BOOLEAN

VARIABLES
    opt,        \* opt[s]: STRDELIM of the head, CREAD of the port, sizes of writes
    dw, dr, hr, \* the queues with messages
    held,       \* held[s]: size of the message in q_first of "hw", 0 for NULL
    due,        \* due[s]: sd_rtime <= lbolt
    sd_flag,    \* sd_flag[s]: WSLEEP, RSLEEP
    dma,        \* dma[s]: the message being sent (t_out, with BUSY), or 0
    ttstop,     \* ttstop[s]: TTSTOP, output suspended
    run,        \* qhead, qtail, q_link and the queues with QENAB
    back,       \* the streams whose "hw" has QBACK
    scan,       \* scanqhead, scanqtail and the streams with QHLIST
    qrunflag, strscanflag,
    qr,         \* queuerun: OFF, SCAN, NEXT, or the queue being served
    cpu,        \* the process in the kernel, or NULL
    pc, call    \* call[p]: its stream, uio_resid and the message in hand

sched == <<run, back, scan, qrunflag, strscanflag>>
dev   == <<dw, dr, hr, dma, ttstop>>
vars  == <<opt, dev, held, due, sd_flag, sched, qr, cpu, pc, call>>

(* queuerun is not running; looks at the held messages; is about to take a *)
(* queue off the run list.                                                 *)
OFF == <<NULL, "off">>
SCAN == <<NULL, "scan">>
NEXT == <<NULL, "next">>

NoCall == [s |-> NULL, resid |-> 0, m |-> 0]

Init ==
    /\ opt \in [Stream -> Settings]
    /\ dw = [s \in Stream |-> NewQueue]
    /\ dr = [s \in Stream |-> NewQueue]
    /\ hr = [s \in Stream |-> NewQueue]
    /\ held = [s \in Stream |-> 0]
    /\ due = [s \in Stream |-> FALSE]
    /\ sd_flag = [s \in Stream |-> {}]
    /\ dma = [s \in Stream |-> 0]
    /\ ttstop = [s \in Stream |-> FALSE]
    /\ run = [qhead |-> NULL, qtail |-> NULL, link |-> [q \in Queue |-> NULL], enab |-> {}]
    /\ back = {}
    /\ scan = [head |-> NULL, tail |-> NULL, hlist |-> {}]
    /\ qrunflag = FALSE
    /\ strscanflag = FALSE
    /\ qr = OFF
    /\ cpu = NULL
    /\ pc = [p \in Proc |-> "user"]
    /\ call = [p \in Proc |-> NoCall]

(***************************************************************************)
(* The run list                                                            *)
(***************************************************************************)
(* Mutant: a queue that is enabled already is put on the list again. *)
QenableTwice(r, q) ==
    [qhead |-> IF r.qhead = NULL THEN q ELSE r.qhead,
     qtail |-> q,
     link  |-> [x \in Queue |-> IF x = q THEN NULL
                                ELSE IF x = r.qtail /\ r.qhead # NULL THEN q
                                ELSE r.link[x]],
     enab  |-> r.enab \cup {q}]

Qenable(r, q) ==
    IF q \in r.enab THEN r
    ELSE [qhead |-> IF r.qhead = NULL THEN q ELSE r.qhead,
          qtail |-> q,
          link  |-> [x \in Queue |-> IF x = q THEN NULL
                                     ELSE IF x = r.qtail /\ r.qhead # NULL THEN q
                                     ELSE r.link[x]],
          enab  |-> r.enab \cup {q}]

QenableIf(b, r, q) == IF b THEN Qenable(r, q) ELSE r

(* The run list becomes r: setqsched, if a queue was not on it before. *)
Schedule(r) ==
    /\ run' = r
    /\ qrunflag' = (qrunflag \/ r.enab # run.enab)

Wakeup(pcs, s, from, to) ==
    [p \in Proc |-> IF pcs[p] = from /\ call[p].s = s THEN to ELSE pcs[p]]

(***************************************************************************)
(* The driver                                                              *)
(***************************************************************************)
(* Mutant: a message met while output is suspended is not put back. *)
IugetoblkDrops(q, busy, stop) ==
    LET g == Getq(q)
    IN  IF busy # 0 \/ q.msgs = <<>> THEN [q |-> q, dma |-> busy, back |-> FALSE]
        ELSE [q |-> g.q, dma |-> IF stop THEN 0 ELSE g.m, back |-> g.back]

(* iugetoblk on a write queue q: start to send its first message, unless   *)
(* the port is busy or output is suspended (then it is put back).          *)
Iugetoblk(q, busy, stop) ==
    LET g == Getq(q)
    IN  IF busy # 0 \/ q.msgs = <<>> THEN [q |-> q, dma |-> busy, back |-> FALSE]
        ELSE IF stop THEN [q |-> Putbq(g.q, g.m), dma |-> 0, back |-> g.back]
        ELSE [q |-> g.q, dma |-> g.m, back |-> g.back]

(* backenable of the head *)
Backenable(s, b, r) ==
    /\ Schedule(QenableIf(b, r, <<s, "hw">>))
    /\ back' = IF b THEN back \cup {s} ELSE back

(* What iugetoblk does to the variables, when the run list is r. *)
Output(s, q, busy, stop, r) ==
    LET o == Iugetoblk(q, busy, stop)
    IN  /\ dw' = [dw EXCEPT ![s] = o.q]
        /\ dma' = [dma EXCEPT ![s] = o.dma]
        /\ Backenable(s, o.back, r)

(* iuoput of a data message: putq, which may enable the queue, and         *)
(* iugetoblk.                                                              *)
Iuoput(s, m) ==
    Output(s, Putq(dw[s], m), dma[s], ttstop[s], QenableIf(Enables(dw[s]), run, <<s, "dw">>))

(* The transmit interrupt at the end of a message. *)
Iuxint(s) ==
    /\ dma[s] # 0
    /\ Output(s, dw[s], 0, ttstop[s], run)
    /\ UNCHANGED <<opt, dr, hr, ttstop, held, due, sd_flag, scan, strscanflag,
                   qr, cpu, pc, call>>

(* Input: iurint has filled a buffer, or iuscan finds one begun. *)
Iuscan(s) ==
    /\ opt[s].cread /\ Len(dr[s].msgs) < MAXIN
    /\ dr' = [dr EXCEPT ![s] = Putq(@, 1)]
    /\ Schedule(QenableIf(Enables(dr[s]), run, <<s, "dr">>))
    /\ UNCHANGED <<opt, dw, hr, dma, ttstop, held, due, sd_flag, back, scan, strscanflag,
                   qr, cpu, pc, call>>

(* M_STOP, M_START and M_FLUSH of output, from an ioctl. *)
Ioctl(p) == cpu = NULL /\ qr = OFF /\ pc[p] = "user"

MStop(p, s) ==
    /\ Ioctl(p) /\ ~ttstop[s]
    /\ ttstop' = [ttstop EXCEPT ![s] = TRUE]
    /\ UNCHANGED <<opt, dw, dr, hr, dma, held, due, sd_flag, sched, qr, cpu, pc, call>>

MStart(p, s) ==
    /\ Ioctl(p) /\ ttstop[s]
    /\ ttstop' = [ttstop EXCEPT ![s] = FALSE]
    /\ Output(s, dw[s], dma[s], FALSE, run)
    /\ UNCHANGED <<opt, dr, hr, held, due, sd_flag, scan, strscanflag, qr, cpu, pc, call>>

(* iuflush, modelled only when nothing is being sent: it clears BUSY, and   *)
(* what the port does if the transfer is still going on is the hardware's.  *)
MFlush(p, s) ==
    LET f == Flushq(dw[s])
    IN  /\ Ioctl(p) /\ dma[s] = 0 /\ dw[s].msgs # <<>>
        /\ dw' = [dw EXCEPT ![s] = f.q]
        /\ Backenable(s, f.back, run)
        /\ UNCHANGED <<opt, dr, hr, dma, ttstop, held, due, sd_flag, scan, strscanflag,
                       qr, cpu, pc, call>>

(***************************************************************************)
(* queuerun                                                                *)
(***************************************************************************)
(* From the return to user mode, or the idle loop. *)
Kick ==
    /\ cpu = NULL /\ qr = OFF /\ qrunflag
    /\ qr' = SCAN
    /\ UNCHANGED <<opt, dev, held, due, sd_flag, sched, cpu, pc, call>>

(* A stream head that has held a message long enough: put it downstream.   *)
QrScan ==
    LET q == scan.head
        s == q[1]
    IN  /\ qr = SCAN /\ q # NULL /\ due[s]
        /\ scan' = [head  |-> run.link[q],
                    tail  |-> IF run.link[q] = NULL THEN NULL ELSE scan.tail,
                    hlist |-> scan.hlist \ {s}]
        /\ held' = [held EXCEPT ![s] = 0]
        /\ IF held[s] # 0 THEN Iuoput(s, held[s])
           ELSE UNCHANGED <<dw, dma, run, qrunflag, back>>
        /\ UNCHANGED <<opt, dr, hr, ttstop, due, sd_flag, strscanflag, qr, cpu, pc, call>>

QrScanned ==
    /\ qr = SCAN /\ (scan.head # NULL => ~due[scan.head[1]])
    /\ qr' = NEXT
    /\ UNCHANGED <<opt, dev, held, due, sd_flag, sched, cpu, pc, call>>

(* The next queue is taken off the list. *)
QrNext ==
    /\ qr = NEXT /\ run.qhead # NULL
    /\ run' = [run EXCEPT !.qhead = run.link[run.qhead],
                          !.qtail = IF run.link[run.qhead] = NULL THEN NULL ELSE @,
                          !.enab = @ \ {run.qhead}]
    /\ qr' = run.qhead
    /\ UNCHANGED <<opt, dev, held, due, sd_flag, back, scan, qrunflag, strscanflag,
                   cpu, pc, call>>

QrDone ==
    /\ qr = NEXT /\ run.qhead = NULL
    /\ qr' = OFF
    /\ qrunflag' = FALSE
    /\ strscanflag' = (strscanflag \/ scan.head # NULL)
    /\ UNCHANGED <<opt, dev, held, due, sd_flag, run, back, scan, cpu, pc, call>>

Serves(k) == qr \in Queue /\ qr[2] = k

(* strwsrv: wake writers, and those in poll if this is a back-enabling and *)
(* there is room.                                                          *)
Strwsrv ==
    LET s  == qr[1]
        w  == IF "WSLEEP" \in sd_flag[s] THEN Wakeup(pc, s, "w_asleep", "w_woken") ELSE pc
    IN  /\ Serves("hw")
        /\ sd_flag' = [sd_flag EXCEPT ![s] = @ \ {"WSLEEP"}]
        /\ pc' = IF s \in back /\ Canput(dw[s]) THEN Wakeup(w, s, "polling", "user") ELSE w
        /\ qr' = <<s, "clear">>
        /\ UNCHANGED <<opt, dev, held, due, sched, cpu, call>>

(* queuerun clears QBACK when the service procedure has returned. *)
QrClear ==
    /\ qr \in Stream \X {"clear"}
    /\ back' = back \ {qr[1]}
    /\ qr' = NEXT
    /\ UNCHANGED <<opt, dev, held, due, sd_flag, run, scan, qrunflag, strscanflag,
                   cpu, pc, call>>

(* iuosrv does nothing. *)
Iuosrv ==
    /\ Serves("dw")
    /\ qr' = NEXT
    /\ UNCHANGED <<opt, dev, held, due, sd_flag, sched, cpu, pc, call>>

(* How many of k messages go up: those that find the head, which is h[i]   *)
(* after i of them, not full.                                              *)
Passes(h, k) ==
    CHOOSE i \in 0 .. k : /\ \A j \in 0 .. i - 1 : Canput(h[j])
                          /\ i < k => ~Canput(h[i])

(* iuisrv, at splstr throughout: messages go to the head (strrput, which   *)
(* wakes readers) until it is full or the queue is empty.                  *)
Iuisrv ==
    LET s  == qr[1]
        k  == Len(dr[s].msgs)
        h  == Filled(hr[s], dr[s].msgs)
        n  == Passes(h, k)
        g  == Getq(Emptied(dr[s])[n])
    IN  /\ Serves("dr")
        /\ dr' = [dr EXCEPT ![s] = IF n < k THEN Putbq(g.q, g.m) ELSE g.q]
        /\ hr' = [hr EXCEPT ![s] = IF n < k THEN Refused(h[n]) ELSE h[n]]
        /\ IF n > 0 /\ "RSLEEP" \in sd_flag[s]
           THEN /\ pc' = Wakeup(pc, s, "r_asleep", "r_woken")
                /\ sd_flag' = [sd_flag EXCEPT ![s] = @ \ {"RSLEEP"}]
           ELSE UNCHANGED <<pc, sd_flag>>
        /\ qr' = NEXT
        /\ UNCHANGED <<opt, dw, dma, ttstop, held, due, sched, cpu, call>>

(* The clock: strscan from the callout table, and the passing of time. *)
Strscan ==
    /\ strscanflag
    /\ strscanflag' = FALSE
    /\ qrunflag' = TRUE
    /\ UNCHANGED <<opt, dev, held, due, sd_flag, run, back, scan, qr, cpu, pc, call>>

Elapse(s) ==
    /\ s \in scan.hlist /\ ~due[s]
    /\ due' = [due EXCEPT ![s] = TRUE]
    /\ UNCHANGED <<opt, dev, held, sd_flag, sched, qr, cpu, pc, call>>

(***************************************************************************)
(* strwrite                                                                *)
(***************************************************************************)
In(p, at) == cpu = p /\ qr = OFF /\ pc[p] = at

Leave(p, pcs) ==
    /\ cpu' = NULL
    /\ pc' = [pcs EXCEPT ![p] = "user"]
    /\ call' = [call EXCEPT ![p] = NoCall]

Write(p, s, n) ==
    /\ cpu = NULL /\ qr = OFF /\ pc[p] = "user"
    /\ cpu' = p
    /\ pc' = [pc EXCEPT ![p] = "w_canput"]
    /\ call' = [call EXCEPT ![p] = [s |-> s, resid |-> n, m |-> 0]]
    /\ UNCHANGED <<opt, dev, held, due, sd_flag, sched, qr>>

(* The queue is full: EAGAIN with O_NDELAY, or strwaitq. *)
WriteFull(p) ==
    LET s == call[p].s
    IN  /\ In(p, "w_canput") /\ ~Canput(dw[s])
        /\ dw' = [dw EXCEPT ![s] = Refused(@)]
        /\ \/ /\ Leave(p, pc)
              /\ UNCHANGED sd_flag
           \/ /\ sd_flag' = [sd_flag EXCEPT ![s] = @ \cup {"WSLEEP"}]
              /\ pc' = [pc EXCEPT ![p] = "w_asleep"]
              /\ cpu' = NULL
              /\ UNCHANGED call
        /\ UNCHANGED <<opt, dr, hr, dma, ttstop, held, due, sched, qr>>

Fits(n, left) == n <= left

(* There is a held message: add to it and wait for more, or send it, with  *)
(* what fits as a whole.                                                   *)
WriteHeld(p) ==
    LET s    == call[p].s
        n    == call[p].resid
        left == BUF - held[s]
    IN  /\ In(p, "w_canput") /\ Canput(dw[s]) /\ held[s] # 0
        /\ IF 2 * n <= left
           THEN /\ held' = [held EXCEPT ![s] = @ + n]
                /\ Leave(p, pc)
           ELSE /\ held' = [held EXCEPT ![s] = 0]
                /\ call' = [call EXCEPT ![p].m = IF Fits(n, left) THEN held[s] + n ELSE held[s],
                                        ![p].resid = IF Fits(n, left) THEN 0 ELSE n]
                /\ pc' = [pc EXCEPT ![p] = "w_put"]
                /\ UNCHANGED cpu
        /\ UNCHANGED <<opt, dev, due, sd_flag, sched, qr>>

(* strmakemsg, which may give up the processor. *)
WriteMake(p) ==
    LET s == call[p].s
    IN  /\ In(p, "w_canput") /\ Canput(dw[s]) /\ held[s] = 0
        /\ pc' = [pc EXCEPT ![p] = "w_made"]
        /\ call' = [call EXCEPT ![p].m = call[p].resid, ![p].resid = 0]
        /\ cpu' \in IF MAKESLEEP THEN {p, NULL} ELSE {p}
        /\ UNCHANGED <<opt, dev, held, due, sd_flag, sched, qr>>

Holds(p) == ~opt[call[p].s].strdelim /\ 2 * call[p].m <= BUF

(* The message is held back, the stream head is put on the list scanqhead  *)
(* unless it is there, and the timer is started unless it runs.            *)
Hold(p) ==
    LET s == call[p].s
        q == <<s, "hw">>
    IN  /\ held' = [held EXCEPT ![s] = call[p].m]
        /\ due' = [due EXCEPT ![s] = FALSE]
        /\ IF s \in scan.hlist THEN UNCHANGED <<scan, run, strscanflag>>
           ELSE /\ scan' = [head  |-> IF scan.head = NULL THEN q ELSE scan.head,
                            tail  |-> q,
                            hlist |-> scan.hlist \cup {s}]
                /\ run' = [run EXCEPT !.link =
                             [x \in Queue |-> IF x = q THEN NULL
                                              ELSE IF x = scan.tail /\ scan.head # NULL THEN q
                                              ELSE run.link[x]]]
                /\ strscanflag' = TRUE

WriteHold(p) ==
    /\ In(p, "w_made") /\ Holds(p)
    /\ Hold(p)
    /\ Leave(p, pc)
    /\ UNCHANGED <<opt, dev, sd_flag, back, qrunflag, qr>>

(* The message is put downstream, q_first of the head is cleared, and the  *)
(* queues are run.                                                         *)
WritePut(p) ==
    LET s == call[p].s
    IN  /\ In(p, "w_put") \/ (In(p, "w_made") /\ ~Holds(p))
        /\ held' = [held EXCEPT ![s] = 0]
        /\ Iuoput(s, call[p].m)
        /\ call' = [call EXCEPT ![p].m = 0]
        /\ pc' = [pc EXCEPT ![p] = "w_next"]
        /\ qr' = IF qrunflag' THEN SCAN ELSE OFF
        /\ UNCHANGED <<opt, dr, hr, ttstop, due, sd_flag, scan, strscanflag, cpu>>

WriteNext(p) ==
    /\ In(p, "w_next")
    /\ IF call[p].resid = 0 THEN Leave(p, pc)
       ELSE pc' = [pc EXCEPT ![p] = "w_canput"] /\ UNCHANGED <<cpu, call>>
    /\ UNCHANGED <<opt, dev, held, due, sd_flag, sched, qr>>

(***************************************************************************)
(* strread                                                                 *)
(***************************************************************************)
Strread(p, s) ==
    LET g == Getq(hr[s])
    IN  /\ qr = OFF
        /\ \/ cpu = NULL /\ pc[p] = "user"
           \/ cpu = p /\ pc[p] = "r_again" /\ call[p].s = s
        /\ hr' = [hr EXCEPT ![s] = g.q]
        /\ Schedule(QenableIf(g.back, run, <<s, "dr">>))
        /\ \/ /\ g.m # 0
              /\ pc' = [pc EXCEPT ![p] = "r_next"]
              /\ cpu' = p
              /\ qr' = IF qrunflag' THEN SCAN ELSE OFF
              /\ UNCHANGED sd_flag
           \/ /\ g.m = 0
              /\ sd_flag' = [sd_flag EXCEPT ![s] = @ \cup {"RSLEEP"}]
              /\ pc' = [pc EXCEPT ![p] = "r_asleep"]
              /\ cpu' = NULL
              /\ UNCHANGED qr
        /\ call' = [call EXCEPT ![p].s = s]
        /\ UNCHANGED <<opt, dw, dr, dma, ttstop, held, due, back, scan, strscanflag>>

ReadNext(p) ==
    /\ In(p, "r_next")
    /\ Leave(p, pc)
    /\ UNCHANGED <<opt, dev, held, due, sd_flag, sched, qr>>

(***************************************************************************)
(* Sleeping processes                                                      *)
(***************************************************************************)
Again(p) == CASE pc[p] = "w_woken" -> "w_canput" [] pc[p] = "r_woken" -> "r_again"
              [] pc[p] = "w_made" -> "w_made"

Dispatch(p) ==
    /\ cpu = NULL /\ qr = OFF /\ pc[p] \in {"w_woken", "r_woken", "w_made"}
    /\ cpu' = p
    /\ pc' = [pc EXCEPT ![p] = Again(p)]
    /\ UNCHANGED <<opt, dev, held, due, sd_flag, sched, qr, call>>

Signal(p) ==
    /\ pc[p] \in {"w_asleep", "w_woken", "r_asleep", "r_woken"}
    /\ pc' = [pc EXCEPT ![p] = IF @ \in {"w_asleep", "w_woken"} THEN "w_intr" ELSE "r_intr"]
    /\ UNCHANGED <<opt, dev, held, due, sd_flag, sched, qr, cpu, call>>

EintrWakes(pcs, s) ==
    Wakeup(Wakeup(pcs, s, "w_asleep", "w_woken"), s, "r_asleep", "r_woken")

(* strwaitq is interrupted: the flag is cleared for all, so all who sleep  *)
(* for the same event are woken.                                           *)
Eintr(p) ==
    LET s == call[p].s
        w == pc[p] = "w_intr"
        others(q) == IF w THEN pc[q] = "w_asleep" ELSE pc[q] = "r_asleep"
    IN  /\ cpu = NULL /\ qr = OFF /\ pc[p] \in {"w_intr", "r_intr"}
        /\ sd_flag' = [sd_flag EXCEPT ![s] = @ \ {IF w THEN "WSLEEP" ELSE "RSLEEP"}]
        /\ Leave(p, [q \in Proc |-> IF others(q) THEN EintrWakes(pc, s)[q] ELSE pc[q]])
        /\ UNCHANGED <<opt, dev, held, due, sched, qr>>

(* poll for POLLWRNORM: strpoll sees to it that the head will be enabled.  *)
Strpoll(p, s) ==
    /\ cpu = NULL /\ qr = OFF /\ pc[p] = "user" /\ ~Canput(dw[s])
    /\ dw' = [dw EXCEPT ![s] = Refused(@)]
    /\ pc' = [pc EXCEPT ![p] = "polling"]
    /\ call' = [call EXCEPT ![p].s = s]
    /\ UNCHANGED <<opt, dr, hr, dma, ttstop, held, due, sd_flag, sched, qr, cpu>>

Queuerun == QrScan \/ QrScanned \/ QrNext \/ QrDone \/ Strwsrv \/ QrClear \/ Iuosrv \/ Iuisrv

Process(p) ==
    \/ WriteFull(p) \/ WriteHeld(p) \/ WriteMake(p) \/ WriteHold(p) \/ WritePut(p)
    \/ WriteNext(p) \/ ReadNext(p)
    \/ \E s \in Stream : cpu = p /\ Strread(p, s)

Next ==
    \/ Kick \/ Queuerun \/ Strscan
    \/ \E s \in Stream : Iuxint(s) \/ Iuscan(s) \/ Elapse(s)
    \/ \E p \in Proc :
          \/ Process(p) \/ Dispatch(p) \/ Signal(p) \/ Eintr(p)
          \/ \E s \in Stream :
                \/ \E n \in opt[s].sizes : Write(p, s, n)
                \/ cpu = NULL /\ Strread(p, s)
                \/ Strpoll(p, s)
                \/ MStop(p, s) \/ MStart(p, s) \/ MFlush(p, s)

Spec == Init /\ [][Next]_vars

(***************************************************************************)
(* A process in the kernel and queuerun go on; time passes, the timer runs *)
(* out, the port sends; the processor is given to whoever is ready, and an *)
(* enabled queue does not wait for ever for a return to user mode.         *)
(***************************************************************************)
Fairness ==
    /\ WF_vars(Queuerun) /\ SF_vars(Kick) /\ WF_vars(Strscan)
    /\ \A s \in Stream : WF_vars(Iuxint(s)) /\ WF_vars(Elapse(s))
    /\ \A p \in Proc : WF_vars(Process(p)) /\ SF_vars(Dispatch(p)) /\ SF_vars(Eintr(p))

FairSpec == Spec /\ Fairness

-----------------------------------------------------------------------------
(* Types of the queues, the lists and the calls in progress. *)
TypeOK ==
    /\ opt \in [Stream -> Setting]
    /\ dw \in [Stream -> Queues] /\ dr \in [Stream -> Queues] /\ hr \in [Stream -> Queues]
    /\ held \in [Stream -> 0 .. BUF]
    /\ due \in [Stream -> BOOLEAN]
    /\ sd_flag \in [Stream -> SUBSET {"WSLEEP", "RSLEEP"}]
    /\ dma \in [Stream -> 0 .. BUF]
    /\ ttstop \in [Stream -> BOOLEAN]
    /\ run \in [qhead : Queue \cup {NULL}, qtail : Queue \cup {NULL},
                link : [Queue -> Queue \cup {NULL}], enab : SUBSET Queue]
    /\ back \subseteq Stream
    /\ scan \in [head : Queue \cup {NULL}, tail : Queue \cup {NULL}, hlist : SUBSET Stream]
    /\ qrunflag \in BOOLEAN /\ strscanflag \in BOOLEAN
    /\ qr \in {OFF, SCAN, NEXT} \cup Queue \cup (Stream \X {"clear"})
    /\ cpu \in Proc \cup {NULL}
    /\ pc \in [Proc -> {"user", "polling"} \cup
          {"w_canput", "w_asleep", "w_woken", "w_intr", "w_made", "w_put", "w_next"} \cup
          {"r_again", "r_asleep", "r_woken", "r_intr", "r_next"}]
    /\ call \in [Proc -> [s : Stream \cup {NULL}, resid : 0 .. BUF, m : 0 .. BUF]]

Walk(from, n) ==
    LET w[i \in 0 .. n] == IF i = 0 THEN from
                           ELSE IF w[i - 1] = NULL THEN NULL ELSE run.link[w[i - 1]]
    IN  [i \in 0 .. n |-> w[i]]

(* From head along q_link, every queue of S is met once, and tail last.    *)
Lists(head, tail, S) ==
    LET n == Cardinality(S)
        w == Walk(head, n)
    IN  /\ {w[i] : i \in 0 .. n - 1} = S
        /\ w[n] = NULL
        /\ tail = IF n = 0 THEN NULL ELSE w[n - 1]

(* The queues marked QENAB are those on the run list, and while there are  *)
(* any queuerun is at work or will be called: a queue that is marked but   *)
(* not on the list would never be served again (stream.c 1958).            *)
RunListSound ==
    /\ Lists(run.qhead, run.qtail, run.enab)
    /\ run.enab # {} => qrunflag \/ qr # OFF

(* A writer asleep in strwaitq is announced by WSLEEP, and strwsrv will    *)
(* come to it: it is enabled, or the queue is marked QWANTW, not yet below *)
(* the low water mark, and draining or suspended.                          *)
WriterNotForgotten ==
    \A p \in Proc : pc[p] = "w_asleep" =>
        LET s == call[p].s
        IN  /\ "WSLEEP" \in sd_flag[s]
            /\ \/ <<s, "hw">> \in run.enab \/ qr = <<s, "hw">>
               \/ /\ "QWANTW" \in dw[s].flag /\ Count(dw[s]) >= LOWAT
                  /\ dma[s] # 0 \/ ttstop[s]

(* A reader sleeps only while there is nothing to read, and is announced.  *)
ReaderNotForgotten ==
    \A p \in Proc : pc[p] = "r_asleep" =>
        LET s == call[p].s
        IN  "RSLEEP" \in sd_flag[s] /\ hr[s].msgs = <<>>

(* Input that waits in the driver will be taken on: its service procedure  *)
(* is enabled, or the head is full, marked QWANTW and will enable it when  *)
(* it is read.                                                             *)
InputMoves ==
    \A s \in Stream : dr[s].msgs # <<>> =>
        \/ <<s, "dr">> \in run.enab \/ qr = <<s, "dr">>
        \/ "QWANTW" \in hr[s].flag /\ Count(hr[s]) >= LOWAT

(* A held message is on the scan list, and somebody will look at it: the   *)
(* timer runs, or queuerun is called or at work.                           *)
HeldListed ==
    /\ Lists(scan.head, scan.tail, {<<s, "hw">> : s \in scan.hlist})
    /\ \A s \in Stream : held[s] # 0 => s \in scan.hlist
    /\ scan.hlist # {} => strscanflag \/ qrunflag \/ qr # OFF

(* Output waits only for the port: when nothing is being sent and output   *)
(* is not suspended the driver's queue is empty.                           *)
OutputMoves ==
    \A s \in Stream : dw[s].msgs # <<>> => dma[s] # 0 \/ ttstop[s]

(* Flow control bounds the driver's queue to one message over the high     *)
(* water mark, although queuerun puts held messages on it without asking.  *)
QueueBounded == \A s \in Stream : Count(dw[s]) < HIWAT + BUF

(* Both lists that queuerun works on are whole, and will be looked at.     *)
ListsSound == TypeOK /\ RunListSound /\ HeldListed

(* Nobody sleeps in strwaitq without having been promised a wakeup.        *)
NobodyForgotten == WriterNotForgotten /\ ReaderNotForgotten

(* Flow control holds back what would exceed the marks, and nothing else.  *)
DataMoves == InputMoves /\ OutputMoves /\ QueueBounded

(* A process in poll for POLLWRNORM will be told: strwsrv is enabled by    *)
(* back-enabling, or the queue is marked (streamio.c 4036: "ensure backq   *)
(* svc procedure runs").                                                   *)
PollerNotForgotten ==
    \A p \in Proc : pc[p] = "polling" =>
        LET s == call[p].s
        IN  \/ s \in back /\ (<<s, "hw">> \in run.enab \/ qr = <<s, "hw">>)
            \/ "QWANTW" \in dw[s].flag

\* The sum of a number per process.
Sum(e) ==
    LET ps == SetToSeq(Proc)
        sum[i \in 0 .. Cardinality(Proc)] == IF i = 0 THEN 0 ELSE sum[i - 1] + e[ps[i]]
    IN  sum[Cardinality(Proc)]

InHand(s) == Sum([p \in Proc |-> IF call[p].s = s THEN call[p].m ELSE 0])

(* Bytes taken from a writer and not yet handed to the port. *)
Pending(s) == held[s] + Count(dw[s]) + dma[s] + InHand(s)

(* What strwrite has accepted leaves by the port, or by a flush of the      *)
(* driver's queue, and in no other way: holding a message back, adding to  *)
(* it and sending it never lose another writer's.                          *)
NothingLost ==
    [][\A s \in Stream :
          \/ Pending(s)' >= Pending(s)
          \/ /\ UNCHANGED <<held, call>>
             /\ Pending(s)' = Pending(s) - dma[s] \/ dw'[s].msgs = <<>>]_vars

(* A message held "for a while" (streamio.c 1603) is sent when the while   *)
(* is over.                                                                *)
HeldSent == \A s \in Stream : (held[s] # 0 /\ due[s]) ~> (held[s] = 0 \/ ~due[s])

(* Whoever sleeps for room is woken, if output is not suspended for good.  *)
WriterServed ==
    (\A s \in Stream : []<>~ttstop[s]) =>
        \A p \in Proc : (pc[p] = "w_asleep") ~> (pc[p] # "w_asleep")
=============================================================================
