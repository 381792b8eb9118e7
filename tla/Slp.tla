--------------------------------- MODULE Slp ---------------------------------
(***************************************************************************)
(* Sleep and wakeup (os/slp.c), signals and job control (os/sig.c) and the *)
(* stop and run requests of /proc (fs/proc/prioctl.c, prvnops.c), around   *)
(* the dispatcher (disp/disp.c).                                           *)
(*                                                                         *)
(* A process keeps the CPU from one swtch() to the next; `cpu' is the      *)
(* process that has it.  sleep() runs at splhi, so nothing happens before  *)
(* its swtch(); the issig() of a return to user mode and the user program  *)
(* itself can be interrupted, and every turn of issig()'s loop is a step.  *)
(* The debugger is a process outside Proc, so it acts when no process of   *)
(* Proc has the CPU.  Swapping, ptrace() and vfork() are left out.         *)
(***************************************************************************)
EXTENDS Naturals, FiniteSets, SequencesExt

CONSTANTS
    Proc,        \* processes
    Chan,        \* sleep addresses
    KmChan,      \* &Km_OsizeWanted, on which kmem_alloc(KM_SLEEP) sleeps
    Hash,        \* sqhash(): the bucket of each channel
    Caught,      \* signals with a handler
    Ignored,     \* p_ignore
    Detached,    \* processes with SDETACHED: their process group is orphaned
    Sleeps,      \* the <<channel, priority>> pairs each process sleeps with
    Sent,        \* signals that may be sent to each process
    Traced,      \* p_sigmask of each process when the debugger sets it
    RunOptions,  \* sets of PIOCRUN options the debugger uses
    KMEMSHORT,   \* does kmem_alloc() sleep inside stop() too?
    NULL

VARIABLES
    proc,        \* the process table
    sleepq,      \* sleepq[b]: the processes linked into bucket b
    dispq,       \* processes on a dispatcher queue
    cpu          \* curproc, or NULL when the CPU idles or others run

vars == <<proc, sleepq, dispq, cpu>>

SIGKILL == "SIGKILL"
SIGCONT == "SIGCONT"
SIGTSTP == "SIGTSTP"   \* stands for the members of stopdefault with a terminal
SIGUSR  == "SIGUSR"    \* stands for the other signals

Sig == {SIGKILL, SIGCONT, SIGTSTP, SIGUSR}

stopdefault == {SIGTSTP}

Bucket == {Hash[c] : c \in Chan}

Disp == {"high", "catch", "nostop"}   \* <= PZERO; > PZERO; > PZERO with PNOSTOP

Why == {"PR_REQUESTED", "PR_SIGNALLED", "PR_JOBCONTROL"}   \* p_whystop

Flag == {"SNWAKE", "SNOSTOP", "SASLEEP", "SXSTART", "SPSTART", "SPRSTOP", "SRUNLCL"}

ASSUME ConstantsAssumption ==
    /\ KmChan \in Chan
    /\ Caught \subseteq Sig \ {SIGKILL} /\ Ignored \subseteq Sig \ (Caught \cup {SIGKILL})
    /\ Detached \subseteq Proc
    /\ \A p \in Proc : Sleeps[p] \subseteq (Chan \ {KmChan}) \X Disp
    /\ \A p \in Proc : Sent[p] \subseteq Sig /\ Traced[p] \subseteq Sig \ {SIGKILL}
    /\ RunOptions \subseteq SUBSET {"PRCSIG", "PRSABORT", "PRSTOP"}
    /\ KMEMSHORT \in BOOLEAN
    /\ NULL \notin Proc \cup Chan \cup Sig \cup Disp \cup Why

(***************************************************************************)
(* The state.  `pc' is where the process is in the kernel, `site' the call *)
(* of issig() it is in, `disp' the argument of its sleep() and `kret'      *)
(* where it returns from a sleep inside kmem_alloc().                      *)
(***************************************************************************)
NewProc(p) ==
    [stat |-> "SRUN", wchan |-> NULL, whystop |-> NULL,
     flag |-> {"SXSTART", "SPSTART"} \cup (IF Traced[p] = {} THEN {} ELSE {"SRUNLCL"}),
     sig |-> {}, cursig |-> NULL, hold |-> {}, sigmask |-> {}, sysabort |-> FALSE,
     pc |-> "user", site |-> "user", disp |-> NULL, kret |-> NULL]

Init ==
    /\ proc = [p \in Proc |-> NewProc(p)]
    /\ sleepq = [b \in Bucket |-> << >>]
    /\ dispq = Proc
    /\ cpu = NULL

(* What a step does to the record r of one process. *)
Drop(r, flags) == [r EXCEPT !.flag = @ \ flags]
Raise(r, flags) == [r EXCEPT !.flag = @ \cup flags]
Goto(r, pc, site) == [r EXCEPT !.pc = pc, !.site = site]

Put(p, r) == proc' = [proc EXCEPT ![p] = r]

(***************************************************************************)
(* The sleep queues (os/slp.c).                                            *)
(***************************************************************************)

(* The head of sleep(): link the process at the end of its bucket.  Its    *)
(* p_link is cleared, which cuts a queue it is already on.                 *)
Cut(q, p) == IF p \in ToSet(q) THEN SubSeq(q, 1, CHOOSE i \in DOMAIN q : q[i] = p) ELSE q

Linked(p, chan) ==
    [b \in Bucket |->
        LET q == Cut(sleepq[b], p)
        IN  IF b = Hash[chan] /\ p \notin ToSet(q) THEN Append(q, p) ELSE q]

Enqueued(r, chan) == [r EXCEPT !.stat = "SSLEEP", !.wchan = chan]

\* The sleep queues after unsleep().
Unlinked(p) ==
    LET chan == proc[p].wchan
    IN  IF chan = NULL THEN sleepq
        ELSE [sleepq EXCEPT ![Hash[chan]] = RemoveFirst(@, p)]

Unsleep(p, r) == Put(p, [r EXCEPT !.wchan = NULL]) /\ sleepq' = Unlinked(p) /\ UNCHANGED dispq

\* setrun() leaves alone who is on a dispatcher queue, and a stopped process
\* until both SIGCONT and /proc have let it go.
Refused(r) ==
    \/ r.stat = "SRUN"
    \/ r.stat = "SSTOP" /\ ~({"SXSTART", "SPSTART"} \subseteq r.flag)

\* setrun() of p, whose record its caller has made r.
Setrun(p, r) ==
    LET off == r.stat \in {"SSLEEP", "SSTOP"}
        t   == IF off THEN [r EXCEPT !.wchan = NULL] ELSE r
    IN  /\ sleepq' = IF off THEN Unlinked(p) ELSE sleepq
        /\ IF Refused(r) THEN Put(p, t) /\ UNCHANGED dispq
           ELSE Put(p, [t EXCEPT !.stat = "SRUN", !.whystop = NULL]) /\ dispq' = dispq \cup {p}

\* The queue q when the walk of wakeprocs() has unlinked the members of S.
Without(q, S) ==
    LET kept[i \in 0..Len(q)] ==
            IF i = 0 THEN << >>
            ELSE IF q[i] \in S THEN kept[i - 1] ELSE Append(kept[i - 1], q[i])
    IN  kept[Len(q)]

Woken(chan) == {p \in ToSet(sleepq[Hash[chan]]) : proc[p].wchan = chan}

(* Mutant: a stopped sleeper is put on a dispatcher queue as well.         *)
WakeprocsQueued(chan) ==
    /\ proc' = [p \in Proc |->
          IF p \notin Woken(chan) THEN proc[p]
          ELSE [proc[p] EXCEPT !.wchan = NULL, !.stat = IF @ = "SSLEEP" THEN "SRUN" ELSE @]]
    /\ sleepq' = [sleepq EXCEPT ![Hash[chan]] = Without(@, Woken(chan))]
    /\ dispq' = dispq \cup Woken(chan)

(* wakeup() walks one bucket.  A stopped process only leaves the queue.    *)
Wakeprocs(chan) ==
    LET run == {p \in Woken(chan) : proc[p].stat = "SSLEEP"}
    IN  /\ proc' = [p \in Proc |->
              IF p \notin Woken(chan) THEN proc[p]
              ELSE [proc[p] EXCEPT !.wchan = NULL, !.stat = IF p \in run THEN "SRUN" ELSE @]]
        /\ sleepq' = [sleepq EXCEPT ![Hash[chan]] = Without(@, Woken(chan))]
        /\ dispq' = dispq \cup run

(***************************************************************************)
(* Signals (os/sig.c).                                                     *)
(***************************************************************************)
Tracing(r, sig) == sig \in r.sigmask

CanStopAlways(r) == TRUE   \* Mutant: SIGKILL does not keep a process from stopping

CanStop(r) == r.cursig # SIGKILL /\ SIGKILL \notin r.sig

(* stop() of a process CanStop() allows.  A job control stop waits for     *)
(* SIGCONT, every other stop for /proc.                                    *)
Stop(r, why) ==
    [r EXCEPT !.stat = "SSTOP", !.whystop = why,
              !.flag = IF why = "PR_JOBCONTROL" THEN (@ \ {"SXSTART"}) \cup {"SPSTART"}
                       ELSE (@ \ {"SPSTART", "SPRSTOP"}) \cup {"SXSTART"}]

\* What posting a signal does to a process that does not run.
WakeOnSignal(p, r, sig) ==
    CASE r.stat = "SSLEEP" /\ "SNWAKE" \notin r.flag /\ sig \notin r.hold -> Setrun(p, r)
      [] r.stat = "SSTOP" /\ sig = SIGKILL -> Setrun(p, Raise(r, {"SXSTART", "SPSTART"}))
      [] r.stat = "SSTOP" /\ sig # SIGKILL /\ r.wchan # NULL /\ "SNWAKE" \notin r.flag ->
            Unsleep(p, r)
      [] OTHER -> Put(p, r) /\ UNCHANGED <<sleepq, dispq>>

\* SIGCONT and the stop signals cancel each other, ignored or not.
CancelStops(sig) ==
    CASE sig = SIGCONT -> stopdefault
      [] sig \in stopdefault -> {SIGCONT}
      [] OTHER -> {}

(* SIGCONT also ends a job control stop; the process is then off its sleep *)
(* queue, so that posting the signal changes nothing more.                 *)
Sigtoproc(p, sig) ==
    LET posted == Tracing(proc[p], sig) \/ sig \notin Ignored
        r == [proc[p] EXCEPT !.sig = (@ \ CancelStops(sig)) \cup (IF posted THEN {sig} ELSE {})]
    IN  CASE sig = SIGCONT /\ r.stat = "SSTOP" /\ r.whystop = "PR_JOBCONTROL" ->
                Setrun(p, Raise(r, {"SXSTART"}))
          [] ~(sig = SIGCONT /\ r.stat = "SSTOP" /\ r.whystop = "PR_JOBCONTROL") /\ posted ->
                WakeOnSignal(p, r, sig)
          [] OTHER -> Put(p, r) /\ UNCHANGED <<sleepq, dispq>>

\* fsig(): SIGKILL first, then the lowest number (NULL if there is none).
SigOrder == <<SIGKILL, SIGUSR, SIGTSTP, SIGCONT>>

Fsig(r) ==
    IF r.sig \subseteq r.hold THEN NULL
    ELSE SigOrder[SelectInSeq(SigOrder, LAMBDA g : g \in r.sig \ r.hold)]

(***************************************************************************)
(* issig(): one action per way through its loop.  The loop is entered from *)
(* sleep() before and after it gives up the CPU (sites sleep1 and sleep2)  *)
(* and on the way back to user mode (site user).                           *)
(***************************************************************************)
Running(p, pc) == cpu = p /\ proc[p].pc = pc

Run(p, r) == cpu' = p /\ Put(p, r)

Loop(p, r) == Run(p, [r EXCEPT !.pc = "issig"])

\* swtch(): a process that is SONPROC becomes SRUN, but is on no queue.
Swtch(p, r) == cpu' = NULL /\ Put(p, [r EXCEPT !.stat = IF @ = "SONPROC" THEN "SRUN" ELSE @])

JustLookingAsleep(r) == r.site # "user"   \* Mutant: no sleep looks FORREAL

JustLooking(r) == r.site # "user" /\ r.disp = "nostop"

\* out: in sleep(), which returns 0.
Out(r) == Goto([Drop(r, {"SNWAKE", "SNOSTOP", "SASLEEP"}) EXCEPT !.disp = NULL], "kernel", "user")

\* psig: in sleep().  The system call fails with EINTR and returns.
Interrupted(r) ==
    Goto([Drop(r, {"SNOSTOP", "SASLEEP"}) EXCEPT !.sysabort = FALSE, !.disp = NULL], "issig", "user")

\* issig() returns a signal.
SigFound(p) ==
    LET r == proc[p]
    IN  \/ /\ r.site = "user"
           /\ Run(p, Goto(r, "psig", "user")) /\ UNCHANGED sleepq
        \/ /\ r.site # "user" /\ r.stat = "SSLEEP"
           /\ Run(p, Interrupted([r EXCEPT !.wchan = NULL, !.stat = "SONPROC"]))
           /\ sleepq' = Unlinked(p)
        \/ /\ r.site # "user" /\ r.stat # "SSLEEP"
           /\ Run(p, Interrupted(r)) /\ UNCHANGED sleepq

(* Mutant: u_sysabort is tested before issig() only.                       *)
NoSigDeaf(p) ==
    LET r == proc[p]
    IN  /\ UNCHANGED sleepq
        /\ \/ r.site = "user" /\ Run(p, Goto(r, "user", "user"))
           \/ (r.site = "sleep2" \/ (r.site = "sleep1" /\ r.wchan = NULL)) /\ Run(p, Out(r))
           \/ /\ r.site = "sleep1" /\ r.wchan # NULL
              /\ Swtch(p, Goto(Drop(r, {"SASLEEP"}), "asleep", "sleep2"))

\* issig() returns 0: a sleeper still on its queue gives up the CPU.
NoSig(p) ==
    LET r == proc[p]
    IN  \/ r.site = "user" /\ Run(p, Goto(r, "user", "user")) /\ UNCHANGED sleepq
        \/ r.site # "user" /\ r.sysabort /\ SigFound(p)
        \/ /\ r.site # "user" /\ ~r.sysabort /\ r.wchan = NULL
           /\ Run(p, Out(r)) /\ UNCHANGED sleepq
        \/ /\ r.site # "user" /\ ~r.sysabort /\ r.wchan # NULL
           /\ Swtch(p, Goto(Drop(r, {"SASLEEP"}), "asleep", "sleep2")) /\ UNCHANGED sleepq

(* sigcld() posts SIGCLD to the parent; kmem_alloc() may sleep for the     *)
(* sigqueue entry.  Continue is what follows when it returns.              *)
Sigcld(p, r, kret, Continue) ==
    \/ Continue /\ UNCHANGED sleepq
    \/ /\ KMEMSHORT \/ (kret = "loop" /\ r.wchan = NULL)
       /\ Swtch(p, Raise([Enqueued(r, KmChan) EXCEPT !.kret = kret, !.pc = "kmem"], {"SNWAKE"}))
       /\ sleepq' = Linked(p, KmChan)

\* A stop /proc asked for comes before the current signal.
HonorStop(r) == ~JustLooking(r) /\ "SPRSTOP" \in r.flag /\ CanStop(r)

IssigRequested(p) ==
    /\ Running(p, "issig")
    /\ HonorStop(proc[p])
    /\ Swtch(p, [Stop(proc[p], "PR_REQUESTED") EXCEPT !.pc = "stopped"])
    /\ dispq' = dispq \ {p} /\ UNCHANGED sleepq

JobStopSignal(sig) == sig \in stopdefault \ Caught

(* isjobstop(), with the current signal withdrawn.                         *)
Isjobstop(p) ==
    LET r == [proc[p] EXCEPT !.cursig = NULL]
        t == [Stop(r, "PR_JOBCONTROL") EXCEPT !.pc = "jobstop"]
    IN  \/ /\ SIGCONT \in r.sig
           /\ Loop(p, [r EXCEPT !.sig = @ \ {SIGCONT}]) /\ UNCHANGED <<sleepq, dispq>>
        \/ /\ SIGCONT \notin r.sig /\ p \in Detached
           /\ Loop(p, r) /\ UNCHANGED <<sleepq, dispq>>
        \/ /\ SIGCONT \notin r.sig /\ p \notin Detached /\ ~CanStop(r)
           /\ Sigcld(p, r, "loop", Loop(p, r)) /\ UNCHANGED dispq
        \/ /\ SIGCONT \notin r.sig /\ p \notin Detached /\ CanStop(r)
           /\ Sigcld(p, t, "swtch", Swtch(p, t)) /\ dispq' = dispq \ {p}

IssigCurrent(p) ==
    LET r == proc[p]
    IN  /\ Running(p, "issig") /\ ~HonorStop(r) /\ r.cursig # NULL
        /\ \/ /\ JustLooking(r) \/ (r.cursig \notin Ignored /\ ~JobStopSignal(r.cursig))
              /\ SigFound(p) /\ UNCHANGED dispq
           \/ /\ ~JustLooking(r) /\ r.cursig \in Ignored
              /\ Loop(p, [r EXCEPT !.cursig = NULL]) /\ UNCHANGED <<sleepq, dispq>>
           \/ /\ ~JustLooking(r) /\ r.cursig \notin Ignored /\ JobStopSignal(r.cursig)
              /\ Isjobstop(p)

(* Promote a pending signal to current; a traced one stops the process.    *)
IssigPending(p) ==
    LET r   == proc[p]
        sig == Fsig(r)
        t   == [r EXCEPT !.sig = @ \ {sig}, !.cursig = sig]
        due == sig # NULL /\ (Tracing(r, sig) \/ sig \notin Ignored)
    IN  /\ Running(p, "issig") /\ ~HonorStop(r) /\ r.cursig = NULL
        /\ \/ sig = NULL /\ NoSig(p) /\ UNCHANGED dispq
           \/ /\ sig # NULL /\ ~due
              /\ Loop(p, [r EXCEPT !.sig = @ \ {sig}]) /\ UNCHANGED <<sleepq, dispq>>
           \/ due /\ JustLooking(r) /\ SigFound(p) /\ UNCHANGED dispq
           \/ /\ due /\ ~JustLooking(r) /\ Tracing(r, sig) /\ CanStop(t)
              /\ Swtch(p, [Stop(t, "PR_SIGNALLED") EXCEPT !.pc = "stopped"])
              /\ dispq' = dispq \ {p} /\ UNCHANGED sleepq
           \/ /\ due /\ ~JustLooking(r) /\ ~(Tracing(r, sig) /\ CanStop(t))
              /\ Loop(p, t) /\ UNCHANGED <<sleepq, dispq>>

Issig(p) == IssigRequested(p) \/ IssigCurrent(p) \/ IssigPending(p)

(* psig(): a pending SIGKILL overrides the current signal; a handler runs  *)
(* with the signal held; the default is exit().                            *)
Psig(p) ==
    LET r   == [proc[p] EXCEPT !.cursig = NULL]
        sig == IF SIGKILL \in proc[p].sig THEN SIGKILL ELSE proc[p].cursig
    IN  /\ Running(p, "psig") /\ UNCHANGED <<sleepq, dispq>>
        /\ \/ sig \in Caught /\ Run(p, [Goto(r, "user", "user") EXCEPT !.hold = @ \cup {sig}])
           \/ /\ sig \notin Caught
              /\ Swtch(p, [Goto(r, "dead", "user") EXCEPT !.stat = "SZOMB", !.sig = {}])

(***************************************************************************)
(* The dispatcher and the calls of a process.                              *)
(***************************************************************************)

\* pswtch() picks p, which goes on behind its last swtch().
Dispatch(p) ==
    LET r == [proc[p] EXCEPT !.stat = "SONPROC"]
        t == [Drop(r, {"SNWAKE", "SNOSTOP", "SASLEEP"}) EXCEPT !.kret = NULL]
    IN  /\ cpu = NULL /\ p \in dispq /\ dispq' = dispq \ {p}
        /\ \/ r.pc = "user" /\ Run(p, r) /\ UNCHANGED sleepq
           \/ r.pc = "stopped" /\ Loop(p, r) /\ UNCHANGED sleepq
           \/ r.pc = "jobstop" /\ Sigcld(p, r, "loop", Loop(p, r))
           \/ /\ r.pc = "kmem" /\ UNCHANGED sleepq
              /\ IF r.kret = "loop" THEN Loop(p, t) ELSE Swtch(p, [t EXCEPT !.pc = "jobstop"])
           \/ r.pc = "asleep" /\ r.disp = "high" /\ Run(p, Out(r)) /\ UNCHANGED sleepq
           \/ /\ r.pc = "asleep" /\ r.disp # "high" /\ r.sysabort
              /\ Run(p, Interrupted(r)) /\ UNCHANGED sleepq
           \/ /\ r.pc = "asleep" /\ r.disp # "high" /\ ~r.sysabort
              /\ Loop(p, Raise(r, {"SASLEEP"})) /\ UNCHANGED sleepq

\* preempt() of a process about to return to user mode.
Preempt(p) ==
    /\ Running(p, "user")
    /\ Swtch(p, proc[p]) /\ dispq' = dispq \cup {p} /\ UNCHANGED sleepq

(* sleep(): at high priority give up the CPU, else look for a signal first *)
Sleep(p, chan, disp) ==
    LET r == [Enqueued(proc[p], chan) EXCEPT !.disp = disp]
        t == [Drop(r, {"SNWAKE", "SNOSTOP"}) EXCEPT !.sysabort = FALSE]
        nostop == IF disp = "nostop" THEN {"SNOSTOP"} ELSE {}
    IN  /\ Running(p, "user") \/ Running(p, "kernel")
        /\ sleepq' = Linked(p, chan) /\ UNCHANGED dispq
        /\ \/ disp = "high" /\ Swtch(p, Goto(Raise(r, {"SNWAKE"}), "asleep", "sleep2"))
           \/ disp # "high" /\ Run(p, Goto(Raise(t, {"SASLEEP"} \cup nostop), "issig", "sleep1"))

\* The end of a system call, or of a trap from user mode.
ToUser(p) ==
    /\ Running(p, "user") \/ Running(p, "kernel")
    /\ Run(p, Goto(proc[p], "issig", "user")) /\ UNCHANGED <<sleepq, dispq>>

\* The handler returns: setcontext() restores p_hold.
HandlerReturn(p) ==
    /\ Running(p, "user") /\ proc[p].hold # {}
    /\ Run(p, Goto([proc[p] EXCEPT !.hold = {}], "issig", "user")) /\ UNCHANGED <<sleepq, dispq>>

(***************************************************************************)
(* Other processes and interrupts.                                         *)
(***************************************************************************)
Interruptible ==
    cpu # NULL => proc[cpu].site = "user" /\ proc[cpu].pc \in {"user", "kernel", "issig", "psig"}

Wakeup(chan) ==
    /\ Interruptible
    /\ \E p \in Proc : proc[p].wchan = chan
    /\ Wakeprocs(chan) /\ UNCHANGED cpu

Psignal(p, sig) ==
    /\ Interruptible /\ sig \in Sent[p] /\ proc[p].pc # "dead"
    /\ Sigtoproc(p, sig) /\ UNCHANGED cpu

(***************************************************************************)
(* The debugger.  All its requests but PIOCSTOP and PIOCWSTOP go through   *)
(* prlock(), which waits while the process sleeps unstoppably.             *)
(***************************************************************************)
Attached(p) == cpu = NULL /\ "SRUNLCL" \in proc[p].flag /\ proc[p].pc # "dead"

Prlock(p) == Attached(p) /\ proc[p].flag \cap {"SNWAKE", "SNOSTOP"} = {}

\* PIOCSTOP stops a sleeper where it is.
Stoppable(r) == r.stat = "SSLEEP" /\ r.flag \cap {"SNWAKE", "SNOSTOP"} = {} /\ CanStop(r)

Piocstop(p) ==
    LET r == proc[p]
    IN  /\ Attached(p) /\ UNCHANGED <<sleepq, cpu>>
        /\ \/ /\ Stoppable(r)
              /\ Put(p, Raise(Stop(r, "PR_REQUESTED"), {"SASLEEP"})) /\ dispq' = dispq \ {p}
           \/ /\ ~Stoppable(r) /\ (r.stat # "SSTOP" \/ "SPSTART" \in r.flag)
              /\ Put(p, Raise(r, {"SPRSTOP"})) /\ UNCHANGED dispq

ByProc(r) == r.stat = "SSTOP" /\ "SPSTART" \notin r.flag

\* PIOCRUN with the options of prsetrun().
Piocrun(p, opts) ==
    /\ Prlock(p) /\ ByProc(proc[p]) /\ UNCHANGED cpu
    /\ Setrun(p, [proc[p] EXCEPT
          !.cursig = IF "PRCSIG" \in opts /\ @ # SIGKILL THEN NULL ELSE @,
          !.sysabort = @ \/ "PRSABORT" \in opts,
          !.flag = @ \cup {"SPSTART"} \cup (IF "PRSTOP" \in opts THEN {"SPRSTOP"} ELSE {})])

Piocstrace(p, mask) ==
    /\ Prlock(p) /\ mask # proc[p].sigmask /\ UNCHANGED <<sleepq, dispq, cpu>>
    /\ Put(p, [proc[p] EXCEPT !.sigmask = mask])

(* Mutant: a sleeper is not told.                                          *)
PiocssigQuiet(p, sig) ==
    LET r == [proc[p] EXCEPT !.cursig = sig]
    IN  /\ Prlock(p) /\ proc[p].cursig # SIGKILL /\ UNCHANGED cpu
        /\ IF r.stat = "SSTOP" /\ sig = SIGKILL THEN Setrun(p, Raise(r, {"SXSTART", "SPSTART"}))
           ELSE Put(p, r) /\ UNCHANGED <<sleepq, dispq>>

Piocssig(p, sig) ==
    LET r == [proc[p] EXCEPT !.cursig = sig]
    IN  /\ Prlock(p) /\ proc[p].cursig # SIGKILL /\ UNCHANGED cpu
        /\ CASE sig # NULL /\ r.stat = "SSLEEP" -> Setrun(p, r)
             [] r.stat = "SSTOP" /\ sig = SIGKILL -> Setrun(p, Raise(r, {"SXSTART", "SPSTART"}))
             [] OTHER -> Put(p, r) /\ UNCHANGED <<sleepq, dispq>>

(* Mutant: the last close leaves a requested stop pending.                 *)
PrcloseAsked(p) ==
    LET r == [Drop(proc[p], {"SRUNLCL"}) EXCEPT !.sigmask = {}]
    IN  /\ Attached(p) /\ UNCHANGED cpu
        /\ IF ByProc(proc[p]) THEN Setrun(p, Raise(r, {"SPSTART"}))
           ELSE Put(p, r) /\ UNCHANGED <<sleepq, dispq>>

\* The last close of the /proc file: run-on-last-close.
Prclose(p) ==
    LET r == [Drop(proc[p], {"SPRSTOP", "SRUNLCL"}) EXCEPT !.sigmask = {}]
    IN  /\ Attached(p) /\ UNCHANGED cpu
        /\ IF ByProc(proc[p]) THEN Setrun(p, Raise(r, {"SPSTART"}))
           ELSE Put(p, r) /\ UNCHANGED <<sleepq, dispq>>

Debugger(p) ==
    \/ Piocstop(p)
    \/ \E opts \in RunOptions : Piocrun(p, opts)
    \/ \E mask \in {{}, Traced[p]} : Piocstrace(p, mask)
    \/ \E sig \in Sent[p] \cup {NULL} : Piocssig(p, sig)
    \/ Prclose(p)

Process(p) ==
    \/ Dispatch(p) \/ Issig(p) \/ Psig(p) \/ Preempt(p) \/ ToUser(p) \/ HandlerReturn(p)
    \/ \E c \in Sleeps[p] : Sleep(p, c[1], c[2])

Next ==
    \/ \E p \in Proc : Process(p) \/ Debugger(p) \/ \E sig \in Sent[p] : Psignal(p, sig)
    \/ \E chan \in Chan : Wakeup(chan)

Spec == Init /\ [][Next]_vars

(* A runnable process is dispatched again and again, a step of the running *)
(* process is taken, a user program traps (the clock interrupts it), a     *)
(* system call does not sleep at high priority for ever, and what such a   *)
(* sleep waits for (a disk, a lock, memory) comes.                         *)
WakeHigh(chan) ==
    /\ \E p \in Proc : proc[p].wchan = chan /\ "SNWAKE" \in proc[p].flag
    /\ Wakeup(chan)

Fairness ==
    /\ \A p \in Proc : SF_vars(Dispatch(p)) /\ SF_vars(ToUser(p))
                       /\ WF_vars(Issig(p)) /\ WF_vars(Psig(p))
    /\ \A chan \in Chan : SF_vars(WakeHigh(chan))

FairSpec == Spec /\ Fairness

(***************************************************************************)
(* Properties.                                                             *)
(***************************************************************************)

\* What an entry of the process table can hold.
ProcType ==
    [stat : {"SRUN", "SONPROC", "SSLEEP", "SSTOP", "SZOMB"}, wchan : Chan \cup {NULL},
     whystop : Why \cup {NULL},
     flag : SUBSET Flag, sig : SUBSET Sig, cursig : Sig \cup {NULL},
     hold : SUBSET Caught, sigmask : SUBSET Sig, sysabort : BOOLEAN,
     pc : {"user", "kernel", "issig", "psig", "stopped", "jobstop", "kmem", "asleep", "dead"},
     site : {"user", "sleep1", "sleep2"}, disp : Disp \cup {NULL}, kret : {"loop", "swtch", NULL}]

(* The fields of the process table, the queues and the CPU keep the values *)
(* struct proc, struct sleepq and curproc can hold.                        *)
TypeOK ==
    /\ proc \in [Proc -> ProcType]
    /\ sleepq \in [Bucket -> Seq(Proc)]
    /\ dispq \subseteq Proc
    /\ cpu \in Proc \cup {NULL}

(* The sleep queues and p_wchan agree whatever stops, signals and requests *)
(* come: a process is linked into the bucket of its channel, once, and     *)
(* nowhere else; who is linked is asleep or stopped (the ASSERT of         *)
(* wakeprocs()); a sleeper can be found by its wakeup.                     *)
QueueIntegrity ==
    /\ \A b \in Bucket :
          /\ Cardinality(ToSet(sleepq[b])) = Len(sleepq[b])
          /\ ToSet(sleepq[b]) = {p \in Proc : proc[p].wchan # NULL /\ Hash[proc[p].wchan] = b}
    /\ \A p \in Proc :
          /\ proc[p].wchan # NULL => proc[p].stat \in {"SSLEEP", "SSTOP"}
          /\ proc[p].stat = "SSLEEP" => proc[p].wchan # NULL

(* setrun() returns early for a process in state SRUN because it is        *)
(* "Already on dispatcher queue", so every such process must be on one:    *)
(* nothing else would ever run it.                                         *)
RunnableQueued == \A p \in Proc : proc[p].stat = "SRUN" <=> p \in dispq

(* A process that gave up the CPU in an interruptible sleep has nothing to *)
(* attend to: no current signal, no signal it may take, and, if it may     *)
(* stop, no stop request.  Whatever arrives after its last look wakes it.  *)
SignalNoticed ==
    \A p \in Proc :
        LET r == proc[p]
        IN  (r.pc = "asleep" /\ r.stat = "SSLEEP" /\ r.disp # "high") =>
                /\ r.cursig = NULL
                /\ \A sig \in r.sig \ r.hold : sig \in Ignored /\ ~Tracing(r, sig)
                /\ r.disp = "catch" => "SPRSTOP" \notin r.flag

(* SIGKILL, posted or made current by the debugger, is never held up by a  *)
(* stop of either kind.                                                    *)
KillRuns ==
    \A p \in Proc : proc[p].stat = "SSTOP" =>
        SIGKILL \notin proc[p].sig /\ proc[p].cursig # SIGKILL

(* A stopped process waits for exactly one of its two masters, the one     *)
(* that stopped it: SIGCONT for a job control stop, /proc for the others.  *)
StopOwned ==
    \A p \in Proc : proc[p].stat = "SSTOP" =>
        /\ proc[p].whystop # NULL
        /\ IF proc[p].whystop = "PR_JOBCONTROL"
           THEN proc[p].flag \cap {"SXSTART", "SPSTART"} = {"SPSTART"}
           ELSE proc[p].flag \cap {"SXSTART", "SPSTART"} = {"SXSTART"}

(* Once the debugger has closed the process, nothing of it is left: the    *)
(* process neither is nor will be stopped on its behalf.                   *)
ClosedRuns ==
    \A p \in Proc : "SRUNLCL" \notin proc[p].flag =>
        /\ proc[p].stat = "SSTOP" => proc[p].whystop = "PR_JOBCONTROL"
        /\ "SPRSTOP" \notin proc[p].flag

(* The process table and the queues of slp.c and disp.c agree. *)
TablesSound == TypeOK /\ QueueIntegrity /\ RunnableQueued

(* A stopped process has a reason to be stopped and somebody who may start *)
(* it again, which a closed debugger cannot be and SIGKILL overrides.      *)
StopsSound == StopOwned /\ ClosedRuns /\ KillRuns

(* "a signal cannot disturb the sleep": at high priority only the wakeup   *)
(* of its channel ends it, neither signals nor the debugger.               *)
Undisturbed ==
    [][\A p \in Proc :
         (proc[p].stat = "SSLEEP" /\ "SNWAKE" \in proc[p].flag /\ proc'[p].stat # "SSLEEP")
            => Wakeup(proc[p].wchan)]_vars

(* An abort the debugger asks for while the process is stopped in an       *)
(* interruptible sleep is not lost: the sleep does not return normally.    *)
AbortHeard ==
    [][\A p \in Proc :
         (proc[p].site # "user" /\ proc[p].disp # "high" /\ proc'[p].pc = "kernel")
            => ~proc[p].sysabort]_vars

(* Sleeps end as their priority says: undisturbed at high priority, and    *)
(* otherwise not as if nothing had happened when an abort was asked for.   *)
SleepEnds == Undisturbed /\ AbortHeard

(* A process that was sent SIGKILL exits, whatever the debugger, the other *)
(* signals and its sleeps do.                                              *)
Killed == \A p \in Proc : SIGKILL \in proc[p].sig ~> proc[p].pc = "dead"

(* A stop request is granted, and PIOCSTOP returns, unless the process     *)
(* dies, is let go, is held by job control or sits in a sleep where it     *)
(* must not stop.                                                          *)
StopHonored ==
    \A p \in Proc : "SPRSTOP" \in proc[p].flag ~>
        \/ "SPRSTOP" \notin proc[p].flag
        \/ proc[p].stat \in {"SSTOP", "SZOMB"}
        \/ "SNOSTOP" \in proc[p].flag
=============================================================================
