------------------------------- MODULE MCFlock -------------------------------
(* Instances of Flock for TLC. *)
EXTENDS Flock, TLC

Req(t, w, a, n, cmd) == [type |-> t, whence |-> w, start |-> a, len |-> n, cmd |-> cmd]

SETLK   == {"SETFLCK"}
SETLKW  == {"SETFLCK", "SLPFLCK"}
CHKLOCK == {"SLPFLCK"}

(* Every range of the file, and the other ways to give one. *)
AllRequests ==
    {Req(t, 0, a, n, SETLK) : t \in {F_RDLCK, F_WRLCK, F_UNLCK},
                              a \in 0 .. MAXEND, n \in 0 .. MAXEND}
    \cup {Req(F_WRLCK, 1, -1, 1, SETLK),
          Req(F_RDLCK, 1, -2, 2, SETLK), Req(F_UNLCK, 2, -1, 0, SETLK),
          Req(F_RDLCK, 0, 1, -1, SETLK)}

(* Locks that overlap at both ends, contain one another and are upgraded;  *)
(* a write under mandatory locking.                                        *)
WaitRequests ==
    {Req(F_WRLCK, 0, 1, 0, SETLKW), Req(F_WRLCK, 0, 2, 1, SETLKW),
     Req(F_RDLCK, 0, 0, 2, SETLKW), Req(F_WRLCK, 0, 1, 1, CHKLOCK)}

Symm == Permutations(Proc \ Remote)
=============================================================================
