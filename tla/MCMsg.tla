-------------------------------- MODULE MCMsg --------------------------------
(* Instances of Msg for TLC. *)
EXTENDS Msg, TLC

C(c, t, n, w, e) == [cmd |-> c, type |-> t, size |-> n, nowait |-> w, trunc |-> e]
Send(t, n)  == C("snd", t, n, FALSE, FALSE)
Recv(t, n)  == C("rcv", t, n, FALSE, FALSE)
Rmid       == C("rmid", 0, 0, FALSE, FALSE)
Set(n)     == C("set", 0, n, FALSE, FALSE)

(* Every kind of call once, on one queue. *)
AllCalls == {Send(1, 1), Send(2, 0), C("snd", 1, 2, TRUE, FALSE), Recv(0, 2), Recv(-2, 1),
             C("rcv", 2, 1, TRUE, TRUE), Rmid, Set(1), C("stat", 0, 0, FALSE, FALSE)}

(* Calls that compete for headers and segments. *)
PoolCalls == {Send(1, 1), Send(1, 2), Recv(0, 2)}

(* A limit that is raised while a writer waits. *)
RaiseCalls == {Send(1, 1), Set(2)}

Symm == Permutations(Proc)
=============================================================================
