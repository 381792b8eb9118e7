--------------------------------- MODULE Ipc ---------------------------------
(***************************************************************************)
(* os/ipc.c and the identifiers the IPC facilities build on it.  A table   *)
(* of facility structures is indexed by 0 .. cnt-1; each entry has the     *)
(* fields alloc (mode & IPC_ALLOC), key and seq of its ipc_perm.           *)
(*                                                                         *)
(* Permission bits are left out: a call refused by ipcaccess, or by the    *)
(* uid tests of the control commands, changes nothing.                     *)
(***************************************************************************)
EXTENDS Integers

CONSTANTS IntMax,       \* the largest int: where an identifier would overflow
          IPC_PRIVATE   \* the key that never matches an existing entry

(* An identifier is seq * cnt + index; the entry it names: *)
Index(id, cnt) == id % cnt

(* semconv and the head of msgconv: the entry is in use and has the       *)
(* sequence number the identifier was made with.                           *)
Valid(tbl, id, cnt) ==
    tbl[Index(id, cnt)].alloc /\ tbl[Index(id, cnt)].seq = id \div cnt

IdOf(tbl, x, cnt) == tbl[x].seq * cnt + x

(* The sequence number IPC_RMID leaves behind: ids stay non-negative.     *)
NextSeq(id, seq, cnt) == IF id + cnt > IntMax THEN 0 ELSE seq + 1

(***************************************************************************)
(* ipcget: the entry with the key, or the first unused one.                *)
(***************************************************************************)
HasKey(tbl, key, cnt) ==
    {x \in 0 .. cnt - 1 : key # IPC_PRIVATE /\ tbl[x].alloc /\ tbl[x].key = key}

Unused(tbl, cnt) == {x \in 0 .. cnt - 1 : ~tbl[x].alloc}

(* ipcget finds x in the table (status 0). *)
Finds(tbl, key, creat, excl, cnt, x) ==
    x \in HasKey(tbl, key, cnt) /\ ~(creat /\ excl)

(* ipcget creates the entry x (status 1); otherwise it fails.              *)
Creates(tbl, key, creat, cnt, x) ==
    /\ HasKey(tbl, key, cnt) = {}
    /\ key = IPC_PRIVATE \/ creat
    /\ x \in Unused(tbl, cnt)
    /\ \A y \in Unused(tbl, cnt) : x <= y
=============================================================================
