-------------------------------- MODULE MCSlp --------------------------------
(* Instances of Slp for TLC: p1 is under a debugger and gets every signal, *)
(* p2 shares a bucket with it and is in an orphaned process group.         *)
EXTENDS Slp

CONSTANTS p1, p2, c1, c2, km

Hash1    == (c1 :> 1) @@ (c2 :> 1) @@ (km :> 2)
Sleeps1  == (p1 :> {c1} \X Disp) @@ (p2 :> {<<c1, "high">>, <<c2, "catch">>})
Sent1    == (p1 :> Sig) @@ (p2 :> {SIGTSTP})
Traced1  == (p1 :> {SIGTSTP, SIGCONT}) @@ (p2 :> {})
Untraced == (p1 :> {})
Options1 == {{}, {"PRCSIG"}, {"PRSABORT"}, {"PRSTOP"}}
=============================================================================
