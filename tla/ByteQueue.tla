----------------------------- MODULE ByteQueue -----------------------------
(***************************************************************************)
(* What a Buffer promises, whatever it moves or allocates: bytes come out  *)
(* in the order in which they went in, none lost and none repeated.  The   *)
(* bytes are numbered by their arrival: 1, 2, 3, ...                       *)
(***************************************************************************)
EXTENDS Naturals

VARIABLES
    put,        \* bytes put in so far
    got,        \* bytes taken out so far
    result      \* the bytes the last operation gave to its caller

vars == <<put, got, result>>

TypeOK ==
    /\ put \in Nat
    /\ got \in 0 .. put

Init ==
    /\ put = 0
    /\ got = 0
    /\ result = <<>>

Put ==
    /\ put' \in Nat
    /\ put' >= put
    /\ result' = <<>>
    /\ UNCHANGED got

\* The caller is given the bytes, or only drops them.
Take ==
    /\ got' \in got .. put
    /\ result' \in {<<>>, [i \in 1 .. got' - got |-> got + i]}
    /\ UNCHANGED put

Next == Put \/ Take

Spec == Init /\ [][Next]_vars
=============================================================================
