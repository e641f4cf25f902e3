------------------------------ MODULE MCServer ------------------------------
(***************************************************************************)
(* Instances of Server for TLC: the loops, and the scripts callbacks run.  *)
(***************************************************************************)
EXTENDS Server

CONSTANTS io1, io2

OneIoLoop == <<io1>>
TwoIoLoops == <<io1, io2>>

Quiet == {<<>>}
Echo == {<<>>, <<"send">>}
EchoAndClose == {<<>>, <<"send", "shutdown">>}
=============================================================================
