----------------------------- MODULE TaskQueue -----------------------------
(***************************************************************************)
(* What an EventLoop promises to the threads that hand it callbacks,       *)
(* whatever its wakeup descriptor, its flags and its two vectors do: a     *)
(* callback given to queueinLoop runs at most once, in the order in which  *)
(* the calls took the lock; one that runinLoop finds on the loop's own     *)
(* thread runs at once, outside that order.                                *)
(***************************************************************************)
EXTENDS Sequences, SequencesExt

CONSTANT Tasks      \* the callbacks ever handed over, one per call

VARIABLES
    queue,          \* accepted and not yet started, oldest first
    ran,            \* taken from the queue and started, in order
    inline          \* run at once by runinLoop

vars == <<queue, ran, inline>>

TypeOK ==
    /\ queue \in Seq(Tasks)
    /\ ran \in Seq(Tasks)
    /\ inline \subseteq Tasks

Handed == ToSet(queue) \cup ToSet(ran) \cup inline

Init ==
    /\ queue = <<>>
    /\ ran = <<>>
    /\ inline = {}

Submit(t) ==
    /\ t \notin Handed
    /\ queue' = Append(queue, t)
    /\ UNCHANGED <<ran, inline>>

RunNow(t) ==
    /\ t \notin Handed
    /\ inline' = inline \cup {t}
    /\ UNCHANGED <<queue, ran>>

RunNext ==
    /\ queue # <<>>
    /\ ran' = Append(ran, Head(queue))
    /\ queue' = Tail(queue)
    /\ UNCHANGED inline

Next ==
    \/ \E t \in Tasks : Submit(t) \/ RunNow(t)
    \/ RunNext

Spec == Init /\ [][Next]_vars
=============================================================================
