--------------------------- MODULE ConnectionLife ---------------------------
(***************************************************************************)
(* What the user of a Server is promised about each connection, whatever   *)
(* the loops, the sockets and the reference counts do: one call of the     *)
(* connection callback that finds it connected, then messages, then one    *)
(* call that finds it disconnected, and only then is the object freed.     *)
(* When the program stops, the object may be freed at any of these points. *)
(***************************************************************************)
EXTENDS Naturals

CONSTANTS
    Conns,          \* the connections ever accepted
    Messages        \* messages a peer sends on one connection

VARIABLES
    life,           \* of each connection: "new", "up", "down" or "gone"
    delivered,      \* how many of its messages the user has been given
    stopped         \* the base loop has returned

vars == <<life, delivered, stopped>>

TypeOK ==
    /\ life \in [Conns -> {"new", "up", "down", "gone"}]
    /\ delivered \in [Conns -> 0 .. Messages]
    /\ stopped \in BOOLEAN

Init ==
    /\ life = [c \in Conns |-> "new"]
    /\ delivered = [c \in Conns |-> 0]
    /\ stopped = FALSE

move(c, from, to) ==
    /\ life[c] = from
    /\ life' = [life EXCEPT ![c] = to]
    /\ UNCHANGED <<delivered, stopped>>

\* The connection callback runs and isConnect() is true.
Up(c) == move(c, "new", "up")

\* One call of the message callback may deliver several messages at once.
Message(c) ==
    /\ life[c] = "up"
    /\ \E n \in delivered[c] + 1 .. Messages :
          delivered' = [delivered EXCEPT ![c] = n]
    /\ UNCHANGED <<life, stopped>>

\* The connection callback runs and isConnect() is false.
Down(c) == move(c, "up", "down")

\* ~Connection, and with it the close of the descriptor.  One step may free
\* several connections: a vector of functors that owns them goes as a whole.
FreeSome ==
    \E G \in SUBSET {c \in Conns : stopped \/ life[c] = "down"} :
        /\ life' = [c \in Conns |-> IF c \in G THEN "gone" ELSE life[c]]
        /\ UNCHANGED <<delivered, stopped>>

Stop ==
    /\ stopped' = TRUE
    /\ UNCHANGED <<life, delivered>>

Next ==
    \/ \E c \in Conns : Up(c) \/ Message(c) \/ Down(c)
    \/ FreeSome
    \/ Stop

Spec == Init /\ [][Next]_vars
=============================================================================
