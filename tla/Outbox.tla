------------------------------- MODULE Outbox -------------------------------
(***************************************************************************)
(* What the message queue promises the rest of the relay, without its      *)
(* deque, its threads and its generations: messages are accepted one by    *)
(* one, each is transmitted in its turn and not before the delay since the *)
(* last one is over, again only after a connection error, and each gets    *)
(* one outcome.  MessageQueue implements this (ImplementsOutbox).          *)
(***************************************************************************)
EXTENDS Naturals, Sequences

CONSTANTS
    Msgs,    \* the messages
    Delay    \* the least time between two transmissions

VARIABLES
    order,   \* the accepted messages, first accepted first
    out,     \* out[m]: what became of m
    tx,      \* tx[m]: how often m was transmitted
    errs,    \* errs[m]: how often that met a connection error
    cool     \* time left until the next transmission may begin

vars == <<order, out, tx, errs, cool>>

Init ==
    /\ order = <<>>
    /\ out = [m \in Msgs |-> "pending"]
    /\ tx = [m \in Msgs |-> 0] /\ errs = [m \in Msgs |-> 0]
    /\ cool = 0

Accepted(m) == \E i \in DOMAIN order : order[i] = m
OnAir(m) == tx[m] > errs[m]

\* The first accepted message that has no outcome.
InTurn(m) ==
    \E i \in DOMAIN order : /\ order[i] = m /\ out[m] = "pending"
                            /\ \A j \in 1..i-1 : out[order[j]] # "pending"

Accept(m) ==
    /\ ~Accepted(m)
    /\ order' = Append(order, m)
    /\ UNCHANGED <<out, tx, errs, cool>>

Transmit(m) ==
    /\ InTurn(m) /\ ~OnAir(m) /\ cool = 0
    /\ tx' = [tx EXCEPT ![m] = @ + 1]
    /\ UNCHANGED <<order, out, errs, cool>>

\* A connection error: the message keeps its turn.
Fail(m) ==
    /\ InTurn(m) /\ OnAir(m)
    /\ errs' = [errs EXCEPT ![m] = @ + 1]
    /\ UNCHANGED <<order, out, tx, cool>>

\* The transmission is over, its books are not closed yet.
Return(m) ==
    /\ InTurn(m) /\ OnAir(m)
    /\ cool' = Delay
    /\ UNCHANGED <<order, out, tx, errs>>

\* Sent, or answered with nothing: only what is on the air.  Given up by a full queue:
\* only what is not.  Given up for an error or by a shutdown: either.
Settle(m, o) ==
    /\ InTurn(m)
    /\ o \in {"sent", "nil"} => OnAir(m)
    /\ o = "full" => ~OnAir(m)
    /\ out' = [out EXCEPT ![m] = o]
    /\ cool' \in {cool, Delay}
    /\ UNCHANGED <<order, tx, errs>>

Tick ==
    /\ cool > 0 /\ cool' = cool - 1
    /\ UNCHANGED <<order, out, tx, errs>>

Next ==
    \/ \E m \in Msgs : \/ Accept(m) \/ Transmit(m) \/ Fail(m) \/ Return(m)
                       \/ \E o \in {"sent", "nil", "failed", "full", "shutdown"} : Settle(m, o)
    \/ Tick

Spec == Init /\ [][Next]_vars
=============================================================================
