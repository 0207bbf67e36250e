---------------------------- MODULE OutboundLog ----------------------------
(***************************************************************************)
(* What the proxy's write-ahead log promises, as wal.go's package comment  *)
(* and the comment of runUsageStreamManager state it: durable,             *)
(* at-least-once delivery in log order.  No file, checkpoint, batch or     *)
(* crash appears here.                                                     *)
(***************************************************************************)
EXTENDS Naturals, Sequences

CONSTANT Message

VARIABLES
    promised,   \* the messages the log has accepted, in order
    received    \* the messages the control plane has stored

logVars == <<promised, received>>

Init == promised = <<>> /\ received = {}

\* The log takes responsibility for one more message.
Accept(m) ==
    /\ promised' = Append(promised, m)
    /\ UNCHANGED received

\* The control plane stores what is left of the first n messages.
Receive(n) ==
    /\ n \in 1 .. Len(promised)
    /\ received' = received \cup {promised[k] : k \in 1 .. n}
    /\ UNCHANGED promised

Next ==
    \/ \E m \in Message : Accept(m)
    \/ \E n \in 1 .. Len(promised) : Receive(n)

Spec == Init /\ [][Next]_logVars

\* Delivery never stops short: some undelivered message is received at last.
FairSpec == Spec /\ WF_logVars(\E n \in 1 .. Len(promised) : Receive(n))
=============================================================================
