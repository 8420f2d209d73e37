----------------------------- MODULE Transport -----------------------------
(***************************************************************************)
(* What the router relies on in a transport, of either kind: the interface *)
(* of src/internal/transport/transport.go.  Packets come out of Read in    *)
(* the order they came in; Write hands a packet over once, or waits, or    *)
(* refuses it, which it may do only after Close; Close stops nothing that  *)
(* is on its way.  A lossy transport may also lose what comes in, but      *)
(* neither exchanges nor repeats anything.                                 *)
(***************************************************************************)
EXTENDS Integers, Sequences

CONSTANTS Writer,    \* the goroutines that call Write
          Packet,    \* what they write
          NoPacket,
          Lossy      \* packets that come in may be lost

VARIABLES in,     \* on their way to Read: the how-manieth that came each one is
          came,   \* how many came
          out,    \* accepted by Write and on their way to the far end
          busy,   \* the packet of each Write in progress, or NoPacket
          closed  \* Close was called

vars == <<in, came, out, busy, closed>>

Init == /\ in = <<>> /\ came = 0 /\ out = <<>>
        /\ busy = [w \in Writer |-> NoPacket]
        /\ closed = FALSE

-----------------------------------------------------------------------------
Arrive == /\ came' = came + 1
          /\ in' = Append(in, came + 1)
          /\ UNCHANGED <<out, busy, closed>>

\* A packet is lost before the transport has it ...
Miss == /\ Lossy /\ came' = came + 1
        /\ UNCHANGED <<in, out, busy, closed>>

\* ... or some that follow each other, after.
Lose == /\ Lossy
        /\ \E k \in 0..Len(in) : \E m \in (k + 1)..(Len(in) + 1) :
              in' = SubSeq(in, 1, k) \o SubSeq(in, m, Len(in))
        /\ UNCHANGED <<came, out, busy, closed>>

Read == /\ in # <<>>
        /\ in' = Tail(in)
        /\ UNCHANGED <<came, out, busy, closed>>

Write(w) == /\ busy[w] = NoPacket
            /\ \E p \in Packet : busy' = [busy EXCEPT ![w] = p]
            /\ UNCHANGED <<in, came, out, closed>>

Accept(w) == /\ busy[w] # NoPacket
             /\ out' = Append(out, busy[w])
             /\ busy' = [busy EXCEPT ![w] = NoPacket]
             /\ UNCHANGED <<in, came, closed>>

Refuse(w) == /\ busy[w] # NoPacket /\ closed
             /\ busy' = [busy EXCEPT ![w] = NoPacket]
             /\ UNCHANGED <<in, came, out, closed>>

\* The far end gets a packet.
Deliver == /\ out # <<>>
           /\ out' = Tail(out)
           /\ UNCHANGED <<in, came, busy, closed>>

Close == /\ ~closed /\ closed' = TRUE
         /\ UNCHANGED <<in, came, out, busy>>

Next == \/ Arrive \/ Miss \/ Lose \/ Read \/ Deliver \/ Close
        \/ \E w \in Writer : Write(w) \/ Accept(w) \/ Refuse(w)

Spec == Init /\ [][Next]_vars
=============================================================================
