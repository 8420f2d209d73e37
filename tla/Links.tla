------------------------------- MODULE Links -------------------------------
(***************************************************************************)
(* A router (src/internal/router/router.go) and one of the things it hands *)
(* packets to while they are added, removed and closed: a transport of     *)
(* either kind, or the netstack.  Around a transport: the goroutine that   *)
(* reads from it and the goroutines that look it up and write to it, while *)
(* it is taken out of the table, put back and closed, and the context is   *)
(* cancelled.  What the router decides about a packet is Forwarding's      *)
(* subject.                                                                *)
(***************************************************************************)
EXTENDS Integers, Sequences

CONSTANTS Writer,      \* goroutines that hand packets over
          Cap, SockCap, NoPacket,
          MaxPackets   \* bound on the packets that come in and go out
CONSTANTS Name, Prefix, Supported, Host, Covers(_), PeerPrefix, MaxNIC, None

ASSUME CapAssumption == Cap \in Nat \ {0} /\ SockCap \in Nat \ {0}
ASSUME BoundAssumption == MaxPackets \in Nat /\ MaxNIC \in Nat
ASSUME NameAssumption == Supported \subseteq Prefix /\ None \notin Name \cup Prefix \cup Host

VARIABLES inbound, outbound, reader, closed, closes, loop, held, recv, dev,
          closing, writing, given, taken
VARIABLES sock, conn, closeCh, uloop, uheld, ureader, arrived
VARIABLES nics, nicNames, nicByAddr, nextNICID, stack, routes, way, shared, disturbed
VARIABLES kind,      \* "wg", "udp" or "stack"
          present,   \* it is in Router.transports
          ctx,       \* the context is cancelled
          rd,        \* where the reader goroutine of the transport is
          wr,        \* where each writer is
          written    \* ghost: how many packets each writer has had for it

Wg == INSTANCE WgTransport WITH MaxGiven <- MaxPackets
Udp == INSTANCE UDPTransport WITH MaxDatagrams <- MaxPackets
Stack == INSTANCE Netstack WITH Deliverer <- Writer

ASSUME PacketAssumption == NoPacket \notin Wg!Packet \cup Udp!Packet

wgvars == <<inbound, outbound, reader, closed, closes, loop, held, recv, dev,
            closing, writing, given, taken>>
udpvars == <<sock, conn, closeCh, uloop, uheld, ureader, arrived>>
stackvars == <<nics, nicNames, nicByAddr, nextNICID, stack, routes, way, shared, disturbed>>
links == <<wgvars, udpvars, stackvars>>
router == <<kind, present, ctx, rd, wr, written>>
vars == <<links, router>>

\* Run takes the names of the transports there are and starts a reader for each;
\* a transport that comes later has none.
Init == /\ Wg!Init /\ Udp!Init /\ Stack!Init
        /\ kind \in {"wg", "udp", "stack"}
        /\ present \in BOOLEAN /\ ctx = FALSE
        /\ kind = "stack" => ~present
        /\ rd = IF present THEN "start" ELSE "none"
        /\ wr = [w \in Writer |-> "idle"]
        /\ written = [w \in Writer |-> 0]

-----------------------------------------------------------------------------
(* The table of transports and the context.                                *)

AddTransport == /\ ~present /\ present' = TRUE
                /\ UNCHANGED <<links, kind, ctx, rd, wr, written>>

RemoveTransport == /\ present /\ present' = FALSE
                   /\ UNCHANGED <<links, kind, ctx, rd, wr, written>>

Cancel == /\ ~ctx /\ ctx' = TRUE
          /\ UNCHANGED <<links, kind, present, rd, wr, written>>

-----------------------------------------------------------------------------
(* runTransportReader.                                                     *)

Reads(from, to) == /\ rd = from /\ rd' = to
                   /\ UNCHANGED <<kind, present, ctx, wr, written>>

\* The reader looks its name up again: the transport may have been removed.
ReaderStart == Reads("start", IF present THEN "take" ELSE "ended") /\ UNCHANGED links

ReaderStops == ctx /\ Reads("take", "ended") /\ UNCHANGED links

Takes == /\ Reads("take", "handle")
         /\ \/ kind = "wg" /\ Wg!Take /\ UNCHANGED <<udpvars, stackvars>>
            \/ kind = "udp" /\ Udp!Take /\ UNCHANGED <<wgvars, stackvars>>

\* handlePacket is done with it; that it comes back is what CallsReturn says.
Handled == Reads("handle", "take") /\ UNCHANGED links

-----------------------------------------------------------------------------
(* handlePacket of another reader, with a packet for this transport.       *)

Writes(w, from, to) == /\ wr[w] = from /\ wr' = [wr EXCEPT ![w] = to]
                       /\ UNCHANGED <<kind, present, ctx, rd>>
Pkt(w) == [from |-> w, num |-> written[w]]

\* The transport is taken from the table; the call of Write comes after RUnlock.
Finds(w) == /\ present /\ Writes(w, "idle", "found")
            /\ written' = [written EXCEPT ![w] = @ + 1]
            /\ UNCHANGED links

\* UDPTransport.Write: the first peer that the socket can send to gets the packet;
\* without a peer, without a label or on a closed socket it is gone.  It returns
\* nil all the same, and at once.
WriteUDP(w) == kind = "udp" /\ Writes(w, "found", "idle") /\ UNCHANGED <<links, written>>

WriteWg(w) == /\ kind = "wg" /\ Writes(w, "found", "blocked")
              /\ Wg!WriteCall(w, Pkt(w)) /\ UNCHANGED <<udpvars, stackvars, written>>

WgReturns(w) == /\ Writes(w, "blocked", "idle")
                /\ Wg!WriteStep(w) /\ UNCHANGED <<udpvars, stackvars, written>>

Reader == ReaderStart \/ ReaderStops \/ Takes \/ Handled
WriterStep(w) == WriteUDP(w) \/ WriteWg(w) \/ WgReturns(w)

Router == /\ kind # "stack"
          /\ \/ AddTransport \/ RemoveTransport \/ Cancel \/ Reader
             \/ \E w \in Writer : Finds(w) \/ WriterStep(w)

WgAlone(A) == kind = "wg" /\ A /\ UNCHANGED <<udpvars, stackvars, router>>
StackAlone(A) == kind = "stack" /\ A /\ UNCHANGED <<wgvars, udpvars, router>>
UdpAlone(A) == kind = "udp" /\ A /\ UNCHANGED <<wgvars, stackvars, router>>

\* How many packets there have been.  The bound leaves a writer a packet for every
\* packet that comes in.
Bounded == \A w \in Writer : given + arrived + written[w] <= MaxPackets

Next == /\ Router \/ WgAlone(Wg!Own) \/ UdpAlone(Udp!Own) \/ StackAlone(Stack!Next)
        /\ Bounded'

Spec == Init /\ [][Next]_vars

\* Every goroutine runs when it can.  readLoop's select chooses at random between
\* its ready cases, so it comes to see closed.  Nothing is assumed of those who
\* add, remove, cancel, send or call Close, except that a call goes on.
FairSpec == /\ Spec
            /\ WF_vars(Reader)
            /\ \A w \in Writer : WF_vars(WriterStep(w))
            /\ WF_vars(WgAlone(Wg!LoopStep))
            /\ SF_vars(WgAlone(Wg!LoopEnd))
            /\ WF_vars(WgAlone(Wg!RecvStep))
            /\ WF_vars(WgAlone(Wg!DevStep))
            /\ \A c \in Wg!Closer : WF_vars(WgAlone(Wg!CloseStep(c)))
            /\ WF_vars(UdpAlone(Udp!LoopStep \/ Udp!CloseConn))

-----------------------------------------------------------------------------
(* Properties.                                                             *)

\* The shape of the state.
TypeOK == /\ Wg!TypeOK /\ Udp!TypeOK /\ Stack!TypeOK
          /\ kind \in {"wg", "udp", "stack"} /\ present \in BOOLEAN /\ ctx \in BOOLEAN
          /\ rd \in {"none", "start", "take", "handle", "ended"}
          /\ wr \in [Writer -> {"idle", "found", "blocked"}] /\ written \in [Writer -> Nat]
          /\ \A w \in Writer : writing[w] # NoPacket <=> wr[w] = "blocked"

\* Either transport does what the router relies on.  Packets come out of Read as they
\* came in, none of them lost, doubled or overtaken between MemTUN's Write and the
\* reader channel, and over UDP only lost; a packet of Transport.Write goes to the
\* device once, and is refused only after Close; whatever of the link is
\* closed meanwhile.
Num(packets) == [k \in DOMAIN packets |-> packets[k].num]
Written == [from : Writer, num : 0..MaxPackets]
WgPromise == INSTANCE Transport WITH Packet <- Written, Lossy <- FALSE,
                 in <- Num(Wg!Pipeline), came <- given, out <- outbound, busy <- writing
UdpPromise == INSTANCE Transport WITH Packet <- Written, Lossy <- TRUE,
                  in <- Num(Udp!Pipeline), came <- arrived, out <- <<>>,
                  busy <- [w \in Writer |-> NoPacket], closed <- closeCh
ImplementsTransport == WgPromise!Spec /\ UdpPromise!Spec

\* The device closes itself when its Read fails, while the application's Close may
\* be under way; together they close the channel at most once (twice is a panic).
ClosedOnce == closes <= 1

\* A read error is never followed by another read: closeCh is closed before the
\* socket, so readLoop does not spin on the errors of a closed socket.
NoErrorLoop == [][uloop = "read" /\ ~conn => uloop' # "check"]_vars

\* The manager's maps and the stack tell of the same NICs: see Netstack.
TablesAgree == Stack!TablesAgree

\* A packet for a local address gets into a NIC that covers it unless a NIC is
\* removed meanwhile or a prefix is shared: see Netstack.
LocalPacketsArrive == [][\A w \in Writer : Stack!Lost(w) => shared \/ disturbed[w]]_vars

\* Every call comes back.  Close does, although the device waits for a receiver that
\* may stand before a full channel nobody empties any more; and so does the Write of
\* a router goroutine that found the transport in the table, also when the transport
\* was removed and closed in between, or its channel is full.
CallsReturn == /\ closing["app"] # "no" ~> closing["app"] = "done"
               /\ \A w \in Writer : wr[w] # "idle" ~> wr[w] = "idle"

\* After Close the readLoops end, unless the reader goroutine that would take
\* their last packet does not run (it never started, or the context is cancelled).
LoopsEnd == /\ (closed /\ loop # "off") ~> (loop = "ended" \/ rd \in {"none", "ended"})
            /\ closeCh ~> (uloop = "ended" \/ rd \in {"none", "ended"})
=============================================================================
