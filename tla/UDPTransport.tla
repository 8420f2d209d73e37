---------------------------- MODULE UDPTransport ----------------------------
(***************************************************************************)
(* mpls.UDPTransport (src/internal/mpls/transport.go): readLoop takes      *)
(* datagrams from the socket and hands them on; Close closes closeCh and   *)
(* then the socket.  Write keeps no state: see Links.                      *)
(***************************************************************************)
EXTENDS Integers, Sequences

CONSTANTS Cap,          \* the capacity of the reader channel (256)
          SockCap,      \* what the kernel keeps for the socket
          MaxDatagrams, \* bound on the datagrams that arrive
          NoPacket

VARIABLES sock,     \* datagrams received by the kernel
          conn,     \* the socket is open
          closeCh,  \* closeCh is closed
          uloop,    \* where readLoop is
          uheld,    \* the packet readLoop has read, or NoPacket
          ureader,  \* UDPTransport.reader
          arrived   \* ghost: how many datagrams came

uvars == <<sock, conn, closeCh, uloop, uheld, ureader, arrived>>

Init == /\ sock = <<>> /\ conn = TRUE /\ closeCh = FALSE
        /\ uloop = "check" /\ uheld = NoPacket /\ ureader = <<>>
        /\ arrived = 0

\* The kernel drops what it has no room for.
Arrive == /\ conn /\ arrived < MaxDatagrams
          /\ arrived' = arrived + 1
          /\ sock' = IF Len(sock) < SockCap
                     THEN Append(sock, [from |-> "udp", num |-> arrived + 1]) ELSE sock
          /\ UNCHANGED <<conn, closeCh, uloop, uheld, ureader>>

-----------------------------------------------------------------------------
LoopCheck == /\ uloop = "check"
             /\ uloop' = IF closeCh THEN "ended" ELSE "read"
             /\ UNCHANGED <<sock, conn, closeCh, uheld, ureader, arrived>>

\* Mutant: a datagram that is too short stays in the loop's hand.
LoopReadShort == /\ uloop = "read" /\ conn /\ sock # <<>>
                 /\ sock' = Tail(sock)
                 /\ uloop' \in {"push", "check"} /\ uheld' = Head(sock)
                 /\ UNCHANGED <<conn, closeCh, ureader, arrived>>

\* A datagram shorter than a label goes back to the check.
LoopRead == /\ uloop = "read" /\ conn /\ sock # <<>>
            /\ sock' = Tail(sock)
            /\ \/ uloop' = "push" /\ uheld' = Head(sock)
               \/ uloop' = "check" /\ UNCHANGED uheld
            /\ UNCHANGED <<conn, closeCh, ureader, arrived>>

\* ReadFromUDP fails when the socket is closed, also under a blocked call, or for a
\* reason that passes: then readLoop goes on.
LoopError == /\ uloop = "read"
             /\ uloop' = IF closeCh THEN "ended" ELSE "check"
             /\ UNCHANGED <<sock, conn, closeCh, uheld, ureader, arrived>>

LoopPush == /\ uloop = "push" /\ Len(ureader) < Cap
            /\ ureader' = Append(ureader, uheld)
            /\ uheld' = NoPacket /\ uloop' = "check"
            /\ UNCHANGED <<sock, conn, closeCh, arrived>>

Take == /\ ureader # <<>>
        /\ ureader' = Tail(ureader)
        /\ UNCHANGED <<sock, conn, closeCh, uloop, uheld, arrived>>

CloseCh == /\ ~closeCh
           /\ closeCh' = TRUE
           /\ UNCHANGED <<sock, conn, uloop, uheld, ureader, arrived>>

\* Mutant: Close may close the socket before closeCh.
CloseConnEarly == /\ conn
                  /\ conn' = FALSE /\ sock' = <<>>
                  /\ UNCHANGED <<closeCh, uloop, uheld, ureader, arrived>>

CloseConn == /\ closeCh /\ conn
             /\ conn' = FALSE /\ sock' = <<>>
             /\ UNCHANGED <<closeCh, uloop, uheld, ureader, arrived>>

LoopStep == LoopCheck \/ LoopRead \/ LoopError \/ LoopPush

\* What runs by itself; Take and Write are the router's.
Own == Arrive \/ LoopStep \/ CloseCh \/ CloseConn

Packet == [from : {"udp"}, num : 1..MaxDatagrams]

TypeOK == /\ sock \in Seq(Packet) /\ Len(sock) <= SockCap
          /\ ureader \in Seq(Packet) /\ Len(ureader) <= Cap
          /\ conn \in BOOLEAN /\ closeCh \in BOOLEAN
          /\ uloop \in {"check", "read", "push", "ended"}
          /\ uheld \in Packet \cup {NoPacket} /\ (uheld # NoPacket <=> uloop = "push")
          /\ arrived \in 0..MaxDatagrams

\* The datagrams on their way to the router: in the reader channel, in readLoop's
\* hand and in the kernel, in that order.
Pipeline == ureader \o (IF uheld = NoPacket THEN <<>> ELSE <<uheld>>) \o sock
=============================================================================
