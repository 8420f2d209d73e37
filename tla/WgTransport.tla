---------------------------- MODULE WgTransport ----------------------------
(***************************************************************************)
(* wg.Transport and MemTUN (src/internal/wg): the channels between the     *)
(* router and a wireguard-go device, the goroutine readLoop that moves     *)
(* packets from one to the next, and Close while all of them are in use.   *)
(* wireguard-go is a library: what is here of it are its two goroutines    *)
(* that call MemTUN's Read and Write, and its Close, which waits for the   *)
(* second.  A Go channel is a sequence of at most Cap packets; a select    *)
(* with several ready cases takes any of them.                             *)
(*                                                                         *)
(* A packet is [from, num]: where it entered and the how-manieth it was.   *)
(***************************************************************************)
EXTENDS Integers, Sequences

CONSTANTS Writer,    \* the goroutines that call Write
          Cap,       \* the capacity of each channel (256)
          MaxGiven,  \* bound on the packets the peer sends
          NoPacket

VARIABLES inbound, outbound,  \* MemTUN.Inbound, MemTUN.Outbound
          reader,    \* Transport.reader
          closed,    \* MemTUN.closed is closed
          closes,    \* how often close(d.t.closed) ran
          loop,      \* where readLoop is
          held,      \* the packet readLoop has taken, or NoPacket
          recv,      \* the device's receiver: "put" inside MemTUN's Write
          dev,       \* the device's sender: calls MemTUN's Read until it fails
          closing,   \* where the two calls of memTUNDev.Close are
          writing,   \* the packet of each Write in progress, or NoPacket
          given,     \* ghost: how many packets the receiver has put
          taken      \* ghost: how many packets the router has received

inward == <<inbound, recv, given>>
looping == <<loop, held, reader, taken>>
outward == <<outbound, dev, writing>>
closure == <<closed, closes, closing>>
vars == <<inward, looping, outward, closure>>

\* Close is called by the application, and by the device when Read fails.
Closer == {"app", "device"}

Init == /\ inbound = <<>> /\ outbound = <<>> /\ reader = <<>>
        /\ closed = FALSE /\ closes = 0
        /\ loop = "off" /\ held = NoPacket
        /\ recv = "idle" /\ dev = "reading"
        /\ closing = [c \in Closer |-> "no"]
        /\ writing = [w \in Writer |-> NoPacket]
        /\ given = 0 /\ taken = 0

Up == /\ loop = "off" /\ loop' = "select"
      /\ UNCHANGED <<inward, outward, closure, reader, held, taken>>

-----------------------------------------------------------------------------
(* From the peer to the router.                                            *)

\* The receiver calls MemTUN's Write, which looks at closed first.  The EventUp in
\* NewMemTUN brings the device up, also before Up starts readLoop.
Give == /\ ~closed
        /\ recv = "idle" /\ given < MaxGiven
        /\ recv' = "put"
        /\ UNCHANGED <<looping, outward, closure, inbound, given>>

\* One buffer of the call goes into Inbound; the call may have more of them.
Put == /\ recv = "put" /\ Len(inbound) < Cap
       /\ inbound' = Append(inbound, [from |-> "peer", num |-> given + 1])
       /\ given' = given + 1
       /\ recv' \in {"idle"} \cup (IF given + 1 < MaxGiven THEN {"put"} ELSE {})
       /\ UNCHANGED <<looping, outward, closure>>

\* Mutant: the send to Inbound does not look at closed.
PutRefusedNever == FALSE /\ UNCHANGED vars

PutRefused == /\ recv = "put" /\ closed
              /\ recv' = "idle"
              /\ UNCHANGED <<looping, outward, closure, inbound, given>>

LoopTake == /\ loop = "select" /\ inbound # <<>>
            /\ held' = Head(inbound) /\ inbound' = Tail(inbound)
            /\ loop' = "push"
            /\ UNCHANGED <<outward, closure, reader, recv, given, taken>>

\* Mutant: readLoop drops the packet when the reader channel is full.
LoopPushOrDrop ==
    /\ loop = "push"
    /\ reader' = IF Len(reader) < Cap THEN Append(reader, held) ELSE reader
    /\ held' = NoPacket /\ loop' = "select"
    /\ UNCHANGED <<inward, outward, closure, taken>>

LoopPush == /\ loop = "push" /\ Len(reader) < Cap
            /\ reader' = Append(reader, held)
            /\ held' = NoPacket /\ loop' = "select"
            /\ UNCHANGED <<inward, outward, closure, taken>>

\* Mutant: readLoop waits for packets only.
LoopEndNever == FALSE /\ UNCHANGED vars

LoopEnd == /\ loop = "select" /\ closed
           /\ loop' = "ended"
           /\ UNCHANGED <<inward, outward, closure, reader, held, taken>>

\* The router receives from Read().
Take == /\ reader # <<>>
        /\ reader' = Tail(reader)
        /\ taken' = taken + 1
        /\ UNCHANGED <<inward, outward, closure, loop, held>>

-----------------------------------------------------------------------------
(* From the router to the peer.                                            *)

WriteCall(w, pkt) == /\ writing[w] = NoPacket
                     /\ writing' = [writing EXCEPT ![w] = pkt]
                     /\ UNCHANGED <<inward, looping, closure, outbound, dev>>

WriteSend(w) == /\ writing[w] # NoPacket /\ Len(outbound) < Cap
                /\ outbound' = Append(outbound, writing[w])
                /\ writing' = [writing EXCEPT ![w] = NoPacket]
                /\ UNCHANGED <<inward, looping, closure, dev>>

WriteRefused(w) == /\ writing[w] # NoPacket /\ closed
                   /\ writing' = [writing EXCEPT ![w] = NoPacket]
                   /\ UNCHANGED <<inward, looping, closure, outbound, dev>>

\* MemTUN's Read may return a packet after Close, too.
DevRead == /\ dev = "reading" /\ outbound # <<>>
           /\ outbound' = Tail(outbound)
           /\ UNCHANGED <<inward, looping, closure, dev, writing>>

DevReadFails == /\ dev = "reading" /\ closed
                /\ dev' = "ended"
                /\ UNCHANGED <<inward, looping, closure, outbound, writing>>

-----------------------------------------------------------------------------
(* Close: MemTUN's, and then the device's.                                 *)

\* Mutant: memTUNDev closes the channel without a look at it.
CheckClosedNot(c) == /\ closing[c] = "no"
                     /\ c = "device" => dev = "ended"
                     /\ closing' = [closing EXCEPT ![c] = "close"]
                     /\ UNCHANGED <<inward, looping, outward, closed, closes>>

\* The select of memTUNDev.Write(nil, -1).
CheckClosed(c) == /\ closing[c] = "no"
                  /\ c = "device" => dev = "ended"
                  /\ closing' = [closing EXCEPT ![c] = IF closed THEN "wait" ELSE "close"]
                  /\ UNCHANGED <<inward, looping, outward, closed, closes>>

CloseClosed(c) == /\ closing[c] = "close"
                  /\ closed' = TRUE /\ closes' = closes + 1
                  /\ closing' = [closing EXCEPT ![c] = "wait"]
                  /\ UNCHANGED <<inward, looping, outward>>

\* The device's Close returns when its receiver is out of MemTUN's Write.
CloseDevice(c) == /\ closing[c] = "wait" /\ recv # "put"
                  /\ closing' = [closing EXCEPT ![c] = "done"]
                  /\ UNCHANGED <<inward, looping, outward, closed, closes>>

-----------------------------------------------------------------------------
LoopStep == LoopTake \/ LoopPush \/ LoopEnd
RecvStep == Put \/ PutRefused
DevStep == DevRead \/ DevReadFails
WriteStep(w) == WriteSend(w) \/ WriteRefused(w)
CloseStep(c) == CloseClosed(c) \/ CloseDevice(c) \/ (c = "device" /\ CheckClosed(c))

\* What runs by itself; Take and Write are the router's.
Own == \/ Up \/ Give
       \/ LoopStep \/ RecvStep \/ DevStep
       \/ \E c \in Closer : CheckClosed(c) \/ CloseClosed(c) \/ CloseDevice(c)

Next == \/ Own \/ Take
        \/ \E w \in Writer : \/ \E n \in Nat : WriteCall(w, [from |-> w, num |-> n])
                             \/ WriteStep(w)

Spec == Init /\ [][Next]_vars

-----------------------------------------------------------------------------
Packet == [from : Writer \cup {"peer"}, num : Nat]

TypeOK == /\ inbound \in Seq(Packet) /\ outbound \in Seq(Packet) /\ reader \in Seq(Packet)
          /\ Len(inbound) <= Cap /\ Len(outbound) <= Cap /\ Len(reader) <= Cap
          /\ closed \in BOOLEAN /\ closes \in Nat
          /\ loop \in {"off", "select", "push", "ended"}
          /\ held \in Packet \cup {NoPacket} /\ (held # NoPacket <=> loop = "push")
          /\ recv \in {"idle", "put"} /\ dev \in {"reading", "ended"}
          /\ closing \in [Closer -> {"no", "close", "wait", "done"}]
          /\ writing \in [Writer -> Packet \cup {NoPacket}]
          /\ given \in Nat /\ taken \in Nat

\* The packets on their way to the router: in the reader channel, in readLoop's
\* hand and in Inbound, in that order.
Pipeline == reader \o (IF held = NoPacket THEN <<>> ELSE <<held>>) \o inbound
=============================================================================
