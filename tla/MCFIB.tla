------------------------------- MODULE MCFIB -------------------------------
(***************************************************************************)
(* FIB on four prefixes.  p24a and p24b have the same length and cover the *)
(* same addresses (host bits are kept by Add), p8 covers them and more,    *)
(* and p32 covers one of them.  p24a can be added with two next hops, so   *)
(* that Add also replaces; one route pushes labels.                        *)
(***************************************************************************)
EXTENDS FIB, TLC

CONSTANTS p8, p24a, p24b, p32, near, far, x, y

MCPrefix == {p8, p24a, p24b, p32}
MCAddr == {near, far}
MCBits == (p8 :> 8) @@ (p24a :> 24) @@ (p24b :> 24) @@ (p32 :> 32)
MCCovers == (p8 :> {near, far}) @@ (p24a :> {near}) @@ (p24b :> {near})
            @@ (p32 :> {near})

Entry(p, t, act) == [prefix |-> p, nextHop |-> t, transport |-> t,
                     action |-> act, outLabels |-> act]

MCRoute == {Entry(p8, x, "forward"), Entry(p24a, x, "forward"),
            Entry(p24a, y, "push"), Entry(p24b, y, "forward"),
            Entry(p32, x, "push")}

\* The zero FIBEntry
MCBlank == [prefix |-> "", nextHop |-> "", transport |-> "", action |-> "",
            outLabels |-> ""]
=============================================================================
