---------------------------- MODULE MCLabelStack ----------------------------
(***************************************************************************)
(* Labels at the edges of the ranges that matter: the smallest, the first  *)
(* unreserved one, the first that looks like IPv4 (0x40000), the last that *)
(* looks like IPv6 (0x6FFFF) and the one after it, the largest, and one    *)
(* that is clamped.  The payloads start like IPv4 and IPv6 headers.        *)
(***************************************************************************)
EXTENDS LabelStack

MCPayloads == {<<69, 0, 0, 20>>, <<96, 0, 0, 0, 0>>}
=============================================================================
