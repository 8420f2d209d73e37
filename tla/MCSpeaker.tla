----------------------------- MODULE MCSpeaker -----------------------------
(***************************************************************************)
(* Four prefixes.  net is learned as a unicast route over a link with two  *)
(* transports, and covers hop, the next hop of a labelled route to pe; pe  *)
(* is also the endpoint of an SR policy.  own is exported here with a      *)
(* label and can be announced by peers too, also with a higher LOCAL_PREF. *)
(* bad is not in the import filter.                                        *)
(***************************************************************************)
EXTENDS Speaker

CONSTANTS net, pe, own, bad, node, a1, a2, hop, peAddr, id

MCPrefix == {net, pe, own, bad}
MCAddr == {a1, a2, hop, peAddr, id}
MCBits == [p \in MCPrefix |-> IF p = net THEN 8 ELSE 32]
MCCovers == [p \in MCPrefix |-> CASE p = net -> {hop, peAddr}
                                  [] p = pe -> {peAddr}
                                  [] p = own -> {id}
                                  [] OTHER -> {}]
MCDirect == [a \in MCAddr |-> CASE a = a1 -> {"wg1"} [] a = a2 -> {"wg1", "wg2"}
                                [] OTHER -> {}]

NLRI(fam, p) == [fam |-> fam, prefix |-> p, color |-> IF fam = "srpolicy" THEN 1 ELSE 0]
Ranked(pref, fam, p, nh, labels) ==
    [key |-> NLRI(fam, p), nextHop |-> nh, labels |-> labels, pref |-> pref]
Of(fam, p, nh, labels) == Ranked(DefaultPref, fam, p, nh, labels)

Net1 == Of("unicast", net, a2, <<>>)
Bad1 == Of("unicast", bad, a1, <<>>)
Pe1  == Of("labelled", pe, hop, <<100>>)
PeSR == Of("srpolicy", pe, peAddr, <<101, 102>>)
OwnRemote == Of("labelled", own, a1, <<103>>)
OwnOutranked == Ranked(200, "labelled", own, a1, <<104>>)
OwnLocal == Of("labelled", own, id, <<30>>)
LinkState == Of("ls", node, id, <<>>)

MCLearned == {Net1, Bad1, Pe1, PeSR, OwnRemote, OwnOutranked}
MCLocalPaths == <<OwnLocal, LinkState>>
MCAllowed == {Net1, Pe1, PeSR, OwnRemote, OwnOutranked, OwnLocal, LinkState}
MCLabel == {30, 100, 101, 102, 103, 104}
MCStatic == {[prefix |-> own, nextHop |-> a2, transport |-> "wg2",
              action |-> "forward", outLabels |-> <<>>]}
=============================================================================
