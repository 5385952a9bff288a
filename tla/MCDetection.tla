---------------------------- MODULE MCDetection ----------------------------
(* The scan of one service, alone: MCHost explores it beside other parts.  *)
EXTENDS Detection

\* latest, 1.0.0, the partial 1.2, 1.2.0, 1.10.0 and 9.0.0-alpine.
MCTag(core, full, flavor) == [core |-> core, full |-> full, flavor |-> flavor]
MCTagList == <<MCTag(<< >>, FALSE, ""), MCTag(<<1, 0, 0>>, TRUE, ""), MCTag(<<1, 2, 0>>, FALSE, ""),
               MCTag(<<1, 2, 0>>, TRUE, ""), MCTag(<<1, 10, 0>>, TRUE, ""), MCTag(<<9, 0, 0>>, TRUE, "-")>>
MCLabelOf == <<2, 4>>   \* the labels say 1.0.0 and 1.2.0
=============================================================================
