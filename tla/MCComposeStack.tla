--------------------------- MODULE MCComposeStack ---------------------------
(* ComposeStack alone.  dockbrr in a Compose stack of its own (Home): side   *)
(* lives in app's namespace and never moves, app and aux follow a floating   *)
(* tag.  Or one service whose image the file names by an exact tag.          *)
EXTENDS ComposeStack

CONSTANTS app, side, aux

MCProvider == [s \in Stack |-> IF s = side THEN app ELSE Nobody]
MCStyles == {[s \in Stack |-> IF s = side THEN "fixed" ELSE "floating"]}
MCExact == {[s \in Stack |-> "exact"]}
=============================================================================
