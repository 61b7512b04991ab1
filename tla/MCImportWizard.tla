--------------------------- MODULE MCImportWizard ---------------------------
(***************************************************************************)
(* Two texts besides the empty one, one of which the editor shows as the    *)
(* other; one session that context can be added to, one that it cannot, and *)
(* one that an import may make.                                             *)
(***************************************************************************)
EXTENDS ImportWizard, TLC

CONSTANTS empty, plain, tabbed, first, second

Shown == empty :> empty @@ plain :> plain @@ tabbed :> plain
=============================================================================
