--------------------------- MODULE MCDeployments ---------------------------
EXTENDS Deployments
CONSTANTS i1, b1, b2

(* An update from b1 to b2 breaks callers.                                 *)
MCBreaks == {<<b2, b1>>}
=============================================================================
