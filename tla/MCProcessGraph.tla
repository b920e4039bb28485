--------------------------- MODULE MCProcessGraph ---------------------------
EXTENDS ProcessGraph

Places == {"start", "edges", "link", "work", "finish", "visit"}

(* 4 depends on 2 and 3, which depend on 1; the same in the other order;   *)
(* 2 and 3 depend on each other and 1 on itself; 1 depends on all others.  *)
FourGraphs ==
    { <<{}, {1}, {1}, {2, 3}>>,
      <<{2, 3}, {4}, {4, 3}, {}>>,
      <<{1}, {3}, {2}, {1}>>,
      <<{2, 3, 4}, {}, {}, {}>> }
=============================================================================
