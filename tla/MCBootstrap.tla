---------------------------- MODULE MCBootstrap -----------------------------
EXTENDS Bootstrap, TLC

T(n, p, c) == [name |-> n, partitions |-> p, config |-> c]

\* Two checkouts: the second one has grown a topic, changed its config and added
\* a topic.
MCTopicFiles ==
  {<<T("spans", 2, "retention" :> "6h")>>,
   <<T("spans", 3, "retention" :> "12h" @@ "size" :> "8G"), T("dead", 1, << >>)>>}

MCSymmetry == Permutations(Operators)
=============================================================================
