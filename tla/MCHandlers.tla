------------------------------ MODULE MCHandlers ------------------------------
(***************************************************************************)
(* Handlers with compositions of up to seven leaves.                       *)
(***************************************************************************)
EXTENDS Handlers

LeafOp(op, key) == [p \in {<<>>} |-> [kind |-> "leaf", op |-> op, key |-> key]]
Leaf == LeafOp("none", "none")
Set(key) == LeafOp("set", key)
BoxBuilder == LeafOp("box", "none")
Fill == LeafOp("fill", "none")
Reader == LeafOp("read", "none")

\* The composition of kind that has these children.
Compose(kind, children) ==
    [p \in {<<>>} \cup UNION {{<<i>> \o q : q \in DOMAIN children[i]} : i \in DOMAIN children} |->
        IF p = <<>> THEN [kind |-> kind, op |-> "none", key |-> "none"]
        ELSE children[Head(p)][Tail(p)]]
ChainOf(children) == Compose("chain", children)
ParallelOf(children) == Compose("parallel", children)

\* A Chain whose middle is a Parallel of a Chain, a leaf and another Parallel.
MCParallels ==
    {ChainOf(<<Leaf,
               ParallelOf(<<ChainOf(<<Leaf, Leaf>>), Leaf,
                            ParallelOf(<<Leaf, Leaf>>)>>),
               Leaf>>),
     ChainOf(<<ParallelOf(<<Leaf, Leaf>>), ParallelOf(<<Leaf, Leaf>>)>>),
     ParallelOf(<<ChainOf(<<Leaf, ParallelOf(<<Leaf, Leaf>>), Leaf>>),
                  ChainOf(<<Leaf, Leaf>>)>>)}

\* Leaves that fill boxes: of a maker before a Parallel, of one inside, of
\* none; a Reader inside and after each.
MCBoxes ==
    {ChainOf(<<BoxBuilder,
               ParallelOf(<<ChainOf(<<Fill, Reader>>), Leaf>>),
               Reader, Fill, Reader>>),
     ChainOf(<<ParallelOf(<<ChainOf(<<Fill, Reader>>),
                            ChainOf(<<BoxBuilder, Fill, Reader>>)>>),
               Reader>>),
     ChainOf(<<Fill, ParallelOf(<<Fill, Fill>>), Reader,
               BoxBuilder, Reader>>)}

\* Leaves that set one key, or two, before a Parallel, in its children and
\* after it.
MCKeys ==
    {ChainOf(<<Set("k1"),
               ParallelOf(<<ChainOf(<<Set("k1"), Reader>>), Reader>>),
               Reader, Set("k1"), Reader>>),
     ChainOf(<<Set("k1"), ParallelOf(<<Set("k2"), Reader>>),
               Set("k2"), Reader>>)}

\* A leaf alone, compositions of nothing, and a Chain that ends in another.
MCEdges ==
    {Leaf, ChainOf(<<>>), ParallelOf(<<ChainOf(<<>>), Leaf, ParallelOf(<<>>)>>),
     ChainOf(<<Leaf, ParallelOf(<<>>), ChainOf(<<Leaf, Leaf>>)>>)}

MCBuilders == MCParallels \cup MCBoxes \cup MCKeys \cup MCEdges

\* A Chain that is not the last child of another one.
MCNested == {ChainOf(<<ChainOf(<<Leaf, Leaf>>), Leaf>>)}
==============================================================================
