------------------------------- MODULE Handlers -------------------------------
(***************************************************************************)
(* handler/chain.go, parallel.go and handler.go: builders composed with    *)
(* Chain and Parallel are built into one handler, which then handles a     *)
(* request.  typedctx/context.go: the values that handlers pass on in      *)
(* their contexts.                                                         *)
(*                                                                         *)
(* A composition is a tree of builders: each is one of a program's own     *)
(* handlers (a leaf), or a Chain or a Parallel of its children.  A builder *)
(* is named by its path from the root: <<>> is the root, Append(p, i) the  *)
(* i-th child of p.  A leaf does its work, then calls its next handler, or *)
(* returns without doing so.  A thread is named by the builder it was      *)
(* started for: <<>> is the caller, the others are the goroutines of the   *)
(* children of a Parallel.                                                 *)
(*                                                                         *)
(* A leaf's work is an operation on the context: it sets the value of a    *)
(* Key, makes a box or fills one of a BoxedKey, or reads all of them.  The *)
(* values that a leaf writes are named after it.  A value takes two words  *)
(* (an interface or a string does), and nothing orders the accesses to a   *)
(* box: a leaf writes or reads one word when it begins and the other when  *)
(* it ends.                                                                *)
(***************************************************************************)
EXTENDS Naturals, FiniteSets, Sequences

CONSTANTS Builders,   \* compositions to handle a request with
          MaxStops    \* leaves that return without calling the next handler

Kinds == {"leaf", "chain", "parallel"}
Ops == {"none", "set", "box", "fill", "read"}

\* A builder that is not the root is the child at Position(p) of Parent(p).
Parent(p) == SubSeq(p, 1, Len(p) - 1)
Position(p) == p[Len(p)]

\* b maps the paths of a tree to what is there; a leaf has no children.
IsTree(b) ==
    /\ DOMAIN b \subseteq Seq(Nat \ {0})
    /\ <<>> \in DOMAIN b
    /\ \A p \in DOMAIN b :
          /\ b[p].kind \in Kinds /\ b[p].op \in Ops
          /\ \A k \in 0..Len(p) : SubSeq(p, 1, k) \in DOMAIN b
          /\ p # <<>> => /\ b[Parent(p)].kind # "leaf"
                         /\ \A i \in 1..Position(p) : Append(Parent(p), i) \in DOMAIN b

ASSUME HandlersAssumption == MaxStops \in Nat /\ \A b \in Builders : IsTree(b)

\* A Chain as a child of a Chain is its last one.
ChainsAreLast(b) ==
    \A p \in DOMAIN b \ {<<>>} :
        b[p].kind = "chain" /\ b[Parent(p)].kind = "chain" =>
            Append(Parent(p), Position(p) + 1) \notin DOMAIN b

\* No builder has this name.
NoopHandler == <<0>>

VARIABLES builder,    \* the composition
          aliased,    \* keys of one type are one key
          at,         \* the handler that each thread is in
          waiting,    \* threads that wait for their children
          working,    \* leaves at work
          ran,        \* leaves that have done their work
          stopped,    \* those of them that have not called the next handler
          ctx,        \* the context of each thread
          box,        \* the boxes, named after the leaves that make them
          seen        \* what each Reader has read

threadVars == <<at, waiting, working, ran, stopped>>
valueVars == <<ctx, box, seen>>
vars == <<builder, aliased, threadVars, valueVars>>

Nodes == DOMAIN builder
Kind(p) == builder[p].kind
Leaves == {p \in Nodes : Kind(p) = "leaf"}

Threads == DOMAIN at
IsAt(t, kind) == at[t] \in Nodes /\ Kind(at[t]) = kind
Children(t) == {u \in Threads \ {<<>>} : Parent(u) = at[t]}

Keys == {builder[p].key : p \in Nodes} \cup {"shared"}
\* What a Key returns that was not set: no value, or a DefaultingKey's default.
NoValue == <<0>>
NoBox == <<0>>
Default == <<0>>
Background == [plain |-> [key \in Keys |-> NoValue], box |-> NoBox]
Words == Leaves \cup {Default}
PlainValues == [Keys -> Leaves \cup {NoValue}]

TypeOK ==
    /\ builder \in Builders
    /\ aliased \in BOOLEAN
    /\ at \in [Threads -> Nodes \cup {NoopHandler}]
    /\ Threads \subseteq Nodes /\ <<>> \in Threads
    /\ waiting \subseteq {t \in Threads : IsAt(t, "parallel")}
    /\ working \subseteq Leaves
    /\ ran \subseteq Leaves
    /\ stopped \subseteq ran
    /\ ctx \in [Threads -> [plain : PlainValues, box : Leaves \cup {NoBox}]]
    /\ box \in [Leaves -> Words \X Words]
    /\ seen \in [Leaves -> [plain : PlainValues, boxed : Words \X Words]]

Init ==
    /\ builder \in Builders
    /\ aliased \in BOOLEAN
    /\ at = [t \in {<<>>} |-> <<>>]
    /\ waiting = {}
    /\ working = {}
    /\ ran = {}
    /\ stopped = {}
    /\ ctx = [t \in {<<>>} |-> Background]
    /\ box = [l \in Leaves |-> <<Default, Default>>]
    /\ seen = [l \in Leaves |-> [plain |-> Background.plain, boxed |-> <<Default, Default>>]]

------------------------------------------------------------------------------
(***************************************************************************)
(* typedctx: what the leaf l, given context c, makes of it.                *)
(***************************************************************************)
\* A Key is a pointer to a value without fields; two of one type may be equal.
Slot(key) == IF aliased THEN "shared" ELSE key

Op(l) == builder[l].op

\* Key.WithValue.
WithPlain(c, l) ==
    IF Op(l) = "set" THEN [c.plain EXCEPT ![Slot(builder[l].key)] = l] ELSE c.plain

\* A plausible slip: BoxedKey.WithValue never looks for a box.
WithContextUnboxed(c, l) ==
    [plain |-> WithPlain(c, l),
     box |-> IF Op(l) \in {"box", "fill"} THEN l ELSE c.box]

\* BoxedKey.WithBox; BoxedKey.WithValue makes a box when there is none.
WithContext(c, l) ==
    [plain |-> WithPlain(c, l),
     box |-> IF Op(l) = "box" \/ (Op(l) = "fill" /\ c.box = NoBox) THEN l ELSE c.box]

\* BoxedKey.WithValue fills the box that it finds, one word after the other.
FillWord(c, l, word) ==
    box' = IF Op(l) # "fill" THEN box ELSE [box EXCEPT ![WithContext(c, l).box][word] = l]

\* Key.Value; BoxedKey.Value reads the box, or returns the default.
Boxed(c, word) == IF c.box = NoBox THEN Default ELSE box[c.box][word]

ReadWord(c, l, word) ==
    seen' = IF Op(l) # "read" THEN seen
            ELSE [seen EXCEPT ![l].plain = [key \in Keys |-> c.plain[Slot(key)]],
                              ![l].boxed[word] = Boxed(c, word)]

------------------------------------------------------------------------------
\* The next handler that the builder p is given: in a Chain the one of the
\* child after it.  The last child, like the child of a Parallel and the
\* root, is given NoopHandler, whatever the Chain itself was given.
Following(p) ==
    IF p # <<>> /\ Kind(Parent(p)) = "chain" /\ Append(Parent(p), Position(p) + 1) \in Nodes
    THEN Append(Parent(p), Position(p) + 1)
    ELSE NoopHandler

\* A plausible slip: the loop ends before the first child.
ChainOffByOne(t) ==
    /\ IsAt(t, "chain")
    /\ at' = [at EXCEPT ![t] = IF Append(@, 2) \in Nodes THEN Append(@, 2) ELSE NoopHandler]
    /\ UNCHANGED <<builder, aliased, waiting, working, ran, stopped, valueVars>>

\* Chain builds its children from the last to the first, and returns the
\* handler of the first.
Chain(t) ==
    /\ IsAt(t, "chain")
    /\ at' = [at EXCEPT ![t] = IF Append(@, 1) \in Nodes THEN Append(@, 1) ELSE NoopHandler]
    /\ UNCHANGED <<builder, aliased, waiting, working, ran, stopped, valueVars>>

\* A leaf is handed the request ...
Begin(t) ==
    /\ IsAt(t, "leaf")
    /\ at[t] \notin working
    /\ working' = working \cup {at[t]}
    /\ FillWord(ctx[t], at[t], 1)
    /\ ReadWord(ctx[t], at[t], 1)
    /\ UNCHANGED <<builder, aliased, at, waiting, ran, stopped, ctx>>

\* ... and does its work ...
End(t) ==
    /\ IsAt(t, "leaf")
    /\ at[t] \in working
    /\ working' = working \ {at[t]}
    /\ ran' = ran \cup {at[t]}
    /\ FillWord(ctx[t], at[t], 2)
    /\ ReadWord(ctx[t], at[t], 2)

\* ... and calls the next handler ...
CallNext(t) ==
    /\ End(t)
    /\ at' = [at EXCEPT ![t] = Following(@)]
    /\ ctx' = [ctx EXCEPT ![t] = WithContext(@, at[t])]
    /\ UNCHANGED <<builder, aliased, waiting, stopped>>

\* ... or returns.
Stop(t) ==
    /\ End(t)
    /\ Cardinality(stopped) < MaxStops
    /\ stopped' = stopped \cup {at[t]}
    /\ at' = [at EXCEPT ![t] = NoopHandler]
    /\ UNCHANGED <<builder, aliased, waiting, ctx>>

\* Parallel starts a goroutine per child, all with the context it was given.
Parallel(t) ==
    /\ IsAt(t, "parallel")
    /\ t \notin waiting
    /\ LET new == {u \in Nodes \ {<<>>} : Parent(u) = at[t]}
       IN  /\ at' = [u \in Threads \cup new |-> IF u \in new THEN u ELSE at[u]]
           /\ ctx' = [u \in Threads \cup new |-> IF u \in new THEN ctx[t] ELSE ctx[u]]
    /\ waiting' = waiting \cup {t}
    /\ UNCHANGED <<builder, aliased, working, ran, stopped, box, seen>>

\* The goroutines of t are gone; its next handler is called with context c.
Joined(t, c) ==
    /\ waiting' = waiting \ {t}
    /\ at' = [u \in Threads \ Children(t) |-> IF u = t THEN Following(at[t]) ELSE at[u]]
    /\ ctx' = [u \in Threads \ Children(t) |-> IF u = t THEN c ELSE ctx[u]]
    /\ UNCHANGED <<builder, aliased, working, ran, stopped, box, seen>>

AllReturned(t) == \A u \in Children(t) : at[u] = NoopHandler

\* A plausible slip: g.Wait returns with the first g.Done.
WaitForOne(t) ==
    /\ t \in waiting
    /\ \E u \in Children(t) : at[u] = NoopHandler
    /\ waiting' = waiting \ {t}
    /\ at' = [at EXCEPT ![t] = Following(@)]
    /\ UNCHANGED <<builder, aliased, working, ran, stopped, valueVars>>

\* A plausible slip: g.Done is forgotten when a child has stopped.
WaitUnstopped(t) == t \in waiting /\ stopped = {} /\ AllReturned(t) /\ Joined(t, ctx[t])

\* A plausible slip: the goroutines assign the context of the enclosing function.
WaitWithChild(t) == t \in waiting /\ AllReturned(t) /\ \E u \in Children(t) : Joined(t, ctx[u])

\* All goroutines of a Parallel have returned: its next handler is called,
\* whether or not a child has stopped.
Wait(t) == t \in waiting /\ AllReturned(t) /\ Joined(t, ctx[t])

Step(t) == Chain(t) \/ Begin(t) \/ CallNext(t) \/ Stop(t) \/ Parallel(t) \/ Wait(t)

Returned == at[<<>>] = NoopHandler

Next == \E t \in Threads : Step(t)

\* Goroutines are scheduled, and a handler's work ends.
Spec == Init /\ [][Next]_vars /\ WF_vars(Next)

------------------------------------------------------------------------------
\* l and m part at their k-th step, in a Chain, and l goes to the earlier child.
Parts(k, l, m) ==
    /\ k \in DOMAIN l \cap DOMAIN m
    /\ \A i \in 1..k - 1 : l[i] = m[i]
    /\ Kind(SubSeq(l, 1, k - 1)) = "chain"
    /\ l[k] < m[k]

\* A Chain puts what is in an earlier child before what is in a later one.
Before(l, m) == \E k \in DOMAIN l : Parts(k, l, m)

\* m is given the context that the leaf l has made: what a child of a
\* Parallel makes stays inside that child.
Flows(l, m) == Parts(Len(l), l, m)

With(op) == {l \in Leaves : Op(l) = op}
Setters(key) == {l \in With("set") : builder[l].key = key}

(***************************************************************************)
(* A leaf that a Chain puts after another begins when that one is over, or *)
(* will not begin because one that should have called it has stopped; also *)
(* when it is deep inside a Parallel: no goroutine is left behind.         *)
(***************************************************************************)
OrderIsKept ==
    \A first, second \in Leaves :
        Before(first, second) /\ second \in working \cup ran =>
            /\ first \notin working
            /\ first \in ran \/ \E l \in stopped : Flows(l, first)

(***************************************************************************)
(* A request is handled in the end, with all its goroutines returned.      *)
(***************************************************************************)
RequestIsHandled == <>[](Returned /\ Threads = {<<>>} /\ working = {})

(***************************************************************************)
(* handler/chain.go:3: "BuilderComposer is a function that composes sets   *)
(* of handler.Builder into one handler.Builder": a request that no leaf    *)
(* stops passes through every leaf of the composition, whichever           *)
(* goroutines that takes.  Compositions in which a Chain is a child of a   *)
(* Chain and not its last are left out (ChainsAreLast): the inner Chain    *)
(* drops the handler it is given, and what follows it never runs.          *)
(***************************************************************************)
EveryLeafRuns == Returned /\ stopped = {} => ran = Leaves

------------------------------------------------------------------------------
\* The one of S, if any, that comes last on the way of the context to l.
Latest(S, l) == {m \in S : Flows(m, l) /\ ~\E n \in S : Flows(m, n) /\ Flows(n, l)}

\* A leaf that fills a box makes one when no box comes to it.
Makers ==
    With("box") \cup
    {l \in With("fill") : ~\E m \in With("box") \cup With("fill") : Flows(m, l)}

BoxOf(l) == IF l \in Makers THEN {l} ELSE Latest(Makers, l)

(***************************************************************************)
(* typedctx/context.go:54: "now this succeeds, and returns the unboxed     *)
(* value".  A reader whose box is written in one order only, and not while *)
(* it reads, reads what was written last before it, whole; also out of the *)
(* goroutines of a Parallel.  Without a box it gets the default.           *)
(***************************************************************************)
BoxedValuesArrive ==
    \A r \in With("read") \cap ran :
        LET fillers == {l \in With("fill") : BoxOf(l) = BoxOf(r)}
            earlier == {l \in fillers \cap ran : Before(l, r)}
            last == {l \in earlier : \A m \in earlier \ {l} : Before(m, l)}
        IN  (\A l, m \in fillers \cup {r} : l = m \/ Before(l, m) \/ Before(m, l)) =>
                IF BoxOf(r) = {} \/ earlier = {}
                THEN seen[r].boxed = <<Default, Default>>
                ELSE \E l \in last : seen[r].boxed = <<l, l>>

(***************************************************************************)
(* typedctx/context.go:33 and handler/parallel_test.go:18: "the ctx passed *)
(* into the wrapped handler isn't passed back out", "their contexts are    *)
(* independent".  The value of a Key is the one set last on the way of the *)
(* context to the reader, whatever the other goroutines set; also when     *)
(* keys are equal, if the leaves use one of them only.                     *)
(***************************************************************************)
PlainValuesFlowDown ==
    \A r \in With("read") \cap ran, key \in Keys \ {"none", "shared"} :
        ~aliased \/ With("set") = Setters(key) =>
            seen[r].plain[key] \in
                (IF Latest(Setters(key), r) = {} THEN {NoValue} ELSE Latest(Setters(key), r))

\* typedctx/context.go:78: a Key is the key of one value.
\* TLC refutes it; see the README.
KeysAreDistinct ==
    \A r \in With("read") \cap ran, key \in Keys \ {"none", "shared"} :
        seen[r].plain[key] \in {NoValue} \cup Setters(key)

\* handler/parallel_test.go:20-22: parallel steps can fill in one space.
\* TLC refutes it; see the README.
ValuesAreWhole == \A r \in With("read") \cap ran : seen[r].boxed[1] = seen[r].boxed[2]
==============================================================================
