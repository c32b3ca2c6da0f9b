---------------------------- MODULE HandlersProofs ----------------------------
(***************************************************************************)
(* Theorems about Handlers, for every composition of Chains and Parallels. *)
(*                                                                         *)
(* The threads of a request. A thread stays inside the builder that it was *)
(* started for, with nothing but Chains between that builder and the       *)
(* handler it is in (ThreadsAreInside). All the threads around it wait for *)
(* it (ThreadsAreNested), so that two threads at work are in different     *)
(* children of a Parallel, and no Chain orders them (ThreadsAreUnordered). *)
(* TypeOK needs these: that a Parallel starts no goroutine twice follows   *)
(* from the nesting only. Lemmas about paths come first, then one about    *)
(* each kind of step.                                                      *)
(*                                                                         *)
(* The order. What a Chain puts before a thread's handler is over, and     *)
(* what it puts after it has not begun (OrderAtThreads); a thread that has *)
(* returned leaves nothing of its builder behind (OrderOfRuns). The second *)
(* needs the hypothesis ChainsAreLast: a Chain that has children of a      *)
(* Chain after it does not call them, since its last child is given        *)
(* NoopHandler.                                                            *)
(*                                                                         *)
(* The values. A context has the value that was set last on its way        *)
(* (ContextsAreRight), whoever else is at work: this holds for every       *)
(* composition. For a box the same is true of the box itself               *)
(* (BoxesAreRight); what is in it is what the last leaf that fills it has  *)
(* written (BoxesAreFilled), where an order between these leaves exists,   *)
(* because leaves keep to that order.                                      *)
(***************************************************************************)
EXTENDS Handlers, TLAPS

Path == Seq(Nat \ {0})

\* q is p or inside it.
Below(p, q) == Len(p) <= Len(q) /\ \A i \in 1..Len(p) : p[i] = q[i]

\* A thread is named by the root or by the child of a Parallel.
IsStart(t) == t = <<>> \/ Kind(Parent(t)) = "parallel"

\* Each thread is inside its builder, with nothing but Chains around it there.
ThreadsAreInside ==
    \A t \in Threads :
        /\ IsStart(t)
        /\ at[t] # NoopHandler =>
              /\ Below(t, at[t])
              /\ \A k \in Len(t)..Len(at[t]) - 1 : Kind(SubSeq(at[t], 1, k)) = "chain"

\* The threads around a thread wait for it, and one that waits has all its
\* children.
ThreadsAreNested ==
    /\ \A u \in Threads, v \in Nodes :
          Below(v, u) /\ v # u /\ IsStart(v) =>
              v \in waiting /\ Below(at[v], u) /\ Len(at[v]) < Len(u)
    /\ \A t \in waiting, c \in Nodes \ {<<>>} : Parent(c) = at[t] => c \in Threads

\* No thread is ahead of another.
ThreadsAreUnordered ==
    \A t, u \in Threads : at[t] # NoopHandler /\ at[u] # NoopHandler => ~Before(at[t], at[u])

TInv == TypeOK /\ ThreadsAreInside /\ ThreadsAreNested /\ ThreadsAreUnordered

------------------------------------------------------------------------------
\* Two paths of the same length with the same steps are one.
LEMMA SameSteps ==
    ASSUME NEW p \in Path, NEW q \in Path, Below(p, q), Len(p) = Len(q)
    PROVE  p = q
<1>1. /\ p = [i \in 1..Len(p) |-> p[i]]
      /\ q = [i \in 1..Len(q) |-> q[i]]
  BY DEF Path
<1>2. \A i \in 1..Len(p) : p[i] = q[i]
  BY Zenon DEF Below
<1> QED
  BY <1>1, <1>2, Zenon

\* The path to a child.
LEMMA AppendStep ==
    ASSUME NEW p \in Path, NEW i \in Nat \ {0}
    PROVE  /\ Append(p, i) \in Path
           /\ Len(Append(p, i)) = Len(p) + 1
           /\ \A j \in 1..Len(p) : Append(p, i)[j] = p[j]
           /\ Append(p, i)[Len(p) + 1] = i
           /\ Parent(Append(p, i)) = p
           /\ Position(Append(p, i)) = i
BY DEF Path, Parent, Position

\* A path cut off after k steps.
LEMMA PrefixSteps ==
    ASSUME NEW p \in Path, NEW k \in 0..Len(p)
    PROVE  /\ SubSeq(p, 1, k) \in Path
           /\ Len(SubSeq(p, 1, k)) = k
           /\ \A j \in 1..k : SubSeq(p, 1, k)[j] = p[j]
           /\ Below(SubSeq(p, 1, k), p)
<1>1. /\ SubSeq(p, 1, k) \in Path
      /\ Len(SubSeq(p, 1, k)) = k
      /\ \A j \in 1..k : SubSeq(p, 1, k)[j] = p[j]
  BY DEF Path
<1> QED
  BY <1>1 DEF Below

\* The path to the parent, and the last step.
LEMMA ParentSteps ==
    ASSUME NEW p \in Path, p # <<>>
    PROVE  /\ Len(p) \in Nat \ {0}
           /\ Parent(p) \in Path /\ Len(Parent(p)) = Len(p) - 1
           /\ \A j \in 1..Len(p) - 1 : Parent(p)[j] = p[j]
           /\ Position(p) \in Nat \ {0} /\ Position(p) = p[Len(p)]
           /\ p = Append(Parent(p), Position(p))
<1>1. Len(p) \in Nat \ {0}
  BY DEF Path
<1>2. /\ Parent(p) \in Path /\ Len(Parent(p)) = Len(p) - 1
      /\ \A j \in 1..Len(p) - 1 : Parent(p)[j] = p[j]
  <2>1. Len(p) - 1 \in 0..Len(p)
    BY <1>1
  <2> QED
    BY <2>1, PrefixSteps, Zenon DEF Parent
<1>3. Position(p) \in Nat \ {0} /\ Position(p) = p[Len(p)]
  BY <1>1 DEF Path, Position
<1> DEFINE c == Append(Parent(p), Position(p))
<1>4. /\ c \in Path
      /\ Len(c) = Len(Parent(p)) + 1
      /\ \A j \in 1..Len(Parent(p)) : c[j] = Parent(p)[j]
      /\ c[Len(Parent(p)) + 1] = Position(p)
  BY <1>2, <1>3, AppendStep, Zenon
<1> HIDE DEF c
<1>5. Len(c) = Len(p) /\ \A j \in 1..Len(c) : c[j] = p[j]
  BY <1>1, <1>2, <1>3, <1>4
<1>6. c = p
  BY <1>1, <1>4, <1>5, SameSteps DEF Below
<1> QED
  BY <1>1, <1>2, <1>3, <1>6, Zenon DEF c

\* Of two builders around a third, one is around the other.
LEMMA Comparable ==
    ASSUME NEW p \in Path, NEW q \in Path, NEW x \in Path, Below(p, x), Below(q, x), Len(p) <= Len(q)
    PROVE  Below(p, q)
BY DEF Below, Path

\* What is inside a builder is inside those around it.
LEMMA Transitive ==
    ASSUME NEW p \in Path, NEW q \in Path, NEW x \in Path, Below(p, q), Below(q, x)
    PROVE  Below(p, x)
BY DEF Below, Path

------------------------------------------------------------------------------
(***************************************************************************)
(* Chain, Parallel and the paths of a composition.                         *)
(***************************************************************************)

\* Nothing starts a builder that the tree does not have.
LEMMA Tree ==
    ASSUME TypeOK
    PROVE  /\ Nodes \subseteq Path /\ <<>> \in Nodes /\ NoopHandler \notin Nodes
           /\ \A p \in Nodes : \A k \in 0..Len(p) : SubSeq(p, 1, k) \in Nodes
           /\ \A p \in Nodes \ {<<>>} :
                 /\ Parent(p) \in Nodes /\ Kind(Parent(p)) # "leaf"
                 /\ \A i \in 1..Position(p) : Append(Parent(p), i) \in Nodes
<1>1. IsTree(builder)
  BY HandlersAssumption, Zenon DEF TypeOK
<1>2. Nodes \subseteq Path /\ <<>> \in Nodes
  BY <1>1, Zenon DEF IsTree, Nodes, Path
<1>3. NoopHandler \notin Nodes
  <2>1. NoopHandler[1] = 0 /\ Len(NoopHandler) = 1
    BY Zenon DEF NoopHandler
  <2>2. NoopHandler \notin Path
    BY <2>1 DEF Path
  <2> QED
    BY <1>2, <2>2, Zenon
<1>4. \A p \in Nodes : \A k \in 0..Len(p) : SubSeq(p, 1, k) \in Nodes
  BY <1>1, Zenon DEF IsTree, Nodes
<1>5. ASSUME NEW p \in Nodes \ {<<>>}
      PROVE  Parent(p) \in Nodes
  <2>1. p \in Path /\ p # <<>> /\ p \in Nodes
    BY <1>2, Zenon
  <2>2. Len(p) - 1 \in 0..Len(p)
    BY <2>1, ParentSteps
  <2> QED
    BY <1>4, <2>1, <2>2, Zenon DEF Parent
<1>6. ASSUME NEW p \in Nodes \ {<<>>}
      PROVE  /\ Kind(Parent(p)) # "leaf"
             /\ \A i \in 1..Position(p) : Append(Parent(p), i) \in Nodes
  BY <1>1, Zenon DEF IsTree, Nodes, Kind
<1> QED
  BY <1>2, <1>3, <1>4, <1>5, <1>6, Zenon

\* What is inside a builder is inside one of its children.
LEMMA Inside ==
    ASSUME TypeOK, NEW p \in Nodes, NEW q \in Nodes, Below(p, q), p # q
    PROVE  LET i == q[Len(p) + 1]
           IN  /\ i \in Nat \ {0}
               /\ Kind(p) # "leaf"
               /\ \A j \in 1..i : Append(p, j) \in Nodes
               /\ Below(Append(p, i), q)
<1> DEFINE i == q[Len(p) + 1]
           c == SubSeq(q, 1, Len(p) + 1)
<1>1. p \in Path /\ q \in Path
  BY Tree, Zenon
<1>2. Len(p) + 1 \in 1..Len(q)
  <2>1. Len(p) # Len(q)
    BY <1>1, SameSteps, Zenon
  <2> QED
    BY <1>1, <2>1 DEF Below, Path
<1>3. i \in Nat \ {0}
  BY <1>1, <1>2 DEF Path
<1>4. c \in Nodes /\ c \in Path /\ Len(c) = Len(p) + 1 /\ Below(c, q)
      /\ \A j \in 1..Len(p) + 1 : c[j] = q[j]
  BY <1>1, <1>2, Tree, PrefixSteps
<1>5. c # <<>> /\ Position(c) = i
  BY <1>2, <1>4 DEF Position
<1> HIDE DEF i, c
<1>6. Below(p, Parent(c)) /\ Len(Parent(c)) = Len(p) /\ Parent(c) \in Path
  <2>1. /\ Parent(c) \in Path /\ Len(Parent(c)) = Len(c) - 1
        /\ \A j \in 1..Len(c) - 1 : Parent(c)[j] = c[j]
    BY <1>4, <1>5, ParentSteps, Zenon
  <2>2. Len(p) \in Nat /\ Len(c) - 1 = Len(p)
    BY <1>1, <1>4 DEF Path
  <2> QED
    BY <1>4, <2>1, <2>2 DEF Below
<1>7. Parent(c) = p
  BY <1>1, <1>6, SameSteps, Zenon
<1>8. c = Append(p, i)
  BY <1>4, <1>5, <1>7, ParentSteps, Zenon
<1>9. Kind(p) # "leaf" /\ \A j \in 1..i : Append(p, j) \in Nodes
  BY <1>4, <1>5, <1>7, Tree, Zenon
<1> QED
  BY <1>3, <1>4, <1>8, <1>9, Zenon DEF i

\* Paths that are equal up to a step have the same builder there.
LEMMA SamePrefix ==
    ASSUME NEW l \in Path, NEW m \in Path, NEW k \in Nat, k <= Len(l), k <= Len(m),
           \A i \in 1..k : l[i] = m[i]
    PROVE  /\ SubSeq(l, 1, k) = SubSeq(m, 1, k)
           /\ Kind(SubSeq(l, 1, k)) = Kind(SubSeq(m, 1, k))
<1> DEFINE a == SubSeq(l, 1, k)
           b == SubSeq(m, 1, k)
<1>1. k \in 0..Len(l) /\ k \in 0..Len(m)
  BY DEF Path
<1>2. /\ a \in Path /\ Len(a) = k /\ \A j \in 1..k : a[j] = l[j]
      /\ b \in Path /\ Len(b) = k /\ \A j \in 1..k : b[j] = m[j]
  BY <1>1, PrefixSteps, Zenon
<1> HIDE DEF a, b
<1>3. a = b
  BY <1>2, SameSteps DEF Below
<1>4. Kind(a) = Kind(b)
  BY <1>3, Zenon
<1> QED
  BY <1>3, <1>4, Zenon DEF a, b

\* Chain's handlers: what is before or after the child of a builder.
LEMMA ChildOrder ==
    ASSUME NEW x \in Path, NEW i \in Nat \ {0}, NEW l \in Path
    PROVE  LET c == Append(x, i)
           IN  /\ Before(l, c) => Before(l, x) \/ (Kind(x) = "chain" /\ i # 1)
               /\ Flows(l, c) => Flows(l, x) \/ (Kind(x) = "chain" /\ i # 1)
               /\ Before(c, l) => Before(x, l) \/ (Kind(x) = "chain" /\ Below(x, l))
               /\ Before(x, l) => Before(c, l)
               /\ Below(c, l) => Below(x, l)
<1> DEFINE c == Append(x, i)
<1>0. c \in Path /\ Len(c) = Len(x) + 1 /\ Len(x) \in Nat /\ Len(l) \in Nat
      /\ (\A j \in 1..Len(x) : c[j] = x[j]) /\ c[Len(x) + 1] = i
      /\ DOMAIN c = 1..Len(x) + 1 /\ DOMAIN x = 1..Len(x) /\ DOMAIN l = 1..Len(l)
      /\ Kind(SubSeq(c, 1, Len(x))) = Kind(x)
  <2>1. /\ c \in Path /\ Len(c) = Len(x) + 1 /\ Len(x) \in Nat /\ Len(l) \in Nat
        /\ (\A j \in 1..Len(x) : c[j] = x[j]) /\ c[Len(x) + 1] = i
        /\ DOMAIN c = 1..Len(x) + 1 /\ DOMAIN x = 1..Len(x) /\ DOMAIN l = 1..Len(l)
    BY AppendStep DEF Path
  <2>2. Kind(Parent(c)) = Kind(x)
    BY AppendStep, Zenon
  <2>4. Len(c) - 1 = Len(x)
    BY <2>1
  <2> QED
    BY <2>1, <2>2, <2>4, Zenon DEF Parent
<1> HIDE DEF c
<1>1. ASSUME NEW k \in DOMAIN l, Parts(k, l, c)
      PROVE  Parts(k, l, x) \/ (Kind(x) = "chain" /\ i # 1)
  <2>1. CASE k <= Len(x)
    BY <1>0, <1>1, <2>1 DEF Parts
  <2>2. CASE k = Len(x) + 1
    <3>1. /\ \A j \in 1..Len(x) : l[j] = c[j]
          /\ Len(x) <= Len(l) /\ Len(x) <= Len(c)
      BY <1>0, <1>1, <2>2 DEF Parts
    <3>2. Kind(SubSeq(l, 1, Len(x))) = Kind(SubSeq(c, 1, Len(x)))
      BY <1>0, <3>1, SamePrefix, Zenon
    <3>3. Kind(x) = "chain" /\ l[k] < i
      BY <1>0, <1>1, <2>2, <3>2 DEF Parts
    <3>4. l[k] \in Nat \ {0}
      BY DEF Path
    <3> QED
      BY <3>3, <3>4
  <2> QED
    BY <1>0, <1>1, <2>1, <2>2 DEF Parts
<1>2. ASSUME NEW k \in DOMAIN c, Parts(k, c, l)
      PROVE  Parts(k, x, l) \/ (Kind(x) = "chain" /\ Below(x, l))
  <2>1. CASE k <= Len(x)
    <3>0. k - 1 \in Nat /\ k - 1 <= Len(c) /\ k - 1 <= Len(x) /\ k \in 1..Len(x)
          /\ \A j \in 1..k - 1 : c[j] = x[j]
      BY <1>0, <2>1
    <3>1. Kind(SubSeq(c, 1, k - 1)) = Kind(SubSeq(x, 1, k - 1))
      BY <1>0, <3>0, SamePrefix, SMTT(60)
    <3> QED
      BY <1>0, <1>2, <2>1, <3>1 DEF Parts
  <2>2. CASE k = Len(x) + 1
    BY <1>0, <1>2, <2>2 DEF Parts, Below
  <2> QED
    BY <1>0, <2>1, <2>2
<1>3. ASSUME NEW k \in DOMAIN x, Parts(k, x, l)
      PROVE  Parts(k, c, l)
  <2>0. k - 1 \in Nat /\ k - 1 <= Len(c) /\ k - 1 <= Len(x) /\ k \in 1..Len(x)
        /\ \A j \in 1..k - 1 : c[j] = x[j]
    BY <1>0
  <2>1. Kind(SubSeq(c, 1, k - 1)) = Kind(SubSeq(x, 1, k - 1))
    BY <1>0, <2>0, SamePrefix, ZenonT(30)
  <2> QED
    BY <1>0, <1>3, <2>1 DEF Parts
<1>4. Below(c, l) => Below(x, l)
  BY <1>0 DEF Below
<1>5. /\ Before(l, c) => Before(l, x) \/ (Kind(x) = "chain" /\ i # 1)
      /\ Flows(l, c) => Flows(l, x) \/ (Kind(x) = "chain" /\ i # 1)
  BY <1>1, Zenon DEF Before, Flows, Parts
<1>6. /\ Before(c, l) => Before(x, l) \/ (Kind(x) = "chain" /\ Below(x, l))
      /\ Before(x, l) => Before(c, l)
  BY <1>0, <1>2, <1>3, Zenon DEF Before, Parts
<1> QED
  BY <1>4, <1>5, <1>6, Zenon DEF c

\* The next handler in a Chain is one step to the right.
LEMMA FollowSteps ==
    ASSUME TypeOK, NEW x \in Nodes, Following(x) # NoopHandler
    PROVE  LET y == Following(x)
               n == Len(x)
           IN  /\ y \in Nodes /\ x # <<>> /\ Kind(Parent(x)) = "chain"
               /\ x \in Path /\ y \in Path /\ n \in Nat \ {0} /\ Len(y) = n
               /\ \A j \in 1..n - 1 : y[j] = x[j]
               /\ y[n] = x[n] + 1
               /\ Kind(SubSeq(x, 1, n - 1)) = "chain"
<1> DEFINE y == Following(x)
<1>1. /\ x # <<>> /\ Kind(Parent(x)) = "chain" /\ y \in Nodes
      /\ y = Append(Parent(x), Position(x) + 1)
  BY Zenon DEF Following
<1>2. x \in Path
  BY Tree, Zenon
<1>3. /\ Len(x) \in Nat \ {0} /\ Parent(x) \in Path /\ Len(Parent(x)) = Len(x) - 1
      /\ \A j \in 1..Len(x) - 1 : Parent(x)[j] = x[j]
      /\ Position(x) \in Nat \ {0} /\ Position(x) = x[Len(x)]
  BY <1>1, <1>2, ParentSteps, Zenon
<1>4. /\ y \in Path /\ Len(y) = Len(Parent(x)) + 1
      /\ \A j \in 1..Len(Parent(x)) : y[j] = Parent(x)[j]
      /\ y[Len(Parent(x)) + 1] = Position(x) + 1
  <2>1. Position(x) + 1 \in Nat \ {0}
    BY <1>3
  <2> QED
    BY <1>1, <1>3, <2>1, AppendStep
<1> HIDE DEF y
<1>5. Len(y) = Len(x) /\ (\A j \in 1..Len(x) - 1 : y[j] = x[j]) /\ y[Len(x)] = x[Len(x)] + 1
  BY <1>3, <1>4
<1>6. Kind(SubSeq(x, 1, Len(x) - 1)) = "chain"
  BY <1>1, Zenon DEF Parent
<1> QED
  BY <1>1, <1>2, <1>3, <1>4, <1>5, <1>6, Zenon DEF y

\* Chain's handlers: what is before or after the next one.
LEMMA FollowOrder ==
    ASSUME TypeOK, NEW x \in Nodes, Following(x) # NoopHandler, NEW l \in Path
    PROVE  LET y == Following(x)
           IN  /\ Before(l, y) => Before(l, x) \/ Below(x, l)
               /\ Flows(l, y) => Flows(l, x) \/ l = x
               /\ Before(y, l) => Before(x, l)
               /\ Below(y, l) => Before(x, l)
               /\ Before(x, l) => Below(y, l) \/ Before(y, l)
<1> DEFINE y == Following(x)
           n == Len(x)
<1>0. /\ x \in Path /\ y \in Path /\ n \in Nat \ {0} /\ Len(y) = n /\ Len(l) \in Nat
      /\ \A j \in 1..n - 1 : y[j] = x[j]
      /\ y[n] = x[n] + 1 /\ x[n] \in Nat
      /\ Kind(SubSeq(x, 1, n - 1)) = "chain"
      /\ DOMAIN x = 1..n /\ DOMAIN y = 1..n /\ DOMAIN l = 1..Len(l)
      /\ \A k \in 1..Len(l) : l[k] \in Nat
  <2>1. /\ x \in Path /\ y \in Path /\ n \in Nat \ {0} /\ Len(y) = n
        /\ \A j \in 1..n - 1 : y[j] = x[j]
        /\ y[n] = x[n] + 1
        /\ Kind(SubSeq(x, 1, n - 1)) = "chain"
    BY FollowSteps, Zenon
  <2> HIDE DEF y
  <2>2. /\ x[n] \in Nat /\ Len(l) \in Nat /\ \A k \in 1..Len(l) : l[k] \in Nat
        /\ DOMAIN x = 1..n /\ DOMAIN y = 1..n /\ DOMAIN l = 1..Len(l)
    BY <2>1 DEF Path
  <2> QED
    BY <2>1, <2>2, Zenon
<1> HIDE DEF y, n
<1>1. ASSUME NEW k \in DOMAIN l, Parts(k, l, y)
      PROVE  Parts(k, l, x) \/ (Below(x, l) /\ k = n)
  <2>1. CASE k < n
    BY <1>0, <1>1, <2>1 DEF Parts
  <2>2. CASE k = n
    BY <1>0, <1>1, <2>2, SMTT(60) DEF Parts, Below, n
  <2> QED
    BY <1>0, <1>1, <2>1, <2>2 DEF Parts
<1>2. \A k \in 1..n : Kind(SubSeq(y, 1, k - 1)) = Kind(SubSeq(x, 1, k - 1))
  <2> SUFFICES ASSUME NEW k \in 1..n
               PROVE  Kind(SubSeq(y, 1, k - 1)) = Kind(SubSeq(x, 1, k - 1))
    OBVIOUS
  <2>1. k - 1 \in Nat /\ k - 1 <= Len(y) /\ k - 1 <= Len(x) /\ \A j \in 1..k - 1 : y[j] = x[j]
    BY <1>0 DEF n
  <2> QED
    BY <1>0, <2>1, SamePrefix, ZenonT(30)
<1>3. ASSUME NEW k \in DOMAIN y, Parts(k, y, l)
      PROVE  Parts(k, x, l)
  <2>1. CASE k < n
    BY <1>0, <1>2, <1>3, <2>1 DEF Parts
  <2>2. CASE k = n
    <3>1. l[n] \in Nat
      BY <1>0, <1>3, <2>2, Zenon DEF Parts
    <3> QED
      BY <1>0, <1>3, <2>2, <3>1 DEF Parts
  <2> QED
    BY <1>0, <2>1, <2>2
<1>4. Below(y, l) => Parts(n, x, l)
  BY <1>0 DEF Parts, Below
<1>5. ASSUME NEW k \in DOMAIN x, Parts(k, x, l)
      PROVE  Parts(k, y, l) \/ Below(y, l)
  <2>1. CASE k < n
    BY <1>0, <1>2, <1>5, <2>1 DEF Parts
  <2>2. CASE k = n
    <3>1. l[n] \in Nat
      BY <1>0, <1>5, <2>2, Zenon DEF Parts
    <3> QED
      BY <1>0, <1>2, <1>5, <2>2, <3>1 DEF Parts, Below
  <2> QED
    BY <1>0, <2>1, <2>2
<1>6. Before(l, y) => Before(l, x) \/ Below(x, l)
  BY <1>1, Zenon DEF Before
<1>7. Flows(l, y) => Flows(l, x) \/ l = x
  <2>1. Flows(l, y) => Flows(l, x) \/ (Below(x, l) /\ Len(l) = n)
    BY <1>1, Zenon DEF Flows, Parts
  <2> QED
    BY <1>0, <2>1, SameSteps, Zenon DEF n
<1>8. /\ Before(y, l) => Before(x, l)
      /\ Below(y, l) => Before(x, l)
      /\ Before(x, l) => Below(y, l) \/ Before(y, l)
  BY <1>0, <1>3, <1>4, <1>5 DEF Before
<1> QED
  BY <1>6, <1>7, <1>8, Zenon DEF y

\* A handler is not before itself, and what has been put after is not before.
LEMMA Irreflexive ==
    ASSUME NEW x \in Path
    PROVE  ~Before(x, x)
<1> SUFFICES ASSUME NEW k \in DOMAIN x, x[k] < x[k] PROVE FALSE
  BY Zenon DEF Before, Parts
<1>1. x[k] \in Nat
  BY DEF Path
<1> QED
  BY <1>1

------------------------------------------------------------------------------
(***************************************************************************)
(* The goroutines of Parallel.                                             *)
(***************************************************************************)

\* What the invariants say of a thread that has not returned.
LEMMA AtThread ==
    ASSUME TInv, NEW t \in Threads, at[t] # NoopHandler
    PROVE  /\ t \in Nodes /\ t \in Path /\ at[t] \in Nodes /\ at[t] \in Path
           /\ Len(t) \in Nat /\ Len(at[t]) \in Nat
           /\ IsStart(t) /\ Below(t, at[t])
           /\ \A k \in Len(t)..Len(at[t]) - 1 : Kind(SubSeq(at[t], 1, k)) = "chain"
<1>1. t \in Nodes /\ at[t] \in Nodes
  BY Zenon DEF TInv, TypeOK
<1>2. t \in Path /\ at[t] \in Path
  BY <1>1, Tree, Zenon DEF TInv
<1>3. /\ IsStart(t) /\ Below(t, at[t])
      /\ \A k \in Len(t)..Len(at[t]) - 1 : Kind(SubSeq(at[t], 1, k)) = "chain"
  BY Zenon DEF TInv, ThreadsAreInside
<1> QED
  BY <1>1, <1>2, <1>3 DEF Path

\* While t runs, and when the goroutines that it waits for have returned,
\* there is no thread but these inside its builder.
LEMMA NoThreadBelow ==
    ASSUME TInv, NEW t \in Threads, at[t] # NoopHandler, NEW u \in Threads, u # t,
           t \in waiting => AllReturned(t) /\ u \notin Children(t)
    PROVE  ~Below(t, u)
<1> DEFINE x == at[t]
<1> SUFFICES ASSUME Below(t, u) PROVE FALSE
  OBVIOUS
<1>1. /\ t \in Nodes /\ t \in Path /\ x \in Nodes /\ x \in Path /\ Len(t) \in Nat /\ Len(x) \in Nat
      /\ IsStart(t) /\ Below(t, x)
  BY AtThread, Zenon
<1>2. u \in Nodes /\ u \in Path
  BY Tree, Zenon DEF TInv, TypeOK
<1>3. t \in waiting /\ Below(x, u) /\ Len(x) < Len(u)
  BY <1>1, Zenon DEF TInv, ThreadsAreNested
<1>4. Kind(x) = "parallel"
  BY <1>3, Zenon DEF TInv, TypeOK, IsAt
<1> DEFINE c == Append(x, u[Len(x) + 1])
<1>5. c \in Nodes /\ c # <<>> /\ Parent(c) = x /\ Below(c, u)
  <2>1. x # u
    BY <1>3
  <2>2. /\ u[Len(x) + 1] \in Nat \ {0} /\ Below(c, u)
        /\ \A j \in 1..u[Len(x) + 1] : Append(x, j) \in Nodes
    BY <1>1, <1>2, <1>3, <2>1, Inside, Zenon DEF TInv
  <2>3. c \in Nodes
    BY <2>2
  <2>4. Parent(c) = x /\ Len(c) = Len(x) + 1 /\ c \in Path
    BY <1>1, <2>2, AppendStep, Zenon
  <2> HIDE DEF c
  <2>5. c # <<>>
    BY <1>1, <2>4
  <2> QED
    BY <2>2, <2>3, <2>4, <2>5, Zenon
<1> HIDE DEF c
<1>6. c \in Threads /\ c \in Children(t) /\ at[c] = NoopHandler
  BY <1>3, <1>5, Zenon DEF TInv, ThreadsAreNested, AllReturned, Children
<1>7. c \in waiting
  BY <1>2, <1>3, <1>4, <1>5, <1>6, Zenon DEF TInv, ThreadsAreNested, IsStart
<1> QED
  BY <1>6, <1>7, Tree, Zenon DEF TInv, TypeOK, IsAt

\* Then no other thread that has not returned is inside its handler.
LEMMA NoneInside ==
    ASSUME TInv, NEW t \in Threads, at[t] # NoopHandler,
           NEW u \in Threads, u # t, at[u] # NoopHandler,
           t \in waiting => AllReturned(t)
    PROVE  ~Below(at[t], at[u])
<1> DEFINE x == at[t]
           z == at[u]
<1> SUFFICES ASSUME Below(x, z) PROVE FALSE
  OBVIOUS
<1>1. t \in Path /\ x \in Path /\ Len(t) \in Nat /\ Len(x) \in Nat /\ Below(t, x)
  BY AtThread, Zenon
<1>2. /\ u \in Nodes /\ u \in Path /\ z \in Path /\ Len(u) \in Nat /\ Len(z) \in Nat
      /\ IsStart(u) /\ Below(u, z)
  BY AtThread, Zenon
<1>3. ~Below(t, u)
  BY NoThreadBelow, Zenon DEF AllReturned
<1>4. Below(t, z)
  BY <1>1, <1>2, Transitive, Zenon
<1>5. CASE Len(t) <= Len(u)
  BY <1>1, <1>2, <1>3, <1>4, <1>5, Comparable, Zenon
<1>6. CASE Len(u) < Len(t)
  <2>1. Below(u, t)
    BY <1>1, <1>2, <1>4, <1>6, Comparable
  <2>2. Len(z) < Len(t)
    BY <1>1, <1>2, <2>1, Zenon DEF TInv, ThreadsAreNested
  <2> QED
    BY <1>1, <1>2, <2>2 DEF Below
<1> QED
  BY <1>1, <1>2, <1>5, <1>6

\* typedctx: what a leaf makes of its context and of the boxes has its type.
LEMMA ValueTypes ==
    ASSUME TypeOK, NEW t \in Threads, at[t] \in Leaves, NEW word \in {1, 2}
    PROVE  /\ WithContext(ctx[t], at[t]) \in [plain : PlainValues, box : Leaves \cup {NoBox}]
           /\ FillWord(ctx[t], at[t], word) => box' \in [Leaves -> Words \X Words]
           /\ ReadWord(ctx[t], at[t], word) =>
                 seen' \in [Leaves -> [plain : PlainValues, boxed : Words \X Words]]
<1> DEFINE l == at[t]
           c == ctx[t]
<1>1. /\ c \in [plain : PlainValues, box : Leaves \cup {NoBox}]
      /\ c.plain \in PlainValues /\ c.box \in Leaves \cup {NoBox}
      /\ box \in [Leaves -> Words \X Words]
      /\ seen \in [Leaves -> [plain : PlainValues, boxed : Words \X Words]]
  BY Zenon DEF TypeOK
<1> HIDE DEF c, l
<1>2. Slot(builder[l].key) \in Keys /\ \A key \in Keys : Slot(key) \in Keys
  BY Zenon DEF Slot, Keys, Leaves, l
<1>3. WithPlain(c, l) \in PlainValues
  BY <1>1, <1>2, Zenon DEF WithPlain, PlainValues, l
<1>4. WithContext(c, l) \in [plain : PlainValues, box : Leaves \cup {NoBox}]
  BY <1>1, <1>3, Zenon DEF WithContext, l
<1>5. \A pair \in Words \X Words, v \in Words : [pair EXCEPT ![word] = v] \in Words \X Words
  OBVIOUS
<1>6. ASSUME FillWord(c, l, word) PROVE box' \in [Leaves -> Words \X Words]
  <2>1. CASE Op(l) # "fill"
    BY <1>1, <1>6, <2>1, Zenon DEF FillWord
  <2>2. CASE Op(l) = "fill"
    <3> DEFINE m == WithContext(c, l).box
    <3>1. m \in Leaves /\ l \in Words
      BY <1>1, <2>2, Zenon DEF WithContext, l, Words
    <3> HIDE DEF m
    <3>2. box' = [box EXCEPT ![m] = [box[m] EXCEPT ![word] = l]]
      BY <1>6, <2>2, Zenon DEF FillWord, m
    <3>3. [box[m] EXCEPT ![word] = l] \in Words \X Words
      BY <1>1, <1>5, <3>1, Zenon
    <3> QED
      BY <1>1, <3>1, <3>2, <3>3, Zenon
  <2> QED
    BY <2>1, <2>2, Zenon
<1>7. ASSUME ReadWord(c, l, word)
      PROVE  seen' \in [Leaves -> [plain : PlainValues, boxed : Words \X Words]]
  <2>1. CASE Op(l) # "read"
    BY <1>1, <1>7, <2>1, Zenon DEF ReadWord
  <2>2. CASE Op(l) = "read"
    <3> DEFINE p == [key \in Keys |-> c.plain[Slot(key)]]
               v == Boxed(c, word)
    <3>1. p \in PlainValues
      BY <1>1, <1>2, Zenon DEF PlainValues
    <3>2. v \in Words
      BY <1>1, Zenon DEF Boxed, Words
    <3> HIDE DEF p, v
    <3>3. seen' = [seen EXCEPT ![l].plain = p, ![l].boxed[word] = v]
      BY <1>7, <2>2, Zenon DEF ReadWord, p, v
    <3> DEFINE pair == [seen[l].boxed EXCEPT ![word] = v]
    <3>4. seen[l].boxed \in Words \X Words /\ l \in Leaves
      BY <1>1, Zenon DEF l
    <3>5. pair \in Words \X Words
      BY <1>5, <3>2, <3>4, Zenon
    <3> HIDE DEF pair
    <3>6. seen' = [seen EXCEPT ![l] = [seen[l] EXCEPT !.plain = p, !.boxed = pair]]
      BY <1>1, <3>3, <3>4, ZenonT(30) DEF pair
    <3> DEFINE Pairs == Words \X Words
    <3>7. /\ seen \in [Leaves -> [plain : PlainValues, boxed : Pairs]]
          /\ pair \in Pairs
      BY <1>1, <3>5, Zenon
    <3> HIDE DEF Pairs
    <3>8. seen' \in [Leaves -> [plain : PlainValues, boxed : Pairs]]
      BY <3>1, <3>4, <3>6, <3>7, Zenon
    <3> QED
      BY <3>8, Zenon DEF Pairs
  <2> QED
    BY <2>1, <2>2, Zenon
<1> QED
  BY <1>4, <1>6, <1>7, Zenon DEF c, l

\* The goroutines that Parallel starts are new.
LEMMA NewThreads ==
    ASSUME TInv, NEW t \in Threads, IsAt(t, "parallel"),
           NEW c \in Nodes \ {<<>>}, Parent(c) = at[t]
    PROVE  /\ c \in Path /\ Position(c) \in Nat \ {0} /\ c = Append(at[t], Position(c))
           /\ Len(c) = Len(at[t]) + 1 /\ Below(at[t], c) /\ Below(t, c)
           /\ t \notin waiting => c \notin Threads
<1> DEFINE x == at[t]
<1>1. at[t] # NoopHandler
  BY Tree, Zenon DEF TInv, IsAt
<1>2. t \in Path /\ x \in Path /\ Len(t) \in Nat /\ Len(x) \in Nat /\ Below(t, x)
  BY <1>1, AtThread, Zenon
<1>3. c \in Path /\ c # <<>>
  BY Tree, Zenon DEF TInv
<1>4. Position(c) \in Nat \ {0} /\ c = Append(x, Position(c))
  BY <1>3, ParentSteps, Zenon
<1>5. Len(c) = Len(x) + 1 /\ Below(x, c)
  BY <1>2, <1>4, AppendStep DEF Below
<1> HIDE DEF x
<1>6. Below(t, c)
  BY <1>2, <1>3, <1>5, Transitive, Zenon
<1>7. c # t
  BY <1>2, <1>5 DEF Below
<1>8. t \notin waiting => c \notin Threads
  BY <1>1, <1>6, <1>7, NoThreadBelow, Zenon
<1> QED
  BY <1>3, <1>4, <1>5, <1>6, <1>8, Zenon DEF x

\* Every step keeps the types.
LEMMA TypePreserves ==
    ASSUME TInv, NEW t \in Threads, Step(t)
    PROVE  TypeOK'
<1> DEFINE ThreadsOK == /\ at \in [Threads -> Nodes \cup {NoopHandler}]
                        /\ Threads \subseteq Nodes /\ <<>> \in Threads
                        /\ waiting \subseteq {u \in Threads : IsAt(u, "parallel")}
           RunsOK == working \subseteq Leaves /\ ran \subseteq Leaves /\ stopped \subseteq ran
           CtxOK == ctx \in [Threads -> [plain : PlainValues, box : Leaves \cup {NoBox}]]
           BoxOK == box \in [Leaves -> Words \X Words]
           SeenOK == seen \in [Leaves -> [plain : PlainValues, boxed : Words \X Words]]
<1>t. TypeOK
  BY Zenon DEF TInv
<1>0. /\ builder \in Builders /\ aliased \in BOOLEAN
      /\ ThreadsOK /\ RunsOK /\ CtxOK /\ BoxOK /\ SeenOK
  BY <1>t, Zenon DEF TypeOK
<1>1. builder' = builder /\ aliased' = aliased
  BY Zenon DEF Step, Chain, Begin, CallNext, Stop, Parallel, Wait, Joined
<1>2. /\ Nodes' = Nodes /\ Leaves' = Leaves /\ Words' = Words /\ PlainValues' = PlainValues
      /\ \A p : Kind(p)' = Kind(p)
  BY <1>1, Zenon DEF Nodes, Leaves, Words, PlainValues, Keys, Kind
<1>3. NoopHandler \notin Nodes
  BY <1>t, Tree, Zenon
<1>4. \A p \in Nodes : Following(p) \in Nodes \cup {NoopHandler}
  BY Zenon DEF Following
<1>5. IsAt(t, "leaf") => at[t] \in Leaves
  BY Zenon DEF IsAt, Leaves
<1>6. SUFFICES ThreadsOK' /\ RunsOK' /\ CtxOK' /\ BoxOK' /\ SeenOK'
  BY <1>0, <1>1, Zenon DEF TypeOK
<1>7. CASE Chain(t)
  BY <1>0, <1>1, <1>2, <1>7, Zenon DEF Chain, IsAt, valueVars, Threads
<1>8. CASE Begin(t)
  BY <1>0, <1>1, <1>2, <1>5, <1>8, <1>t, ValueTypes, Zenon DEF Begin, IsAt, Threads
<1>9. CASE CallNext(t)
  BY <1>0, <1>1, <1>2, <1>4, <1>5, <1>9, <1>t, ValueTypes, Zenon DEF CallNext, End, IsAt, Threads
<1>10. CASE Stop(t)
  BY <1>0, <1>1, <1>2, <1>5, <1>10, <1>t, ValueTypes, Zenon DEF Stop, End, IsAt, Threads
<1>11. CASE Parallel(t)
  <2> DEFINE new == {u \in Nodes \ {<<>>} : Parent(u) = at[t]}
             D == Threads \cup new
  <2>1. /\ waiting' = waiting \cup {t} /\ t \in Threads
        /\ at[t] \in Nodes /\ Kind(at[t]) = "parallel"
        /\ at' = [u \in D |-> IF u \in new THEN u ELSE at[u]]
        /\ ctx' = [u \in D |-> IF u \in new THEN ctx[t] ELSE ctx[u]]
        /\ UNCHANGED <<working, ran, stopped, box, seen>>
    BY <1>11, Zenon DEF Parallel, IsAt
  <2>2. \A u \in Threads : u \notin new
    BY <1>11, NewThreads, Zenon DEF Parallel
  <2>3. new \subseteq Nodes
    OBVIOUS
  <2> HIDE DEF new
  <2>4. at' \in [D -> Nodes \cup {NoopHandler}] /\ Threads' = D
    BY <1>0, <2>1, <2>3, Zenon DEF Threads
  <2>5. waiting' \subseteq {u \in Threads' : IsAt(u, "parallel")'}
    BY <1>0, <1>2, <2>1, <2>2, <2>4 DEF IsAt
  <2>6. ThreadsOK'
    BY <1>0, <1>2, <2>3, <2>4, <2>5, Zenon
  <2>7. CtxOK'
    BY <1>0, <1>2, <2>1, <2>4, Zenon
  <2> QED
    BY <1>0, <1>2, <2>1, <2>6, <2>7, Zenon
<1>12. CASE Wait(t)
  <2> DEFINE D == Threads \ Children(t)
  <2>1. /\ waiting' = waiting \ {t} /\ t \in waiting
        /\ at' = [u \in D |-> IF u = t THEN Following(at[t]) ELSE at[u]]
        /\ ctx' = [u \in D |-> IF u = t THEN ctx[t] ELSE ctx[u]]
        /\ UNCHANGED <<working, ran, stopped, box, seen>>
    BY <1>12, Zenon DEF Wait, Joined
  <2>2. \A u \in waiting \ {t} : u \in D /\ at[u] \in Nodes /\ Kind(at[u]) = "parallel"
    BY <1>0, <1>3, <1>12 DEF Wait, AllReturned, IsAt
  <2>3. at[t] \in Nodes /\ D \subseteq Threads /\ <<>> \in D
    BY <1>0, <2>1, Zenon DEF IsAt, Children
  <2> HIDE DEF D
  <2>4. at' \in [D -> Nodes \cup {NoopHandler}] /\ Threads' = D
    BY <1>0, <1>4, <2>1, <2>3, Zenon DEF Threads
  <2>5. waiting' \subseteq {u \in Threads' : IsAt(u, "parallel")'}
    BY <1>2, <2>1, <2>2, <2>4, Zenon DEF IsAt
  <2>6. ThreadsOK'
    BY <1>0, <1>2, <2>3, <2>4, <2>5, Zenon
  <2>7. CtxOK'
    BY <1>0, <1>2, <2>1, <2>3, <2>4, Zenon
  <2> QED
    BY <1>0, <1>2, <2>1, <2>6, <2>7, Zenon
<1> QED
  BY <1>7, <1>8, <1>9, <1>10, <1>11, <1>12, Zenon DEF Step

------------------------------------------------------------------------------
(***************************************************************************)
(* The steps but Begin and Parallel take a thread from one handler to the  *)
(* next: into a Chain, on in one, or back to the caller.                   *)
(***************************************************************************)
Gone(t) == IF t \in waiting THEN Children(t) ELSE {}

Moves(t, y) ==
    /\ at[t] # NoopHandler
    /\ \/ /\ Kind(at[t]) = "chain" /\ t \notin waiting
          /\ y = IF Append(at[t], 1) \in Nodes THEN Append(at[t], 1) ELSE NoopHandler
          /\ UNCHANGED <<working, ran, stopped>>
       \/ /\ Kind(at[t]) = "parallel" /\ t \in waiting /\ AllReturned(t)
          /\ y = Following(at[t])
          /\ UNCHANGED <<working, ran, stopped>>
       \/ /\ Kind(at[t]) = "leaf" /\ t \notin waiting
          /\ working' = working \ {at[t]} /\ ran' = ran \cup {at[t]}
          /\ \/ y = Following(at[t]) /\ stopped' = stopped
             \/ y = NoopHandler /\ stopped' = stopped \cup {at[t]}
    /\ builder' = builder
    /\ waiting' = waiting \ {t}
    /\ Threads' = Threads \ Gone(t)
    /\ t \in Threads'
    /\ \A u \in Threads' : at'[u] = IF u = t THEN y ELSE at[u]

\* All steps of a thread but Begin and Parallel move it.
LEMMA StepsMove ==
    ASSUME TInv, NEW t \in Threads, Chain(t) \/ CallNext(t) \/ Stop(t) \/ Wait(t)
    PROVE  Moves(t, at'[t])
<1>0. /\ at \in [Threads -> Nodes \cup {NoopHandler}] /\ NoopHandler \notin Nodes
      /\ \A u \in waiting : at[u] \in Nodes /\ Kind(at[u]) = "parallel"
  BY Tree, Zenon DEF TInv, TypeOK, IsAt
<1>1. CASE Chain(t)
  <2>1. t \notin waiting
    BY <1>0, <1>1, Zenon DEF Chain, IsAt
  <2> QED
    BY <1>0, <1>1, <2>1, Zenon DEF Chain, IsAt, Moves, Gone, Threads
<1>2. CASE CallNext(t) \/ Stop(t)
  <2>1. t \notin waiting
    BY <1>0, <1>2, Zenon DEF CallNext, Stop, End, IsAt
  <2> QED
    BY <1>0, <1>2, <2>1, Zenon DEF CallNext, Stop, End, IsAt, Moves, Gone, Threads
<1>3. CASE Wait(t)
  <2>1. t \in waiting /\ at[t] \in Nodes /\ Kind(at[t]) = "parallel" /\ at[t] # NoopHandler
    BY <1>0, <1>3, Zenon DEF Wait
  <2>2. t \notin Children(t)
    <3>1. t \in Children(t) => at[t] = NoopHandler
      BY <1>3, Zenon DEF Wait, AllReturned
    <3> QED
      BY <2>1, <3>1, Zenon
  <2>3. /\ Threads' = Threads \ Gone(t)
        /\ \A u \in Threads' : at'[u] = IF u = t THEN Following(at[t]) ELSE at[u]
    BY <1>3, <2>1, Zenon DEF Wait, Joined, Gone, Threads
  <2> QED
    BY <1>3, <2>1, <2>2, <2>3, Zenon DEF Wait, Joined, Moves, Gone
<1> QED
  BY <1>1, <1>2, <1>3, Zenon

\* Where a thread comes to is further on in its builder.
LEMMA MovesInside ==
    ASSUME TInv, NEW t \in Threads, NEW y, Moves(t, y), y # NoopHandler
    PROVE  /\ y \in Nodes /\ y \in Path /\ Below(t, y)
           /\ \A k \in Len(t)..Len(y) - 1 : Kind(SubSeq(y, 1, k)) = "chain"
           /\ \/ y = Following(at[t])
              \/ y = Append(at[t], 1) /\ Kind(at[t]) = "chain"
<1> DEFINE x == at[t]
<1>1. /\ t \in Nodes /\ t \in Path /\ x \in Nodes /\ x \in Path /\ Len(t) \in Nat /\ Len(x) \in Nat
      /\ IsStart(t) /\ Below(t, x) /\ TypeOK
      /\ \A k \in Len(t)..Len(x) - 1 : Kind(SubSeq(x, 1, k)) = "chain"
  BY AtThread, Zenon DEF Moves, TInv
<1>2. y = Following(x) \/ (y = Append(x, 1) /\ y \in Nodes /\ Kind(x) = "chain")
  BY Zenon DEF Moves
<1>3. CASE y = Following(x)
  <2> DEFINE n == Len(x)
  <2>1. /\ y \in Nodes /\ x # <<>> /\ Kind(Parent(x)) = "chain"
        /\ y \in Path /\ n \in Nat \ {0} /\ Len(y) = n
        /\ \A j \in 1..n - 1 : y[j] = x[j]
    BY <1>1, <1>3, FollowSteps, Zenon
  <2>2. t # x
    BY <1>1, <2>1, Zenon DEF IsStart
  <2>3. Len(t) < n
    <3>1. Len(t) # n
      BY <1>1, <2>2, SameSteps, Zenon
    <3> QED
      BY <1>1, <3>1 DEF Below
  <2>4. Below(t, y)
    BY <1>1, <2>1, <2>3 DEF Below
  <2>5. ASSUME NEW k \in Len(t)..Len(y) - 1 PROVE Kind(SubSeq(y, 1, k)) = "chain"
    <3>1. k \in Nat /\ k <= Len(x) /\ k <= Len(y) /\ \A j \in 1..k : y[j] = x[j]
      BY <1>1, <2>1
    <3>2. Kind(SubSeq(y, 1, k)) = Kind(SubSeq(x, 1, k))
      BY <1>1, <2>1, <3>1, SamePrefix, Zenon
    <3>3. k \in Len(t)..Len(x) - 1
      BY <2>1, Zenon
    <3> QED
      BY <1>1, <3>2, <3>3, Zenon
  <2> QED
    BY <1>3, <2>1, <2>4, <2>5, Zenon
<1>4. CASE y = Append(x, 1) /\ y \in Nodes /\ Kind(x) = "chain"
  <2>1. y \in Path /\ Len(y) = Len(x) + 1 /\ (\A j \in 1..Len(x) : y[j] = x[j])
        /\ Parent(y) = x
    BY <1>1, <1>4, AppendStep
  <2>2. Below(t, y)
    BY <1>1, <2>1 DEF Below
  <2>3. ASSUME NEW k \in Len(t)..Len(y) - 1 PROVE Kind(SubSeq(y, 1, k)) = "chain"
    <3>1. k \in Nat /\ k <= Len(x) /\ k <= Len(y) /\ \A j \in 1..k : y[j] = x[j]
      BY <1>1, <2>1
    <3>2. CASE k < Len(x)
      <4>1. Kind(SubSeq(y, 1, k)) = Kind(SubSeq(x, 1, k))
        BY <1>1, <2>1, <3>1, SamePrefix, Zenon
      <4> QED
        BY <1>1, <3>2, <4>1
    <3>3. CASE k = Len(x)
      <4>1. Kind(Parent(y)) = "chain"
        BY <1>4, <2>1, Zenon
      <4>2. Len(y) - 1 = k
        BY <1>1, <2>1, <3>3
      <4> QED
        BY <4>1, <4>2, Zenon DEF Parent
    <3> QED
      BY <1>1, <3>1, <3>2, <3>3
  <2> QED
    BY <1>4, <2>1, <2>2, <2>3, Zenon
<1> QED
  BY <1>2, <1>3, <1>4, Zenon

\* The composition stays as it was built.
LEMMA SameTree ==
    ASSUME builder' = builder
    PROVE  /\ Nodes' = Nodes /\ Leaves' = Leaves
           /\ \A p : (Kind(p)' = Kind(p)) /\ (IsStart(p)' <=> IsStart(p))
           /\ \A l, m : (Before(l, m)' <=> Before(l, m)) /\ (Flows(l, m)' <=> Flows(l, m))
<1>1. \A p : Kind(p)' = Kind(p)
  BY Zenon DEF Kind
<1> QED
  BY <1>1 DEF Nodes, Leaves, IsStart, Before, Flows, Parts

\* Threads that move stay where ThreadsAreInside and the others put them.
LEMMA MovingPreserves ==
    ASSUME TInv, NEW t \in Threads, NEW y, Moves(t, y), TypeOK'
    PROVE  TInv'
<1> DEFINE x == at[t]
<1>0. /\ builder' = builder /\ waiting' = waiting \ {t}
      /\ Threads' = Threads \ Gone(t) /\ t \in Threads'
      /\ at'[t] = y /\ \A u \in Threads' \ {t} : u \in Threads /\ at'[u] = at[u]
      /\ x # NoopHandler /\ (t \in waiting => AllReturned(t))
  BY Zenon DEF Moves
<1>1. /\ Nodes' = Nodes
      /\ \A p : (Kind(p)' = Kind(p)) /\ (IsStart(p)' <=> IsStart(p))
      /\ \A l, m : Before(l, m)' <=> Before(l, m)
  BY <1>0, SameTree, Zenon
<1>2. ThreadsAreInside'
  <2> SUFFICES ASSUME NEW u \in Threads'
               PROVE  /\ IsStart(u)
                      /\ at'[u] # NoopHandler =>
                            /\ Below(u, at'[u])
                            /\ \A k \in Len(u)..Len(at'[u]) - 1 : Kind(SubSeq(at'[u], 1, k)) = "chain"
    BY <1>1, Zenon DEF ThreadsAreInside
  <2>1. CASE u = t
    BY <1>0, <2>1, MovesInside, Zenon DEF TInv, ThreadsAreInside
  <2>2. CASE u # t
    BY <1>0, <2>2, Zenon DEF TInv, ThreadsAreInside
  <2> QED
    BY <2>1, <2>2, Zenon
<1>3. \A u \in waiting \ {t} : u \in Threads' /\ at'[u] = at[u]
  <2>1. \A u \in waiting : u \in Threads /\ at[u] # NoopHandler
    BY Tree, Zenon DEF TInv, TypeOK, IsAt
  <2> QED
    BY <1>0, <2>1, Zenon DEF Gone, AllReturned
<1>4. ThreadsAreNested'
  <2>1. ASSUME NEW u \in Threads', NEW v \in Nodes, Below(v, u), v # u, IsStart(v)
        PROVE  v \in waiting' /\ Below(at'[v], u) /\ Len(at'[v]) < Len(u)
    <3>1. u \in Threads /\ (t \in waiting => u \notin Children(t))
      BY <1>0, Zenon DEF Gone
    <3>2. v \in waiting /\ Below(at[v], u) /\ Len(at[v]) < Len(u)
      BY <2>1, <3>1, Zenon DEF TInv, ThreadsAreNested
    <3>3. v # t
      BY <1>0, <2>1, <3>1, NoThreadBelow, Zenon
    <3> QED
      BY <1>0, <1>3, <3>2, <3>3, Zenon
  <2>2. ASSUME NEW w \in waiting', NEW c \in Nodes \ {<<>>}, Parent(c) = at'[w]
        PROVE  c \in Threads'
    <3>1. w \in waiting /\ w # t /\ w \in Threads /\ at[w] # NoopHandler /\ Parent(c) = at[w]
      BY <1>0, <1>3, <2>2, Tree DEF TInv, TypeOK, IsAt
    <3>2. c \in Threads
      BY <3>1, Zenon DEF TInv, ThreadsAreNested
    <3>3. at[w] # x
      <4>1. ~Below(x, at[w])
        BY <1>0, <3>1, NoneInside, Zenon
      <4>2. Below(x, x)
        BY <1>0, AtThread DEF Below
      <4> QED
        BY <4>1, <4>2, Zenon
    <3> QED
      BY <1>0, <3>1, <3>2, <3>3, Zenon DEF Gone, Children
  <2> QED
    BY <1>1, <2>1, <2>2, Zenon DEF ThreadsAreNested
<1>5. ASSUME NEW u \in Threads', u # t, at'[u] # NoopHandler, y # NoopHandler
      PROVE  ~Before(y, at'[u]) /\ ~Before(at'[u], y)
  <2> DEFINE z == at[u]
  <2>1. u \in Threads /\ at'[u] = z /\ z # NoopHandler
    BY <1>0, <1>5, Zenon
  <2>2. ~Before(x, z) /\ ~Before(z, x)
    BY <1>0, <2>1, Zenon DEF TInv, ThreadsAreUnordered
  <2>3. ~Below(x, z)
    BY <1>0, <1>5, <2>1, NoneInside, Zenon
  <2>4. x \in Nodes /\ x \in Path /\ z \in Path
    BY <1>0, <2>1, AtThread, Zenon
  <2>5. CASE y = Following(x)
    BY <1>5, <2>1, <2>2, <2>3, <2>4, <2>5, FollowOrder, Zenon DEF TInv
  <2>6. CASE y = Append(x, 1)
    BY <2>1, <2>2, <2>3, <2>4, <2>6, ChildOrder
  <2> QED
    BY <1>5, <2>5, <2>6, MovesInside, Zenon
<1>6. ThreadsAreUnordered'
  <2>1. y # NoopHandler => ~Before(y, y)
    BY MovesInside, Irreflexive, Zenon
  <2> SUFFICES ASSUME NEW u \in Threads', NEW v \in Threads', at'[u] # NoopHandler, at'[v] # NoopHandler
               PROVE  ~Before(at'[u], at'[v])
    BY <1>1, Zenon DEF ThreadsAreUnordered
  <2>2. CASE u # t /\ v # t
    BY <1>0, <2>2, Zenon DEF TInv, ThreadsAreUnordered
  <2> QED
    BY <1>0, <1>5, <2>1, <2>2, Zenon
<1> QED
  BY <1>2, <1>4, <1>6, Zenon DEF TInv

\* The goroutines that Parallel(t) starts, and where they begin.
Started(t) == {c \in Nodes \ {<<>>} : Parent(c) = at[t]}

\* What Parallel does to the threads.
LEMMA Starting ==
    ASSUME TInv, NEW t \in Threads, Parallel(t)
    PROVE  /\ at[t] # NoopHandler /\ Kind(at[t]) = "parallel" /\ t \notin waiting
           /\ builder' = builder /\ waiting' = waiting \cup {t}
           /\ Threads' = Threads \cup Started(t)
           /\ \A c \in Started(t) : c \notin Threads /\ at'[c] = c
           /\ \A u \in Threads : at'[u] = at[u]
           /\ UNCHANGED <<working, ran, stopped>>
<1>1. at[t] # NoopHandler /\ Kind(at[t]) = "parallel" /\ t \notin waiting
  BY Tree, Zenon DEF TInv, Parallel, IsAt
<1>2. \A c \in Started(t) : c \notin Threads
  BY <1>1, NewThreads, Zenon DEF Started, Parallel
<1>3. at' = [u \in Threads \cup Started(t) |-> IF u \in Started(t) THEN u ELSE at[u]]
  BY Zenon DEF Parallel, Started
<1> QED
  BY <1>1, <1>2, <1>3, Zenon DEF Parallel, Threads

\* The goroutines of a Parallel are children of the thread that waits.
LEMMA StartingPreserves ==
    ASSUME TInv, NEW t \in Threads, Parallel(t), TypeOK'
    PROVE  TInv'
<1> DEFINE x == at[t]
<1>0. /\ x # NoopHandler /\ Kind(x) = "parallel" /\ t \notin waiting
      /\ builder' = builder /\ waiting' = waiting \cup {t}
      /\ Threads' = Threads \cup Started(t)
      /\ \A c \in Started(t) : c \notin Threads /\ at'[c] = c
      /\ \A u \in Threads : at'[u] = at[u]
  BY Starting, Zenon
<1>1. /\ Nodes' = Nodes
      /\ \A p : (Kind(p)' = Kind(p)) /\ (IsStart(p)' <=> IsStart(p))
      /\ \A l, m : Before(l, m)' <=> Before(l, m)
  BY <1>0, SameTree, Zenon
<1>2. /\ t \in Nodes /\ t \in Path /\ x \in Nodes /\ x \in Path /\ Len(t) \in Nat /\ Len(x) \in Nat
      /\ IsStart(t) /\ Below(t, x)
      /\ \A k \in Len(t)..Len(x) - 1 : Kind(SubSeq(x, 1, k)) = "chain"
  BY <1>0, AtThread, Zenon
<1>3. ASSUME NEW c \in Started(t)
      PROVE  /\ c \in Nodes /\ c # <<>> /\ Parent(c) = x
             /\ c \in Path /\ Position(c) \in Nat \ {0} /\ c = Append(x, Position(c))
             /\ Len(c) = Len(x) + 1 /\ Below(x, c) /\ Below(t, c)
             /\ c # NoopHandler /\ IsStart(c)
  <2>1. c \in Nodes \ {<<>>} /\ Parent(c) = x
    BY Zenon DEF Started
  <2>2. c # NoopHandler
    BY <2>1, Tree, Zenon DEF TInv
  <2>3. IsStart(c)
    BY <1>0, <2>1, Zenon DEF IsStart
  <2>4. IsAt(t, "parallel")
    BY <1>0, <1>2, Zenon DEF IsAt
  <2> QED
    BY <1>0, <2>1, <2>2, <2>3, <2>4, NewThreads, Zenon
<1> HIDE DEF x
<1>4. ThreadsAreInside'
  <2> SUFFICES ASSUME NEW u \in Threads'
               PROVE  /\ IsStart(u)
                      /\ at'[u] # NoopHandler =>
                            /\ Below(u, at'[u])
                            /\ \A k \in Len(u)..Len(at'[u]) - 1 : Kind(SubSeq(at'[u], 1, k)) = "chain"
    BY <1>1, Zenon DEF ThreadsAreInside
  <2>1. CASE u \in Started(t)
    BY <1>0, <1>2, <1>3, <2>1 DEF Below
  <2>2. CASE u \in Threads
    BY <1>0, <2>2, Zenon DEF TInv, ThreadsAreInside
  <2> QED
    BY <1>0, <2>1, <2>2, Zenon
<1>5. ThreadsAreNested'
  <2>1. ASSUME NEW u \in Threads, NEW v \in Nodes, Below(v, u), v # u, IsStart(v)
        PROVE  v \in waiting' /\ Below(at'[v], u) /\ Len(at'[v]) < Len(u)
    <3>1. v \in waiting /\ Below(at[v], u) /\ Len(at[v]) < Len(u)
      BY <2>1, Zenon DEF TInv, ThreadsAreNested
    <3>2. v \in Threads
      BY <3>1, Zenon DEF TInv, TypeOK
    <3> QED
      BY <1>0, <3>1, <3>2, Zenon
  <2>2. ASSUME NEW c \in Started(t), NEW v \in Nodes, Below(v, c), v # c, IsStart(v)
        PROVE  v \in waiting' /\ Below(at'[v], c) /\ Len(at'[v]) < Len(c)
    <3>0. /\ v \in Path /\ Len(v) \in Nat /\ c \in Path /\ Len(c) = Len(x) + 1
          /\ Below(x, c) /\ Below(t, c)
      BY <1>3, Tree DEF TInv, Path
    <3>1. Len(v) <= Len(x)
      <4>1. Len(v) # Len(c)
        BY <2>2, <3>0, SameSteps, Zenon
      <4> QED
        BY <1>2, <2>2, <3>0, <4>1 DEF Below
    <3>2. Below(v, x)
      BY <1>2, <2>2, <3>0, <3>1, Comparable, Zenon
    <3>3. CASE v = t
      BY <1>0, <1>2, <3>0, <3>3 DEF x
    <3>4. CASE v # t /\ Len(v) <= Len(t)
      <4>1. Below(v, t)
        BY <1>2, <3>0, <3>2, <3>4, Comparable, Zenon
      <4>2. v \in waiting /\ Below(at[v], t) /\ Len(at[v]) < Len(t)
        BY <2>2, <3>4, <4>1, Zenon DEF TInv, ThreadsAreNested
      <4>3. v \in Threads /\ at[v] \in Path
        BY <4>2, Tree, Zenon DEF TInv, TypeOK, IsAt
      <4>4. Below(at[v], c)
        BY <1>2, <3>0, <4>2, <4>3, Transitive, Zenon
      <4>5. Len(at[v]) < Len(c)
        BY <1>2, <3>0, <4>2, <4>3 DEF Path, Below
      <4> QED
        BY <1>0, <4>2, <4>3, <4>4, <4>5, Zenon
    <3>5. CASE Len(t) < Len(v)
      <4>1. v # <<>>
        BY <1>2, <3>5
      <4>2. Kind(Parent(v)) = "parallel"
        BY <2>2, <4>1, Zenon DEF IsStart
      <4>3. Len(v) - 1 \in Len(t)..Len(x) - 1
        BY <1>2, <3>0, <3>1, <3>5
      <4>4. Len(v) - 1 \in Nat /\ Len(v) - 1 <= Len(v) /\ Len(v) - 1 <= Len(x)
            /\ \A i \in 1..Len(v) - 1 : v[i] = x[i]
        BY <1>2, <3>0, <3>1, <3>2, <3>5 DEF Below
      <4>5. Kind(SubSeq(v, 1, Len(v) - 1)) = Kind(SubSeq(x, 1, Len(v) - 1))
        BY <1>2, <3>0, <4>4, SamePrefix, ZenonT(30)
      <4> QED
        BY <1>2, <4>2, <4>3, <4>5, Zenon DEF Parent
    <3> QED
      BY <1>2, <3>0, <3>3, <3>4, <3>5
  <2>3. ASSUME NEW w \in waiting', NEW c \in Nodes \ {<<>>}, Parent(c) = at'[w]
        PROVE  c \in Threads'
    <3>1. CASE w = t
      BY <1>0, <2>3, <3>1, Zenon DEF Started
    <3>2. CASE w # t
      <4>1. w \in waiting /\ w \in Threads
        BY <1>0, <3>2, Zenon DEF TInv, TypeOK
      <4> QED
        BY <1>0, <2>3, <4>1, Zenon DEF TInv, ThreadsAreNested
    <3> QED
      BY <3>1, <3>2, Zenon
  <2> QED
    BY <1>0, <1>1, <2>1, <2>2, <2>3, Zenon DEF ThreadsAreNested
<1>6. ThreadsAreUnordered'
  <2>1. ASSUME NEW c \in Started(t), NEW z \in Path, ~Before(x, z), ~Before(z, x)
        PROVE  ~Before(c, z) /\ ~Before(z, c)
    <3>1. Position(c) \in Nat \ {0} /\ c = Append(x, Position(c))
      BY <1>3, Zenon
    <3>2. LET d == Append(x, Position(c))
          IN  (Before(d, z) => Before(x, z)) /\ (Before(z, d) => Before(z, x))
      BY <1>0, <1>2, <3>1, ChildOrder, Zenon
    <3> QED
      BY <2>1, <3>1, <3>2, Zenon
  <2>2. ~Before(x, x)
    BY <1>2, Irreflexive, Zenon
  <2>3. \A c \in Started(t) : c \in Path /\ ~Before(x, c) /\ ~Before(c, x)
    BY <1>2, <1>3, <2>1, <2>2, Zenon
  <2>4. ASSUME NEW u \in Threads, at[u] # NoopHandler
        PROVE  at[u] \in Path /\ ~Before(x, at[u]) /\ ~Before(at[u], x)
    BY <1>0, <2>4, AtThread, Zenon DEF TInv, ThreadsAreUnordered, x
  <2> SUFFICES ASSUME NEW u \in Threads', NEW v \in Threads', at'[u] # NoopHandler, at'[v] # NoopHandler
               PROVE  ~Before(at'[u], at'[v])
    BY <1>1, Zenon DEF ThreadsAreUnordered
  <2>5. CASE u \in Threads /\ v \in Threads
    BY <1>0, <2>5, Zenon DEF TInv, ThreadsAreUnordered
  <2>6. CASE u \in Started(t)
    BY <1>0, <2>1, <2>3, <2>4, <2>6, Zenon
  <2>7. CASE v \in Started(t)
    BY <1>0, <2>1, <2>3, <2>4, <2>7, Zenon
  <2> QED
    BY <1>0, <2>5, <2>6, <2>7, Zenon
<1> QED
  BY <1>4, <1>5, <1>6, Zenon DEF TInv

\* The threads of all compositions, whatever they do with their contexts.
LEMMA ThreadsPreserved ==
    ASSUME TInv, NEW t \in Threads, Step(t)
    PROVE  TInv'
<1>1. TypeOK'
  BY TypePreserves, Zenon
<1>2. CASE Chain(t) \/ CallNext(t) \/ Stop(t) \/ Wait(t)
  BY <1>1, <1>2, StepsMove, MovingPreserves, Zenon
<1>3. CASE Parallel(t)
  BY <1>1, <1>3, StartingPreserves, Zenon
<1>4. CASE Begin(t)
  <2>1. builder' = builder /\ at' = at /\ waiting' = waiting /\ Threads' = Threads
    BY <1>4, Zenon DEF Begin, Threads
  <2>2. /\ Nodes' = Nodes
        /\ \A p : (Kind(p)' = Kind(p)) /\ (IsStart(p)' <=> IsStart(p))
        /\ \A l, m : Before(l, m)' <=> Before(l, m)
    BY <2>1, SameTree, Zenon
  <2> QED
    BY <1>1, <2>1, <2>2, Zenon DEF TInv, ThreadsAreInside, ThreadsAreNested, ThreadsAreUnordered
<1> QED
  BY <1>2, <1>3, <1>4, Zenon DEF Step

\* A request begins in the caller's thread, at the root.
LEMMA InitThreads ==
    ASSUME Init
    PROVE  TInv /\ <<>> \in Nodes /\ Threads = {<<>>} /\ at[<<>>] = <<>>
<1>1. <<>> \in Nodes /\ Threads = {<<>>} /\ at[<<>>] = <<>>
  <2>1. IsTree(builder)
    BY HandlersAssumption, Zenon DEF Init
  <2> QED
    BY <2>1, Zenon DEF Init, IsTree, Nodes, Threads
<1>2. TypeOK
  <2>1. Background.plain \in PlainValues
    BY Zenon DEF Background, PlainValues
  <2>2. Background \in [plain : PlainValues, box : Leaves \cup {NoBox}]
    BY <2>1, Zenon DEF Background
  <2>3. ctx \in [Threads -> [plain : PlainValues, box : Leaves \cup {NoBox}]]
    BY <1>1, <2>2, Zenon DEF Init
  <2>4. /\ box \in [Leaves -> Words \X Words]
        /\ seen \in [Leaves -> [plain : PlainValues, boxed : Words \X Words]]
    BY <2>1, Zenon DEF Init, Words
  <2> QED
    BY <1>1, <2>3, <2>4, Zenon DEF Init, TypeOK
<1>3. \A p \in Path : Below(<<>>, p)
  BY DEF Below, Path
<1>4. \A p \in Path : Len(p) \in Nat /\ (Below(p, <<>>) => p = <<>>)
  BY DEF Below, Path
<1>5. <<>> \in Path /\ ~Before(<<>>, <<>>) /\ <<>> # NoopHandler
  BY <1>1, <1>2, Tree, Irreflexive, Zenon
<1>6. TInv
  <2>1. ThreadsAreInside
    BY <1>1, <1>3, <1>5 DEF ThreadsAreInside, IsStart
  <2>2. ThreadsAreNested
    BY <1>1, <1>2, <1>4, Tree, Zenon DEF ThreadsAreNested, Init
  <2>3. ThreadsAreUnordered
    BY <1>1, <1>5, Zenon DEF ThreadsAreUnordered
  <2> QED
    BY <1>2, <2>1, <2>2, <2>3, Zenon DEF TInv
<1> QED
  BY <1>1, <1>6, Zenon

\* A step that changes nothing.
LEMMA StutterPreserves ==
    ASSUME UNCHANGED vars
    PROVE  TInv => TInv'
<1> USE DEF vars, threadVars, valueVars
<1>1. builder' = builder /\ Threads' = Threads
  BY Zenon DEF Threads
<1>2. /\ Nodes' = Nodes /\ Leaves' = Leaves
      /\ \A p : (Kind(p)' = Kind(p)) /\ (IsStart(p)' <=> IsStart(p))
      /\ \A l, m : (Before(l, m)' <=> Before(l, m)) /\ (Flows(l, m)' <=> Flows(l, m))
  BY <1>1, SameTree, Zenon
<1>3. TypeOK' <=> TypeOK
  <2>1. Words' = Words /\ PlainValues' = PlainValues
    BY <1>1, <1>2, Zenon DEF Words, PlainValues, Keys
  <2>2. \A t : IsAt(t, "parallel")' <=> IsAt(t, "parallel")
    BY <1>2, Zenon DEF IsAt
  <2> QED
    BY <1>1, <1>2, <2>1, <2>2, Zenon DEF TypeOK
<1>4. TInv' <=> TInv
  BY <1>1, <1>2, <1>3, Zenon DEF TInv, ThreadsAreInside, ThreadsAreNested, ThreadsAreUnordered
<1> QED
  BY <1>4, Zenon

(***************************************************************************)
(* handler.go, chain.go, parallel.go and context.go keep to their types,   *)
(* for every composition: a goroutine is only started for a builder that   *)
(* has none, and a Parallel that waits is at its own handler.              *)
(***************************************************************************)
THEOREM TypeCorrect == Spec => []TypeOK
<1>1. Init => TInv
  BY InitThreads, Zenon
<1>2. TInv /\ [Next]_vars => TInv'
  BY ThreadsPreserved, StutterPreserves, Zenon DEF Next
<1>3. TInv => TypeOK
  BY Zenon DEF TInv
<1> QED
  BY <1>1, <1>2, <1>3, PTL DEF Spec

------------------------------------------------------------------------------
\* A leaf that will not be at work any more: it has run, or one that should
\* have called it has stopped.
Over(l) == l \notin working /\ (l \in ran \/ \E s \in stopped : Flows(s, l))

\* What comes before a thread's handler is over, what comes after it has not
\* begun, and there is nothing else in the builder of the thread.
OrderAtThreads ==
    \A t \in Threads :
        at[t] # NoopHandler =>
            \A l \in Leaves :
                /\ Before(l, at[t]) => Over(l)
                /\ Before(at[t], l) => l \notin working \cup ran
                /\ Below(at[t], l) /\ t \notin waiting =>
                      l \notin ran /\ (l \in working => l = at[t])
                /\ Below(t, l) => Over(l) \/ Below(at[t], l) \/ Before(at[t], l)
                /\ l \in stopped => ~Flows(l, at[t])

\* The same for what the threads have left behind.
OrderOfRuns ==
    /\ \A l \in working : \E t \in Threads : at[t] = l
    /\ \A m \in ran, l \in Leaves : Before(l, m) => Over(l)
    /\ \A t \in Threads : at[t] = NoopHandler => \A l \in Leaves : Below(t, l) => Over(l)

OInv == TInv /\ OrderAtThreads /\ OrderOfRuns

\* A Chain puts its first child before what is inside the others.
LEMMA Siblings ==
    ASSUME NEW x \in Path, Kind(x) = "chain", NEW i \in Nat \ {0}, i # 1, NEW l \in Path,
           Below(Append(x, i), l)
    PROVE  Before(Append(x, 1), l)
<1> DEFINE c == Append(x, i)
           d == Append(x, 1)
           n == Len(x) + 1
<1>1. /\ c \in Path /\ Len(c) = n /\ (\A j \in 1..Len(x) : c[j] = x[j]) /\ c[n] = i
      /\ d \in Path /\ Len(d) = n /\ (\A j \in 1..Len(x) : d[j] = x[j]) /\ d[n] = 1
      /\ Kind(Parent(d)) = "chain"
  BY AppendStep
<1> HIDE DEF c, d
<1>2. n \in Nat \ {0} /\ n - 1 = Len(x) /\ Len(l) \in Nat /\ DOMAIN d = 1..n /\ DOMAIN l = 1..Len(l)
  BY <1>1 DEF Path
<1>3. Len(c) <= Len(l) /\ \A j \in 1..Len(c) : c[j] = l[j]
  BY Zenon DEF Below, c
<1>4. Kind(SubSeq(d, 1, n - 1)) = "chain"
  BY <1>1, <1>2, Zenon DEF Parent
<1>5. Parts(n, d, l)
  BY <1>1, <1>2, <1>3, <1>4 DEF Parts
<1>6. Before(d, l)
  BY <1>2, <1>5 DEF Before
<1> QED
  BY <1>6, Zenon DEF d

\* A thread that has a leaf of its builder still before it can go on to it,
\* when a Chain in a Chain is the last there.
LEMMA ChainEnds ==
    ASSUME TypeOK, ChainsAreLast(builder), NEW t \in Nodes, NEW x \in Nodes, NEW l \in Nodes,
           Below(t, x), \A k \in Len(t)..Len(x) - 1 : Kind(SubSeq(x, 1, k)) = "chain",
           Below(t, l), Before(x, l)
    PROVE  Kind(x) # "chain" /\ Flows(x, l) /\ Following(x) # NoopHandler
<1>1. /\ t \in Path /\ x \in Path /\ l \in Path
      /\ Len(t) \in Nat /\ Len(x) \in Nat /\ Len(l) \in Nat
      /\ DOMAIN x = 1..Len(x) /\ DOMAIN l = 1..Len(l)
  BY Tree DEF Path
<1>2. PICK k \in DOMAIN x : Parts(k, x, l)
  BY Zenon DEF Before
<1>3. k \in 1..Len(x) /\ k \in 1..Len(l) /\ x[k] \in Nat \ {0} /\ l[k] \in Nat \ {0}
  BY <1>1, <1>2 DEF Parts, Path
<1>4. Len(t) < k
  BY <1>1, <1>2, <1>3 DEF Below, Parts
<1> DEFINE q == SubSeq(x, 1, k)
           r == SubSeq(l, 1, k)
<1>5. /\ q \in Nodes /\ r \in Nodes /\ q \in Path /\ r \in Path
      /\ Len(q) = k /\ Len(r) = k
      /\ \A j \in 1..k : q[j] = x[j] /\ r[j] = l[j]
  <2>1. k \in 0..Len(x) /\ k \in 0..Len(l)
    BY <1>3
  <2> QED
    BY <1>1, <2>1, Tree, PrefixSteps, Zenon
<1> HIDE DEF q, r
<1>6. q # <<>> /\ r # <<>>
  BY <1>3, <1>5
<1>7. /\ Parent(q) = Parent(r)
      /\ Kind(Parent(q)) = "chain"
  <2>1. k - 1 \in Nat /\ k - 1 <= Len(q) /\ k - 1 <= Len(r) /\ k - 1 <= Len(x)
        /\ \A j \in 1..k - 1 : q[j] = r[j] /\ q[j] = x[j]
    BY <1>2, <1>3, <1>5, SMTT(60) DEF Parts
  <2>2. SubSeq(q, 1, k - 1) = SubSeq(r, 1, k - 1)
    BY <1>5, <2>1, SamePrefix, Zenon
  <2>3. Kind(SubSeq(q, 1, k - 1)) = Kind(SubSeq(x, 1, k - 1))
    BY <1>1, <1>5, <2>1, SamePrefix, SMTT(60)
  <2> QED
    BY <1>2, <1>5, <2>2, <2>3, Zenon DEF Parent, Parts
<1>8. Position(q) = x[k] /\ Position(r) = l[k]
  BY <1>3, <1>5 DEF Position
<1>9. Append(Parent(q), Position(q) + 1) \in Nodes
  <2>1. \A i \in 1..Position(r) : Append(Parent(r), i) \in Nodes
    BY <1>5, <1>6, Tree, Zenon
  <2>2. x[k] + 1 \in 1..l[k]
    BY <1>2, <1>3, SMTT(60) DEF Parts
  <2> QED
    BY <1>7, <1>8, <2>1, <2>2, Zenon
<1>10. Kind(q) # "chain"
  BY <1>5, <1>6, <1>7, <1>9, Zenon DEF ChainsAreLast, Kind, Nodes
<1>11. k = Len(x)
  <2>1. k <= Len(x) - 1 => Kind(q) = "chain"
    BY <1>1, <1>3, <1>4, SMTT(60) DEF q
  <2> QED
    BY <1>1, <1>3, <1>10, <2>1
<1>12. q = x
  BY <1>1, <1>5, <1>11, SameSteps DEF Below
<1>13. Following(x) # NoopHandler
  BY <1>6, <1>7, <1>9, <1>12, Tree, Zenon DEF Following
<1> QED
  BY <1>2, <1>10, <1>11, <1>12, <1>13, Zenon DEF Flows

------------------------------------------------------------------------------
(***************************************************************************)
(* The order in which the leaves do their work.                            *)
(***************************************************************************)

\* The leaves around a thread, as OInv has them.
LEMMA AroundThread ==
    ASSUME OInv, NEW t \in Threads, at[t] # NoopHandler, NEW l \in Leaves
    PROVE  /\ Before(l, at[t]) => Over(l)
           /\ Before(at[t], l) => l \notin working /\ l \notin ran
           /\ Below(at[t], l) /\ t \notin waiting =>
                 l \notin ran /\ (l \in working => l = at[t])
           /\ Below(t, l) => Over(l) \/ Below(at[t], l) \/ Before(at[t], l)
           /\ l \in stopped => ~Flows(l, at[t])
           /\ l \in Nodes /\ l \in Path /\ Kind(l) = "leaf"
<1>1. l \in Nodes /\ Kind(l) = "leaf"
  BY Zenon DEF Leaves
<1>2. l \in Path
  BY <1>1, Tree, Zenon DEF OInv, TInv
<1> QED
  BY <1>1, <1>2, Zenon DEF OInv, OrderAtThreads

\* A leaf that is over stays so: Begin is only for those that are not.
LEMMA OverStays ==
    ASSUME OInv, NEW t \in Threads, Step(t), NEW l \in Leaves, Over(l)
    PROVE  Over(l)'
<1>1. builder' = builder /\ ran \subseteq ran' /\ stopped \subseteq stopped'
  BY Zenon DEF Step, Chain, Begin, CallNext, Stop, End, Parallel, Wait, Joined
<1>2. \A s : Flows(s, l)' <=> Flows(s, l)
  BY <1>1, SameTree, Zenon
<1>3. l \notin working'
  <2>1. CASE ~Begin(t)
    BY <2>1, Zenon DEF Over, Step, Chain, CallNext, Stop, End, Parallel, Wait, Joined
  <2>2. CASE Begin(t)
    <3> DEFINE x == at[t]
    <3>1. x \in Leaves /\ x # NoopHandler /\ t \notin waiting
      BY <2>2, Tree, Zenon DEF Begin, IsAt, Leaves, OInv, TInv, TypeOK
    <3>2. Below(x, x)
      BY <3>1, AtThread DEF Below, OInv
    <3>3. x \notin ran /\ \A s \in Leaves : s \in stopped => ~Flows(s, x)
      BY <3>1, <3>2, AroundThread, Zenon
    <3>4. stopped \subseteq Leaves
      BY Zenon DEF OInv, TInv, TypeOK
    <3>5. l # x
      BY <3>3, <3>4, Zenon DEF Over
    <3> QED
      BY <2>2, <3>5, Zenon DEF Begin, Over
  <2> QED
    BY <2>1, <2>2, Zenon
<1> QED
  BY <1>1, <1>2, <1>3, Zenon DEF Over

\* What a thread leaves behind when it goes on or returns is over.
LEMMA LeftIsOver ==
    ASSUME OInv, NEW t \in Threads, Step(t), NEW y, Moves(t, y),
           Kind(at[t]) = "chain" => y = NoopHandler,
           NEW l \in Leaves, Below(at[t], l)
    PROVE  Over(l)'
<1> DEFINE x == at[t]
<1>0. TypeOK /\ TInv /\ at[t] # NoopHandler
  BY Zenon DEF OInv, TInv, Moves
<1>1. x \in Nodes /\ x \in Path /\ Len(x) \in Nat /\ l \in Nodes /\ l \in Path /\ Kind(l) = "leaf"
  BY <1>0, AtThread, AroundThread, Zenon
<1> DEFINE i == l[Len(x) + 1]
           c == Append(x, i)
<1>2. ASSUME x # l
      PROVE  /\ Kind(x) # "leaf" /\ i \in Nat \ {0} /\ Append(x, 1) \in Nodes
             /\ c \in Nodes /\ c # <<>> /\ Parent(c) = x /\ Below(c, l)
  <2>1. /\ Kind(x) # "leaf" /\ i \in Nat \ {0} /\ Below(c, l)
        /\ \A j \in 1..i : Append(x, j) \in Nodes
    BY <1>0, <1>1, <1>2, Inside, Zenon
  <2>2. Parent(c) = x /\ c \in Path /\ Len(c) = Len(x) + 1
    BY <1>1, <2>1, AppendStep, Zenon
  <2>3. 1 \in 1..i /\ i \in 1..i
    BY <2>1
  <2> HIDE DEF i
  <2>4. c \in Nodes /\ Append(x, 1) \in Nodes
    BY <2>1, <2>3, Zenon
  <2> HIDE DEF c
  <2>5. c # <<>>
    BY <1>1, <2>2
  <2> QED
    BY <2>1, <2>2, <2>4, <2>5, Zenon
<1> HIDE DEF c, i
<1>3. CASE Kind(x) = "chain"
  <2>1. Append(x, 1) \in Nodes
    BY <1>1, <1>2, <1>3, Zenon
  <2>2. y = Append(x, 1)
    BY <1>3, <2>1, Zenon DEF Moves
  <2> QED
    BY <1>0, <1>3, <2>1, <2>2, Tree, Zenon
<1>4. CASE Kind(x) = "leaf"
  BY <1>2, <1>4, Zenon DEF Moves, Over
<1>5. CASE Kind(x) = "parallel"
  <2>1. t \in waiting /\ AllReturned(t)
    BY <1>5, Zenon DEF Moves
  <2>2. x # l
    BY <1>1, <1>5, Zenon
  <2>3. c \in Threads /\ at[c] = NoopHandler
    BY <1>0, <1>2, <2>1, <2>2, Zenon DEF TInv, ThreadsAreNested, AllReturned, Children
  <2>4. Over(l)
    BY <1>2, <2>2, <2>3, Zenon DEF OInv, OrderOfRuns
  <2> QED
    BY <2>4, OverStays, Zenon
<1> QED
  BY <1>3, <1>4, <1>5, Zenon DEF Moves

\* A thread that moves: what is around the handler that it comes to.
LEMMA MovedOrder ==
    ASSUME OInv, NEW t \in Threads, Step(t), NEW y, Moves(t, y), y # NoopHandler, NEW l \in Leaves
    PROVE  /\ Before(l, y) => Over(l)'
           /\ Before(y, l) => l \notin working' /\ l \notin ran'
           /\ Below(y, l) => l \notin ran' /\ l \notin working'
           /\ Below(t, l) => Over(l)' \/ Below(y, l) \/ Before(y, l)
           /\ l \in stopped' => ~Flows(l, y)
<1> DEFINE x == at[t]
<1>0. TypeOK /\ TInv /\ at[t] # NoopHandler /\ (t \in waiting => Kind(x) = "parallel")
  BY Zenon DEF OInv, TInv, TypeOK, IsAt, Moves
<1>1. x \in Nodes /\ x \in Path /\ l \in Nodes /\ l \in Path /\ Kind(l) = "leaf" /\ ~Before(x, x)
      /\ Below(x, x)
  BY <1>0, AtThread, AroundThread, Irreflexive DEF Below
<1>2. /\ Before(l, x) => Over(l)
      /\ Before(x, l) => l \notin working /\ l \notin ran
      /\ Below(x, l) /\ t \notin waiting => l \notin ran /\ (l \in working => l = x)
      /\ Below(t, l) => Over(l) \/ Below(x, l) \/ Before(x, l)
      /\ l \in stopped => ~Flows(l, x)
  BY <1>0, AroundThread, Zenon
<1>3. Over(l) => Over(l)'
  BY OverStays, Zenon
<1>4. /\ working' \subseteq working
      /\ l \in ran' => l \in ran \/ l = x
      /\ stopped' = stopped
  <2>1. CASE Kind(x) = "leaf"
    BY <1>0, <2>1, Zenon DEF Moves
  <2>2. CASE Kind(x) # "leaf"
    BY <1>0, <2>2, Zenon DEF Moves
  <2> QED
    BY <2>1, <2>2, Zenon
<1>5. CASE Kind(x) = "chain"
  <2>0. y = Append(x, 1)
    BY <1>5, Zenon DEF Moves
  <2>1. /\ Before(l, y) => Before(l, x)
        /\ Flows(l, y) => Flows(l, x)
        /\ Before(y, l) => Before(x, l) \/ Below(x, l)
        /\ Before(x, l) => Before(y, l)
        /\ Below(y, l) => Below(x, l)
    BY <1>1, <2>0, ChildOrder
  <2>2. x # l /\ t \notin waiting
    BY <1>0, <1>1, <1>5, Zenon
  <2>3. Below(x, l) => Below(y, l) \/ Before(y, l)
    <3> SUFFICES ASSUME Below(x, l) PROVE Below(y, l) \/ Before(y, l)
      OBVIOUS
    <3> DEFINE i == l[Len(x) + 1]
    <3>1. i \in Nat \ {0} /\ Below(Append(x, i), l)
      BY <1>0, <1>1, <2>2, Inside, Zenon
    <3> HIDE DEF i
    <3>2. CASE i = 1
      BY <2>0, <3>1, <3>2, Zenon
    <3>3. CASE i # 1
      BY <1>1, <1>5, <2>0, <3>1, <3>3, Siblings, Zenon
    <3> QED
      BY <3>2, <3>3, Zenon
  <2> QED
    BY <1>1, <1>2, <1>3, <1>4, <2>1, <2>2, <2>3, Zenon
<1>6. CASE Kind(x) # "chain"
  <2>0. y = Following(x)
    BY <1>6, Zenon DEF Moves
  <2>1. /\ Before(l, y) => Before(l, x) \/ Below(x, l)
        /\ Flows(l, y) => Flows(l, x) \/ l = x
        /\ Before(y, l) => Before(x, l)
        /\ Below(y, l) => Before(x, l)
        /\ Before(x, l) => Below(y, l) \/ Before(y, l)
    BY <1>0, <1>1, <2>0, FollowOrder, Zenon
  <2>3. Below(x, l) => Over(l)'
    BY <1>6, LeftIsOver, Zenon
  <2>4. x = l => l \notin stopped
    BY <1>0, <1>1, <1>2, Zenon DEF OInv, TInv, TypeOK
  <2> QED
    BY <1>1, <1>2, <1>3, <1>4, <2>1, <2>3, <2>4, Zenon
<1> QED
  BY <1>5, <1>6, Zenon

\* A thread that returns: what it has not run, a leaf that has stopped should
\* have called.
LEMMA ReturnedOrder ==
    ASSUME OInv, ChainsAreLast(builder), NEW t \in Threads, Step(t), Moves(t, NoopHandler),
           NEW l \in Leaves, Below(t, l)
    PROVE  Over(l)'
<1> DEFINE x == at[t]
<1>0. TypeOK /\ TInv /\ at[t] # NoopHandler /\ builder' = builder
  BY Zenon DEF OInv, TInv, Moves
<1>1. /\ t \in Nodes /\ x \in Nodes /\ l \in Nodes /\ Below(t, x)
      /\ \A k \in Len(t)..Len(x) - 1 : Kind(SubSeq(x, 1, k)) = "chain"
  BY <1>0, AtThread, AroundThread, Zenon
<1>2. CASE Over(l)
  BY <1>2, OverStays, Zenon
<1>3. CASE Below(x, l)
  BY <1>3, LeftIsOver, Zenon
<1>4. CASE Before(x, l)
  <2>1. Kind(x) # "chain" /\ Flows(x, l) /\ Following(x) # NoopHandler
    BY <1>0, <1>1, <1>4, ChainEnds, Zenon
  <2>2. working' \subseteq working /\ x \in stopped'
    BY <2>1, Zenon DEF Moves
  <2>3. l \notin working
    BY <1>0, <1>4, AroundThread, Zenon
  <2>4. \A s : Flows(s, l)' <=> Flows(s, l)
    BY <1>0, SameTree, Zenon
  <2> QED
    BY <2>1, <2>2, <2>3, <2>4, Zenon DEF Over
<1> QED
  BY <1>0, <1>2, <1>3, <1>4, AroundThread, Zenon

\* A step is one of one thread, and of the leaf that this thread is at.
LEMMA StepOfOne ==
    ASSUME TInv, NEW t \in Threads, Step(t)
    PROVE  /\ builder' = builder /\ t \in Threads' /\ at[t] # NoopHandler
           /\ \A u \in Threads' \ {t} :
                 \/ u \in Threads /\ at'[u] = at[u] /\ (u \in waiting' <=> u \in waiting)
                 \/ Parallel(t) /\ u \in Started(t)
           /\ \A u \in Threads \ {t} : at[u] # NoopHandler => u \in Threads' /\ at'[u] = at[u]
           /\ working' \subseteq working \cup {at[t]}
           /\ ran \subseteq ran' /\ ran' \subseteq ran \cup {at[t]}
           /\ stopped' \subseteq stopped \cup {at[t]}
           /\ t \in waiting => working' = working /\ ran' = ran /\ stopped' = stopped
<1>1. CASE Chain(t) \/ CallNext(t) \/ Stop(t) \/ Wait(t)
  <2>1. Moves(t, at'[t])
    BY <1>1, StepsMove, Zenon
  <2> QED
    BY <2>1, Zenon DEF Moves, Gone, AllReturned
<1>2. CASE Parallel(t)
  BY <1>2, Starting, ZenonT(30)
<1>3. CASE Begin(t)
  <2>1. at[t] # NoopHandler /\ t \notin waiting
    BY <1>3, Tree, Zenon DEF Begin, IsAt, TInv, TypeOK
  <2> QED
    BY <1>3, <2>1, Zenon DEF Begin, Threads
<1> QED
  BY <1>1, <1>2, <1>3, Zenon DEF Step

\* The threads that do not move: nothing that this leaf does is in their way.
LEMMA OthersOrder ==
    ASSUME OInv, NEW t \in Threads, Step(t), NEW u \in Threads, u # t,
           at[u] # NoopHandler, u \in waiting' <=> u \in waiting, NEW l \in Leaves
    PROVE  /\ Before(l, at[u]) => Over(l)'
           /\ Before(at[u], l) => l \notin working' /\ l \notin ran'
           /\ Below(at[u], l) /\ u \notin waiting' => l \notin ran' /\ (l \in working' => l = at[u])
           /\ Below(u, l) => Over(l)' \/ Below(at[u], l) \/ Before(at[u], l)
           /\ l \in stopped' => ~Flows(l, at[u])
<1> DEFINE x == at[t]
           z == at[u]
<1>1. /\ TInv /\ x # NoopHandler
      /\ l \in working' => l \in working \/ l = x
      /\ l \in ran' => l \in ran \/ l = x
      /\ l \in stopped' => l \in stopped \/ l = x
  BY StepOfOne, Zenon DEF OInv
<1>2. ~Before(z, x) /\ ~Before(x, z)
  BY <1>1, Zenon DEF TInv, ThreadsAreUnordered
<1>3. ~Flows(x, z)
  BY <1>2, Zenon DEF Before, Flows, Parts
<1>4. u \notin waiting => ~Below(z, x)
  BY <1>1, NoneInside, Zenon
<1>5. Over(l) => Over(l)'
  BY OverStays, Zenon
<1>6. /\ Before(l, z) => Over(l)
      /\ Before(z, l) => l \notin working /\ l \notin ran
      /\ Below(z, l) /\ u \notin waiting => l \notin ran /\ (l \in working => l = z)
      /\ Below(u, l) => Over(l) \/ Below(z, l) \/ Before(z, l)
      /\ l \in stopped => ~Flows(l, z)
  BY AroundThread, Zenon
<1> HIDE DEF x, z
<1>7. /\ Before(l, z) => Over(l)'
      /\ Before(z, l) => l \notin working' /\ l \notin ran'
      /\ Below(z, l) /\ u \notin waiting' => l \notin ran' /\ (l \in working' => l = z)
      /\ Below(u, l) => Over(l)' \/ Below(z, l) \/ Before(z, l)
      /\ l \in stopped' => ~Flows(l, z)
  BY <1>1, <1>2, <1>3, <1>4, <1>5, <1>6, Zenon
<1> QED
  BY <1>7, Zenon DEF z

\* The goroutines of a Parallel begin where it was.
LEMMA StartedOrder ==
    ASSUME OInv, NEW t \in Threads, Parallel(t), NEW c \in Started(t), NEW l \in Leaves
    PROVE  /\ Before(l, c) => Over(l)
           /\ Before(c, l) => l \notin working /\ l \notin ran
           /\ Below(c, l) => l \notin ran /\ l \notin working
           /\ l \in stopped => ~Flows(l, c)
<1> DEFINE x == at[t]
<1>1. TInv /\ x # NoopHandler /\ Kind(x) = "parallel" /\ t \notin waiting
  BY Starting, Zenon DEF OInv
<1>2. x \in Path /\ l \in Path /\ Kind(l) = "leaf"
  BY <1>1, AtThread, AroundThread, Zenon
<1>3. Position(c) \in Nat \ {0} /\ c = Append(x, Position(c))
  BY <1>1, NewThreads, Zenon DEF Parallel, Started
<1>4. LET d == Append(x, Position(c))
      IN  /\ Before(l, d) => Before(l, x)
          /\ Flows(l, d) => Flows(l, x)
          /\ Before(d, l) => Before(x, l)
          /\ Below(d, l) => Below(x, l)
  <2> HIDE DEF x
  <2> QED
    BY <1>1, <1>2, <1>3, ChildOrder, Zenon
<1>5. /\ Before(l, c) => Before(l, x)
      /\ Flows(l, c) => Flows(l, x)
      /\ Before(c, l) => Before(x, l)
      /\ Below(c, l) => Below(x, l)
  BY <1>3, <1>4, Zenon
<1> QED
  BY <1>1, <1>2, <1>5, AroundThread, Zenon

\* Every step keeps the order around the threads.
LEMMA OrderAtPreserved ==
    ASSUME OInv, NEW t \in Threads, Step(t)
    PROVE  OrderAtThreads'
<1>0. /\ TInv /\ builder' = builder /\ at[t] # NoopHandler
      /\ \A u \in Threads' \ {t} :
            \/ u \in Threads /\ at'[u] = at[u] /\ (u \in waiting' <=> u \in waiting)
            \/ Parallel(t) /\ u \in Started(t)
  BY StepOfOne, Zenon DEF OInv
<1>1. /\ Leaves' = Leaves
      /\ \A l, m : (Before(l, m)' <=> Before(l, m)) /\ (Flows(l, m)' <=> Flows(l, m))
  BY <1>0, SameTree, Zenon
<1> SUFFICES ASSUME NEW u \in Threads', at'[u] # NoopHandler, NEW l \in Leaves
             PROVE  /\ Before(l, at'[u]) => Over(l)'
                    /\ Before(at'[u], l) => l \notin working' /\ l \notin ran'
                    /\ Below(at'[u], l) /\ u \notin waiting' =>
                          l \notin ran' /\ (l \in working' => l = at'[u])
                    /\ Below(u, l) => Over(l)' \/ Below(at'[u], l) \/ Before(at'[u], l)
                    /\ l \in stopped' => ~Flows(l, at'[u])
  BY <1>1, Zenon DEF OrderAtThreads
<1>2. CASE u # t /\ u \in Threads /\ at'[u] = at[u] /\ (u \in waiting' <=> u \in waiting)
  BY <1>2, OthersOrder, Zenon
<1>3. CASE u \in Started(t) /\ Parallel(t)
  <2>1. at'[u] = u /\ UNCHANGED <<working, ran, stopped>>
    BY <1>0, <1>3, Starting, Zenon
  <2>2. Over(l) => Over(l)'
    BY OverStays, Zenon
  <2>3. /\ Before(l, u) => Over(l)
        /\ Before(u, l) => l \notin working /\ l \notin ran
        /\ Below(u, l) => l \notin ran /\ l \notin working
        /\ l \in stopped => ~Flows(l, u)
    BY <1>3, StartedOrder, Zenon
  <2> QED
    BY <2>1, <2>2, <2>3, Zenon
<1>4. CASE u = t
  <2>1. CASE Chain(t) \/ CallNext(t) \/ Stop(t) \/ Wait(t)
    <3>1. Moves(t, at'[t])
      BY <1>0, <2>1, StepsMove, Zenon
    <3> QED
      BY <1>4, <3>1, MovedOrder, Zenon
  <2>2. /\ Before(l, at[t]) => Over(l)
        /\ Before(at[t], l) => l \notin working /\ l \notin ran
        /\ Below(at[t], l) /\ t \notin waiting => l \notin ran /\ (l \in working => l = at[t])
        /\ Below(t, l) => Over(l) \/ Below(at[t], l) \/ Before(at[t], l)
        /\ l \in stopped => ~Flows(l, at[t])
        /\ Over(l) => Over(l)'
    BY <1>0, AroundThread, OverStays, Zenon
  <2>3. CASE Parallel(t)
    <3>1. at'[t] = at[t] /\ t \in waiting' /\ UNCHANGED <<working, ran, stopped>>
      BY <1>0, <2>3, Starting, Zenon
    <3> QED
      BY <1>4, <2>2, <3>1, Zenon
  <2>4. CASE Begin(t)
    <3>1. /\ at'[t] = at[t] /\ working' = working \cup {at[t]}
          /\ waiting' = waiting /\ ran' = ran /\ stopped' = stopped
      BY <2>4, Zenon DEF Begin
    <3>2. ~Before(at[t], at[t])
      BY <1>0, AtThread, Irreflexive, Zenon
    <3> QED
      BY <1>4, <2>2, <3>1, <3>2, Zenon
  <2> QED
    BY <2>1, <2>3, <2>4, Zenon DEF Step
<1> QED
  BY <1>0, <1>2, <1>3, <1>4, Zenon

\* Every step keeps the order.
LEMMA OrderPreserved ==
    ASSUME OInv, ChainsAreLast(builder), NEW t \in Threads, Step(t)
    PROVE  OInv'
<1>0. /\ TInv /\ builder' = builder /\ at[t] # NoopHandler /\ t \in Threads'
      /\ \A u \in Threads' \ {t} :
            \/ u \in Threads /\ at'[u] = at[u] /\ (u \in waiting' <=> u \in waiting)
            \/ Parallel(t) /\ u \in Started(t)
      /\ \A u \in Threads \ {t} : at[u] # NoopHandler => u \in Threads' /\ at'[u] = at[u]
      /\ ran' \subseteq ran \cup {at[t]}
  BY StepOfOne, Zenon DEF OInv
<1>1. /\ Leaves' = Leaves
      /\ \A l, m : Before(l, m)' <=> Before(l, m)
  BY <1>0, SameTree, Zenon
<1>2. \A l \in Leaves : Over(l) => Over(l)'
  BY OverStays, Zenon
<1>3. TInv' /\ OrderAtThreads'
  BY <1>0, ThreadsPreserved, OrderAtPreserved, Zenon
<1>4. ASSUME NEW l \in working' PROVE \E u \in Threads' : at'[u] = l
  <2>1. CASE at'[t] = l
    BY <1>0, <2>1, Zenon
  <2>2. CASE at'[t] # l
    <3>1. l \in working /\ at[t] # l
      <4>1. CASE Chain(t) \/ CallNext(t) \/ Stop(t) \/ Wait(t)
        <5>1. Moves(t, at'[t])
          BY <1>0, <4>1, StepsMove, Zenon
        <5>2. l \in Leaves
          BY <1>3, <1>1, Zenon DEF TInv, TypeOK
        <5> QED
          BY <5>1, <5>2, Zenon DEF Moves, Leaves
      <4>2. CASE Parallel(t)
        BY <1>0, <2>2, <4>2, Starting, Zenon
      <4>3. CASE Begin(t)
        BY <2>2, <4>3, Zenon DEF Begin
      <4> QED
        BY <4>1, <4>2, <4>3, Zenon DEF Step
    <3>2. PICK u \in Threads : at[u] = l
      BY <3>1, Zenon DEF OInv, OrderOfRuns
    <3>3. l # NoopHandler
      BY <1>0, <3>1, Tree, Zenon DEF TInv, TypeOK, Leaves
    <3>4. u \in Threads' /\ at'[u] = l
      BY <1>0, <3>1, <3>2, <3>3, Zenon
    <3> QED
      BY <3>4, Zenon
  <2> QED
    BY <2>1, <2>2, Zenon
<1>5. ASSUME NEW m \in ran', NEW l \in Leaves, Before(l, m) PROVE Over(l)'
  <2>1. CASE m \in ran
    BY <1>2, <1>5, <2>1, Zenon DEF OInv, OrderOfRuns
  <2>2. CASE m = at[t]
    BY <1>0, <1>2, <1>5, <2>2, AroundThread, Zenon
  <2> QED
    BY <1>0, <2>1, <2>2, Zenon
<1>6. ASSUME NEW u \in Threads', at'[u] = NoopHandler, NEW l \in Leaves, Below(u, l)
      PROVE  Over(l)'
  <2>1. CASE u # t
    <3>1. ~(Parallel(t) /\ u \in Started(t))
      BY <1>0, <1>6, Starting, Tree, Zenon DEF TInv, Started
    <3>2. u \in Threads /\ at[u] = NoopHandler
      BY <1>0, <1>6, <2>1, <3>1, Zenon
    <3> QED
      BY <1>2, <1>6, <3>2, Zenon DEF OInv, OrderOfRuns
  <2>2. CASE u = t
    <3>1. Chain(t) \/ CallNext(t) \/ Stop(t) \/ Wait(t)
      BY <1>0, <1>6, <2>2, Starting, Zenon DEF Step, Begin
    <3>2. Moves(t, NoopHandler)
      BY <1>0, <1>6, <2>2, <3>1, StepsMove, Zenon
    <3> QED
      BY <1>6, <2>2, <3>2, ReturnedOrder, Zenon
  <2> QED
    BY <2>1, <2>2, Zenon
<1> QED
  BY <1>1, <1>3, <1>4, <1>5, <1>6, Zenon DEF OInv, OrderOfRuns

\* A request begins in the caller's thread, at the root.
LEMMA InitEstablishes ==
    ASSUME Init
    PROVE  OInv
<1>1. TInv /\ <<>> \in Nodes /\ Threads = {<<>>} /\ at[<<>>] = <<>> /\ <<>> # NoopHandler
  BY InitThreads, Tree, Zenon DEF TInv
<1>2. \A l \in Leaves : Below(<<>>, l) /\ ~Before(l, <<>>)
  BY <1>1, Tree DEF TInv, Leaves, Before, Parts, Below, Path
<1>3. OrderAtThreads
  BY <1>1, <1>2, Zenon DEF OrderAtThreads, Init
<1>4. OrderOfRuns
  BY <1>1, Zenon DEF OrderOfRuns, Init
<1> QED
  BY <1>1, <1>3, <1>4, Zenon DEF OInv

\* A step that changes nothing.
LEMMA StutterOrder ==
    ASSUME UNCHANGED vars, OInv
    PROVE  OInv'
<1>1. TInv'
  BY StutterPreserves, Zenon DEF OInv
<1> USE DEF vars, threadVars, valueVars
<1>2. builder' = builder /\ Threads' = Threads
  BY Zenon DEF Threads
<1>3. /\ Leaves' = Leaves
      /\ \A l, m : (Before(l, m)' <=> Before(l, m)) /\ (Flows(l, m)' <=> Flows(l, m))
  BY <1>2, SameTree, Zenon
<1>4. \A l : Over(l)' <=> Over(l)
  BY <1>3, Zenon DEF Over
<1> QED
  BY <1>1, <1>2, <1>3, <1>4, Zenon DEF OInv, OrderAtThreads, OrderOfRuns

\* The inductive invariant about the order.
LEMMA OrderInvariant ==
    ASSUME \A b \in Builders : ChainsAreLast(b)
    PROVE  Spec => []OInv
<1>1. Init => OInv
  BY InitEstablishes, Zenon
<1>2. OInv /\ [Next]_vars => OInv'
  <2> SUFFICES ASSUME OInv, [Next]_vars PROVE OInv'
    OBVIOUS
  <2>1. ChainsAreLast(builder)
    BY Zenon DEF OInv, TInv, TypeOK
  <2> QED
    BY <2>1, OrderPreserved, StutterOrder, Zenon DEF Next
<1> QED
  BY <1>1, <1>2, PTL DEF Spec

(***************************************************************************)
(* chain.go and parallel.go keep the order of the handlers, for every      *)
(* composition in which a Chain in a Chain is the last there: when a leaf  *)
(* begins, all that is before it is over, however deep in goroutines.      *)
(***************************************************************************)
THEOREM OrderHolds ==
    ASSUME \A b \in Builders : ChainsAreLast(b)
    PROVE  Spec => []OrderIsKept
<1>1. OInv => OrderIsKept
  <2> SUFFICES ASSUME OInv, NEW first \in Leaves, NEW second \in Leaves,
                      Before(first, second), second \in working \cup ran
               PROVE  Over(first)
    BY Zenon DEF OrderIsKept, Over
  <2>1. CASE second \in ran
    BY <2>1, Zenon DEF OInv, OrderOfRuns
  <2>2. CASE second \in working
    <3>1. PICK t \in Threads : at[t] = second
      BY <2>2, Zenon DEF OInv, OrderOfRuns
    <3>2. second # NoopHandler
      BY Tree, Zenon DEF OInv, TInv, Leaves
    <3> QED
      BY <3>1, <3>2, AroundThread, Zenon
  <2> QED
    BY <2>1, <2>2, Zenon
<1> QED
  BY <1>1, OrderInvariant, PTL

(***************************************************************************)
(* chain.go:3, "composes sets of handler.Builder into one": no leaf of     *)
(* such a composition is left out of a request that none of them stops.    *)
(***************************************************************************)
THEOREM LeavesRun ==
    ASSUME \A b \in Builders : ChainsAreLast(b)
    PROVE  Spec => []EveryLeafRuns
<1>1. OInv => EveryLeafRuns
  <2> SUFFICES ASSUME OInv, at[<<>>] = NoopHandler, stopped = {} PROVE ran = Leaves
    BY Zenon DEF EveryLeafRuns, Returned
  <2>1. <<>> \in Threads /\ ran \subseteq Leaves
    BY Zenon DEF OInv, TInv, TypeOK
  <2>2. \A l \in Leaves : Below(<<>>, l)
    BY Tree DEF OInv, TInv, Leaves, Below, Path
  <2>3. \A l \in Leaves : Over(l)
    BY <2>1, <2>2, Zenon DEF OInv, OrderOfRuns
  <2> QED
    BY <2>1, <2>3, Zenon DEF Over
<1> QED
  BY <1>1, OrderInvariant, PTL

------------------------------------------------------------------------------
(***************************************************************************)
(* The values of Keys.                                                     *)
(***************************************************************************)

\* The handler x is given the value v, where S are the leaves that set it.
Arrived(v, S, x) ==
    \/ v = NoValue /\ \A s \in S : ~Flows(s, x)
    \/ v \in Latest(S, x)

\* The leaves set no other Key that is equal to key.
Unshared(key) ==
    /\ key \in Keys \ {"none", "shared"}
    /\ ~aliased \/ With("set") = Setters(key)

\* Every context has the right values for the handler that its thread is in,
\* and so has what a leaf has read.
ContextsAreRight ==
    \A t \in Threads : at[t] # NoopHandler =>
        \A key : Unshared(key) => Arrived(ctx[t].plain[Slot(key)], Setters(key), at[t])

ReadsAreRight ==
    \A r \in With("read") \cap ran :
        \A key : Unshared(key) => Arrived(seen[r].plain[key], Setters(key), r)

PInv == TInv /\ ContextsAreRight /\ ReadsAreRight

\* What comes to x goes on to what is inside x or after it in a Chain.
LEMMA FlowGoesOn ==
    ASSUME NEW l \in Path, NEW x \in Path, NEW y \in Path, Flows(l, x), Len(x) <= Len(y),
           \A j \in 1..Len(x) - 1 : y[j] = x[j],
           x # <<>> => x[Len(x)] <= y[Len(x)]
    PROVE  Flows(l, y)
<1> DEFINE k == Len(l)
<1>1. /\ k \in 1..Len(x) /\ k \in 1..Len(y) /\ k \in DOMAIN l /\ k \in DOMAIN y
      /\ Len(x) \in Nat /\ Len(y) \in Nat /\ x # <<>>
      /\ l[k] \in Nat /\ x[k] \in Nat /\ y[k] \in Nat
  BY SMTT(60) DEF Flows, Parts, Path
<1>2. /\ \A i \in 1..k - 1 : l[i] = x[i]
      /\ Kind(SubSeq(l, 1, k - 1)) = "chain" /\ l[k] < x[k]
  BY Zenon DEF Flows, Parts
<1> HIDE DEF k
<1>3. \A i \in 1..k - 1 : l[i] = y[i]
  BY <1>1, <1>2
<1>4. x[k] <= y[k]
  BY <1>1
<1>5. Parts(k, l, y)
  BY <1>1, <1>2, <1>3, <1>4 DEF Parts
<1> QED
  BY <1>5, Zenon DEF Flows, k

\* Nothing comes to x that x goes to.
LEMMA FlowIsOneWay ==
    ASSUME NEW x \in Path, NEW l \in Path, Flows(x, l)
    PROVE  l # x /\ ~Flows(l, x)
<1> SUFFICES ASSUME l = x \/ Flows(l, x) PROVE FALSE
  OBVIOUS
<1>1. /\ Len(x) \in DOMAIN x /\ Len(x) \in DOMAIN l /\ x[Len(x)] < l[Len(x)]
      /\ l = x \/ (Len(l) \in DOMAIN x /\ l[Len(l)] < x[Len(l)])
  BY Zenon DEF Flows, Parts
<1>2. Len(l) = Len(x) /\ x[Len(x)] \in Nat /\ l[Len(x)] \in Nat
  BY <1>1 DEF Path
<1> QED
  BY <1>1, <1>2

\* The value stays right when a thread goes on from a handler that does not
\* set it ...
LEMMA ArrivedGoesOn ==
    ASSUME NEW x, NEW y, NEW S, NEW v, Arrived(v, S, x), x \notin S,
           \A s \in S : Flows(s, y) => Flows(s, x) \/ s = x,
           \A s \in S : Flows(s, x) => Flows(s, y)
    PROVE  Arrived(v, S, y)
BY Zenon DEF Arrived, Latest

\* ... and the leaf x sets it for the handler after x.
LEMMA ArrivedIsSet ==
    ASSUME NEW x \in Path, NEW y, NEW S, S \subseteq Path, x \in S, Flows(x, y),
           \A s \in S : Flows(s, y) => Flows(s, x) \/ s = x
    PROVE  Arrived(x, S, y)
<1> SUFFICES ASSUME NEW n \in S, Flows(x, n), Flows(n, y) PROVE FALSE
  BY Zenon DEF Arrived, Latest
<1> QED
  BY FlowIsOneWay, Zenon

\* A thread that goes on.
LEMMA MovesOn ==
    ASSUME TInv, NEW t \in Threads, NEW y, Moves(t, y), y # NoopHandler,
           NEW S, S \subseteq Leaves, NEW v, Arrived(v, S, at[t])
    PROVE  Arrived(IF at[t] \in S THEN at[t] ELSE v, S, y)
<1> DEFINE x == at[t]
<1>1. /\ x \in Nodes /\ x \in Path /\ y \in Path /\ TypeOK
      /\ y = Following(x) \/ (y = Append(x, 1) /\ Kind(x) = "chain")
  BY MovesInside, AtThread, Zenon DEF TInv, Moves
<1>2. S \subseteq Path /\ \A s \in S : Kind(s) = "leaf"
  BY <1>1, Tree, Zenon DEF Leaves
<1> HIDE DEF x
<1>3. CASE y = Following(x)
  <2>1. /\ Len(x) \in Nat \ {0} /\ Len(y) = Len(x) /\ Kind(SubSeq(x, 1, Len(x) - 1)) = "chain"
        /\ \A j \in 1..Len(x) - 1 : y[j] = x[j]
        /\ y[Len(x)] = x[Len(x)] + 1
    BY <1>1, <1>3, FollowSteps, Zenon
  <2>2. x[Len(x)] \in Nat /\ DOMAIN x = 1..Len(x) /\ DOMAIN y = 1..Len(x)
    BY <1>1, <2>1 DEF Path
  <2>3. Flows(x, y)
    BY <2>1, <2>2 DEF Flows, Parts
  <2>4. ASSUME NEW s \in S PROVE Flows(s, y) => Flows(s, x) \/ s = x
    BY <1>1, <1>2, <1>3, FollowOrder, Zenon
  <2>5. Len(x) <= Len(y) /\ x[Len(x)] <= y[Len(x)]
    BY <2>1, <2>2
  <2>6. ASSUME NEW s \in S PROVE Flows(s, x) => Flows(s, y)
    BY <1>1, <1>2, <2>1, <2>5, FlowGoesOn, Zenon
  <2> QED
    BY <1>1, <1>2, <2>3, <2>4, <2>6, ArrivedGoesOn, ArrivedIsSet, Zenon DEF x
<1>4. CASE y = Append(x, 1) /\ Kind(x) = "chain"
  <2>1. /\ Len(x) \in Nat /\ Len(y) = Len(x) + 1 /\ \A j \in 1..Len(x) : y[j] = x[j]
        /\ (x # <<>> => Len(x) \in 1..Len(x) /\ x[Len(x)] \in Nat)
    BY <1>1, <1>4, AppendStep DEF Path
  <2>2. Len(x) <= Len(y) /\ (\A j \in 1..Len(x) - 1 : y[j] = x[j])
        /\ (x # <<>> => x[Len(x)] <= y[Len(x)])
    BY <2>1
  <2>3. ASSUME NEW s \in S PROVE Flows(s, x) => Flows(s, y)
    BY <1>1, <1>2, <2>2, FlowGoesOn, Zenon
  <2>4. ASSUME NEW s \in S PROVE Flows(s, y) => Flows(s, x)
    BY <1>1, <1>2, <1>4, ChildOrder
  <2>5. x \notin S
    BY <1>2, <1>4, Zenon
  <2> QED
    BY <2>3, <2>4, <2>5, ArrivedGoesOn, ZenonT(30) DEF x
<1> QED
  BY <1>1, <1>3, <1>4, Zenon

\* The goroutines of a Parallel are given its context.
LEMMA StartsWith ==
    ASSUME TInv, NEW t \in Threads, IsAt(t, "parallel"), NEW c \in Started(t),
           NEW S, S \subseteq Leaves, NEW v, Arrived(v, S, at[t])
    PROVE  Arrived(v, S, c)
<1> DEFINE x == at[t]
<1>1. /\ c \in Path /\ Position(c) \in Nat \ {0} /\ c = Append(x, Position(c))
      /\ x \in Path /\ Kind(x) = "parallel" /\ TypeOK
  BY NewThreads, Tree, Zenon DEF TInv, Started, IsAt
<1>2. S \subseteq Path /\ \A s \in S : Kind(s) = "leaf"
  BY <1>1, Tree, Zenon DEF Leaves
<1>3. x \in Path /\ Len(c) = Len(x) + 1 /\ Below(x, c)
  BY NewThreads, Tree, Zenon DEF TInv, Started, IsAt
<1> HIDE DEF x
<1>4. Len(x) <= Len(c) /\ (\A j \in 1..Len(x) - 1 : c[j] = x[j])
      /\ (x # <<>> => x[Len(x)] <= c[Len(x)])
  BY <1>3 DEF Path, Below
<1>5. ASSUME NEW s \in S PROVE Flows(s, x) => Flows(s, c)
  BY <1>1, <1>2, <1>4, FlowGoesOn, Zenon
<1>6. ASSUME NEW s \in S PROVE Flows(s, c) => Flows(s, x)
  BY <1>1, <1>2, ChildOrder, ZenonT(30)
<1>7. x \notin S
  BY <1>1, <1>2, Zenon
<1> QED
  BY <1>5, <1>6, <1>7, ArrivedGoesOn, Zenon DEF x

\* A step leaves the composition, and what is said about it, as it is.
LEMMA SameValues ==
    ASSUME builder' = builder, aliased' = aliased
    PROVE  /\ Leaves' = Leaves /\ Keys' = Keys /\ With("read")' = With("read")
           /\ \A key : /\ Slot(key)' = Slot(key) /\ Setters(key)' = Setters(key)
                       /\ Unshared(key)' <=> Unshared(key)
           /\ \A v, S, x : Arrived(v, S, x)' <=> Arrived(v, S, x)
<1>1. /\ Leaves' = Leaves /\ Nodes' = Nodes
      /\ \A l, m : Flows(l, m)' <=> Flows(l, m)
  BY SameTree, Zenon
<1>2. Keys' = Keys /\ \A op : With(op)' = With(op)
  BY <1>1, Zenon DEF Keys, With, Op
<1>3. \A key : Slot(key)' = Slot(key) /\ Setters(key)' = Setters(key)
  BY <1>2, Zenon DEF Slot, Setters
<1>4. \A key : Unshared(key)' <=> Unshared(key)
  BY <1>2, <1>3, Zenon DEF Unshared
<1>5. \A v, S, x : Arrived(v, S, x)' <=> Arrived(v, S, x)
  BY <1>1 DEF Arrived, Latest
<1> QED
  BY <1>1, <1>2, <1>3, <1>4, <1>5, Zenon

\* Key.WithValue puts the value of the leaf l into its own slot.
LEMMA PlainIsSet ==
    ASSUME TypeOK, NEW t \in Threads, at[t] \in Leaves, NEW key, Unshared(key)
    PROVE  WithPlain(ctx[t], at[t])[Slot(key)] =
               IF at[t] \in Setters(key) THEN at[t] ELSE ctx[t].plain[Slot(key)]
<1> DEFINE l == at[t]
           k == builder[l].key
<1>1. /\ ctx[t].plain \in [Keys -> Leaves \cup {NoValue}] /\ aliased \in BOOLEAN
      /\ Slot(key) \in Keys /\ l \in Nodes
  BY Zenon DEF TypeOK, PlainValues, Slot, Keys, Unshared, Leaves
<1>2. l \in With("set") <=> Op(l) = "set"
  BY Zenon DEF With
<1>3. CASE Op(l) # "set"
  BY <1>2, <1>3, Zenon DEF WithPlain, Setters
<1>4. CASE Op(l) = "set" /\ k = key
  BY <1>1, <1>2, <1>4, Zenon DEF WithPlain, Setters
<1>5. CASE Op(l) = "set" /\ k # key
  <2>1. l \notin Setters(key)
    BY <1>5, Zenon DEF Setters
  <2>2. ~aliased
    BY <1>2, <1>5, <2>1, Zenon DEF Unshared
  <2>3. Slot(k) # Slot(key)
    BY <1>5, <2>2, Zenon DEF Slot
  <2> QED
    BY <1>1, <1>5, <2>1, <2>3, Zenon DEF WithPlain
<1> QED
  BY <1>3, <1>4, <1>5, Zenon

\* Only a leaf that calls the next handler gives it another context.
LEMMA ContextIsKept ==
    ASSUME TypeOK, NEW t \in Threads, Chain(t) \/ CallNext(t) \/ Stop(t) \/ Wait(t),
           NEW u \in Threads', u # t \/ Chain(t) \/ Wait(t)
    PROVE  ctx'[u] = ctx[u]
<1>1. CASE Chain(t) \/ Stop(t)
  BY <1>1, Zenon DEF Chain, Stop, valueVars
<1>2. CASE CallNext(t) /\ u # t
  BY <1>2 DEF CallNext, TypeOK
<1>3. CASE Wait(t)
  <2>1. DOMAIN at' = Threads \ Children(t)
    BY <1>3, Zenon DEF Wait, Joined
  <2>2. u \in Threads \ Children(t)
    BY <2>1, Zenon DEF Threads
  <2> QED
    BY <1>3, <2>2, Zenon DEF Wait, Joined
<1> QED
  BY <1>1, <1>2, <1>3, Zenon

\* What is right for x is right for y, if x does what it has to.
Onward(x, y) ==
    \A S \in SUBSET Leaves : \A v : Arrived(v, S, x) => Arrived(IF x \in S THEN x ELSE v, S, y)

\* Every context is that of a handler that has handed on, or has been there.
LEMMA Origin ==
    ASSUME TInv, NEW t \in Threads, Step(t), NEW u \in Threads', at'[u] # NoopHandler
    PROVE  \E w \in Threads :
              /\ at[w] # NoopHandler
              /\ \/ at'[u] = at[w] /\ ctx'[u] = ctx[w]
                 \/ at[w] \notin Leaves /\ ctx'[u] = ctx[w] /\ Onward(at[w], at'[u])
                 \/ /\ at[w] \in Leaves /\ ctx'[u] = WithContext(ctx[w], at[w])
                    /\ Onward(at[w], at'[u])
<1> DEFINE x == at[t]
<1>1. CASE Chain(t) \/ CallNext(t) \/ Stop(t) \/ Wait(t)
  <2>1. Moves(t, at'[t])
    BY <1>1, StepsMove, Zenon
  <2>2. CASE u # t
    <3>1. u \in Threads /\ at'[u] = at[u]
      BY <2>1, <2>2, Zenon DEF Moves
    <3>2. ctx'[u] = ctx[u]
      BY <1>1, <2>2, ContextIsKept, Zenon DEF TInv
    <3> QED
      BY <3>1, <3>2, Zenon
  <2>3. CASE u = t
    <3>1. x # NoopHandler
      BY <2>1, Zenon DEF Moves
    <3>2. Onward(x, at'[t])
      BY <2>1, <2>3, MovesOn, Zenon DEF Onward
    <3>3. CASE Chain(t) \/ Wait(t)
      <4>1. x \notin Leaves
        BY <3>3, Zenon DEF Chain, Wait, IsAt, TInv, TypeOK, Leaves
      <4> QED
        BY <2>3, <3>1, <3>2, <3>3, <4>1, ContextIsKept, Zenon DEF TInv
    <3>4. CASE CallNext(t)
      <4>1. x \in Leaves /\ ctx'[t] = WithContext(ctx[t], x)
        BY <3>4, Zenon DEF CallNext, End, IsAt, Leaves, TInv, TypeOK
      <4> QED
        BY <2>3, <3>1, <3>2, <4>1, Zenon
    <3>5. CASE Stop(t)
      BY <2>3, <3>5, Zenon DEF Stop, TInv, TypeOK
    <3> QED
      BY <1>1, <3>3, <3>4, <3>5, Zenon
  <2> QED
    BY <2>2, <2>3, Zenon
<1>2. CASE Parallel(t)
  <2>1. /\ Threads' = Threads \cup Started(t) /\ x # NoopHandler
        /\ \A c \in Started(t) : c \notin Threads /\ at'[c] = c
        /\ \A w \in Threads : at'[w] = at[w]
    BY <1>2, Starting, Zenon
  <2>2. /\ IsAt(t, "parallel")
        /\ ctx' = [w \in Threads \cup Started(t) |-> IF w \in Started(t) THEN ctx[t] ELSE ctx[w]]
    BY <1>2, Zenon DEF Parallel, Started
  <2>3. CASE u \in Started(t)
    <3>1. x \notin Leaves
      BY <2>2, Zenon DEF IsAt, Leaves
    <3>2. Onward(x, u)
      BY <2>2, <2>3, <3>1, StartsWith, Zenon DEF Onward
    <3> QED
      BY <2>1, <2>2, <2>3, <3>1, <3>2, Zenon
  <2> QED
    BY <2>1, <2>2, <2>3, Zenon
<1>3. CASE Begin(t)
  BY <1>3, Zenon DEF Begin, Threads
<1> QED
  BY <1>1, <1>2, <1>3, Zenon DEF Step

\* Where a thread goes on to has the right values in its context.
LEMMA ContextsStayRight ==
    ASSUME PInv, NEW t \in Threads, Step(t)
    PROVE  ContextsAreRight'
<1>0. TInv /\ TypeOK /\ builder' = builder /\ aliased' = aliased
  BY Zenon DEF PInv, TInv, Step, Chain, Begin, CallNext, Stop, Parallel, Wait, Joined
<1>1. \A key : /\ Slot(key)' = Slot(key) /\ Setters(key)' = Setters(key)
               /\ Unshared(key)' <=> Unshared(key)
               /\ \A v, S, y : Arrived(v, S, y)' <=> Arrived(v, S, y)
  BY <1>0, SameValues, Zenon
<1>2. SUFFICES ASSUME NEW u \in Threads', at'[u] # NoopHandler, NEW key, Unshared(key)
      PROVE  Arrived(ctx'[u].plain[Slot(key)], Setters(key), at'[u])
  BY <1>1, Zenon DEF ContextsAreRight
<1>3. PICK w \in Threads :
          /\ at[w] # NoopHandler
          /\ \/ at'[u] = at[w] /\ ctx'[u] = ctx[w]
             \/ at[w] \notin Leaves /\ ctx'[u] = ctx[w] /\ Onward(at[w], at'[u])
             \/ /\ at[w] \in Leaves /\ ctx'[u] = WithContext(ctx[w], at[w])
                /\ Onward(at[w], at'[u])
  BY <1>0, <1>2, Origin, Zenon
<1>4. Arrived(ctx[w].plain[Slot(key)], Setters(key), at[w]) /\ Setters(key) \in SUBSET Leaves
  BY <1>2, <1>3, Zenon DEF PInv, ContextsAreRight, Setters, With
<1>5. CASE at[w] \in Leaves /\ ctx'[u] = WithContext(ctx[w], at[w]) /\ Onward(at[w], at'[u])
  <2>1. ctx'[u].plain[Slot(key)] =
          IF at[w] \in Setters(key) THEN at[w] ELSE ctx[w].plain[Slot(key)]
    BY <1>0, <1>2, <1>5, PlainIsSet DEF WithContext
  <2> QED
    BY <1>4, <1>5, <2>1, ZenonT(30) DEF Onward
<1> QED
  BY <1>3, <1>4, <1>5, Zenon DEF Onward

\* A leaf reads what its thread's context has.
LEMMA ReadsStayRight ==
    ASSUME PInv, NEW t \in Threads, Step(t)
    PROVE  ReadsAreRight'
<1> DEFINE x == at[t]
<1>0. TInv /\ TypeOK /\ builder' = builder /\ aliased' = aliased
  BY Zenon DEF PInv, TInv, Step, Chain, Begin, CallNext, Stop, Parallel, Wait, Joined
<1>1. /\ With("read")' = With("read")
      /\ \A key : /\ Setters(key)' = Setters(key)
                  /\ Unshared(key)' <=> Unshared(key)
                  /\ \A v, S, y : Arrived(v, S, y)' <=> Arrived(v, S, y)
  BY <1>0, SameValues, Zenon
<1>2. SUFFICES ASSUME NEW r \in With("read"), r \in ran', NEW key, Unshared(key)
      PROVE  Arrived(seen'[r].plain[key], Setters(key), r)
  BY <1>1, Zenon DEF ReadsAreRight
<1>3. r \in ran => Arrived(seen[r].plain[key], Setters(key), r)
  BY <1>2, Zenon DEF PInv, ReadsAreRight
<1>4. CASE Chain(t) \/ Parallel(t) \/ Wait(t)
  BY <1>2, <1>3, <1>4, Zenon DEF Chain, Parallel, Wait, Joined, valueVars
<1>5. CASE Begin(t) \/ CallNext(t) \/ Stop(t)
  <2>1. /\ x \in Leaves /\ x # NoopHandler /\ r \in ran \cup {x}
        /\ \E word \in {1, 2} : ReadWord(ctx[t], x, word)
    BY <1>0, <1>2, <1>5, Tree, Zenon DEF Begin, CallNext, Stop, End, IsAt, Leaves
  <2>2. PICK word \in {1, 2} : ReadWord(ctx[t], x, word)
    BY <2>1, Zenon
  <2>5. r \in Leaves
    BY Zenon DEF With
  <2>3. CASE r # x
    <3>1. seen'[r] = seen[r]
      BY <1>0, <2>2, <2>3, <2>5, Zenon DEF ReadWord, TypeOK
    <3> QED
      BY <1>3, <2>1, <2>3, <3>1, Zenon
  <2>4. CASE r = x
    <3>1. Op(x) = "read" /\ seen[x] \in [plain : PlainValues, boxed : Words \X Words] /\ x \in DOMAIN seen
      BY <1>0, <1>2, <2>1, <2>4, Zenon DEF With, TypeOK
    <3>2. seen'[x].plain = [k \in Keys |-> ctx[t].plain[Slot(k)]]
      BY <2>2, <3>1, Zenon DEF ReadWord
    <3>3. seen'[x].plain[key] = ctx[t].plain[Slot(key)]
      BY <1>2, <3>2, Zenon DEF Unshared
    <3>4. Arrived(ctx[t].plain[Slot(key)], Setters(key), x)
      BY <1>2, <2>1, Zenon DEF PInv, ContextsAreRight
    <3> QED
      BY <2>4, <3>3, <3>4, Zenon
  <2> QED
    BY <2>3, <2>4, Zenon
<1> QED
  BY <1>4, <1>5, Zenon DEF Step

(***************************************************************************)
(* typedctx/context.go and parallel.go: a leaf reads the value of a Key    *)
(* that was set last on the way of its context, in every composition, and  *)
(* never one that another goroutine has set.                               *)
(***************************************************************************)
THEOREM PlainValuesHold == Spec => []PlainValuesFlowDown
<1>1. Init => PInv
  <2> SUFFICES ASSUME Init PROVE PInv
    OBVIOUS
  <2>1. TInv /\ <<>> \in Nodes /\ Threads = {<<>>} /\ at[<<>>] = <<>> /\ <<>> # NoopHandler
    BY InitThreads, Tree, Zenon DEF TInv
  <2>2. ASSUME NEW key, Unshared(key)
        PROVE  Arrived(ctx[<<>>].plain[Slot(key)], Setters(key), <<>>)
    <3>1. ctx[<<>>].plain[Slot(key)] = NoValue
      BY <2>2, Zenon DEF Init, Background, Slot, Unshared, Keys
    <3>2. \A s : ~Flows(s, <<>>)
      BY DEF Flows, Parts
    <3> QED
      BY <3>1, <3>2, Zenon DEF Arrived
  <2> QED
    BY <2>1, <2>2, Zenon DEF PInv, ContextsAreRight, ReadsAreRight, Init
<1>2. PInv /\ [Next]_vars => PInv'
  <2> SUFFICES ASSUME PInv, [Next]_vars PROVE PInv'
    OBVIOUS
  <2>1. CASE UNCHANGED vars
    <3>1. TInv'
      BY <2>1, StutterPreserves, Zenon DEF PInv
    <3>2. /\ builder' = builder /\ aliased' = aliased /\ Threads' = Threads
          /\ UNCHANGED <<at, ran, ctx, seen>>
      BY <2>1, Zenon DEF vars, threadVars, valueVars, Threads
    <3>3. /\ With("read")' = With("read")
          /\ \A key : /\ Slot(key)' = Slot(key) /\ Setters(key)' = Setters(key)
                      /\ Unshared(key)' <=> Unshared(key)
          /\ \A v, S, x : Arrived(v, S, x)' <=> Arrived(v, S, x)
      BY <3>2, SameValues, Zenon
    <3> QED
      BY <3>1, <3>2, <3>3, Zenon DEF PInv, ContextsAreRight, ReadsAreRight
  <2>2. CASE Next
    BY <2>2, ThreadsPreserved, ContextsStayRight, ReadsStayRight, Zenon DEF Next, PInv
  <2> QED
    BY <2>1, <2>2, Zenon
<1>3. PInv => PlainValuesFlowDown
  <2> SUFFICES ASSUME PInv, NEW r \in With("read") \cap ran, NEW key \in Keys \ {"none", "shared"},
                      ~aliased \/ With("set") = Setters(key)
               PROVE  seen[r].plain[key] \in
                        (IF Latest(Setters(key), r) = {} THEN {NoValue} ELSE Latest(Setters(key), r))
    BY Zenon DEF PlainValuesFlowDown
  <2>1. Arrived(seen[r].plain[key], Setters(key), r)
    BY Zenon DEF PInv, ReadsAreRight, Unshared
  <2> QED
    BY <2>1, Zenon DEF Arrived, Latest
<1> QED
  BY <1>1, <1>2, <1>3, PTL DEF Spec

------------------------------------------------------------------------------
(***************************************************************************)
(* The values in boxes.                                                    *)
(***************************************************************************)
Boxers == With("box") \cup With("fill")

\* A context has the box that was made last on its way, or there is none.
BoxesAreRight ==
    \A t \in Threads : at[t] # NoopHandler =>
        /\ Arrived(ctx[t].box, Makers, at[t])
        /\ ctx[t].box = NoBox => \A m \in Boxers : ~Flows(m, at[t])

Fillers(b) == {l \in With("fill") : BoxOf(l) = {b}}
Ordered(S) == \A l, m \in S : l = m \/ Before(l, m) \/ Before(m, l)
IsLast(v, S) ==
    \/ S = {} /\ v = Default
    \/ v \in S /\ \A m \in S \ {v} : Before(m, v)

\* The words of a box are those of the last leaf that has written them.
BoxesAreFilled ==
    \A b \in Leaves : Ordered(Fillers(b)) =>
        /\ IsLast(box[b][1], Fillers(b) \cap (working \cup ran))
        /\ IsLast(box[b][2], Fillers(b) \cap ran)

\* v is the word that the leaf r has to read when the leaves of done have run.
IsRead(v, r, done) ==
    /\ BoxOf(r) = {} => v = Default
    /\ \A b \in Leaves : BoxOf(r) = {b} /\ Ordered(Fillers(b) \cup {r}) =>
          IsLast(v, {l \in Fillers(b) \cap done : Before(l, r)})

BoxesAreRead ==
    \A r \in With("read") :
        /\ r \in working \cup ran => IsRead(seen[r].boxed[1], r, ran)
        /\ r \in ran => IsRead(seen[r].boxed[2], r, ran)

BInv == OInv /\ BoxesAreRight /\ BoxesAreFilled /\ BoxesAreRead

\* No two leaves are before each other.
LEMMA OneWay ==
    ASSUME NEW l \in Path, NEW m \in Path, Before(l, m)
    PROVE  ~Before(m, l)
<1> SUFFICES ASSUME NEW j \in DOMAIN l, Parts(j, l, m), NEW k \in DOMAIN m, Parts(k, m, l)
             PROVE  FALSE
  BY Zenon DEF Before
<1>1. j \in Nat /\ k \in Nat /\ 0 < j /\ 0 < k
  BY DEF Path
<1>2. /\ l[j] \in Nat /\ m[j] \in Nat /\ l[j] < m[j] /\ \A i \in 1..j - 1 : l[i] = m[i]
      /\ l[k] \in Nat /\ m[k] \in Nat /\ m[k] < l[k] /\ \A i \in 1..k - 1 : m[i] = l[i]
  BY DEF Parts, Path
<1>3. ~(j < k) /\ ~(k < j)
  BY <1>1, <1>2
<1> QED
  BY <1>1, <1>2, <1>3

\* Of two leaves that flow to x, the one flows to the other.
LEMMA FlowsInTurn ==
    ASSUME NEW l \in Path, NEW m \in Path, NEW x \in Path, Flows(l, x), Flows(m, x),
           Len(l) < Len(m) \/ (Len(l) = Len(m) /\ l[Len(l)] < m[Len(l)])
    PROVE  Flows(l, m)
<1> DEFINE k == Len(l)
           n == Len(m)
<1>1. /\ k \in Nat \ {0} /\ n \in Nat /\ k <= n /\ k \in DOMAIN l /\ k \in DOMAIN m
      /\ l[k] \in Nat /\ m[k] \in Nat
  BY SMTT(60) DEF Flows, Parts, Path
<1>2. /\ \A i \in 1..k - 1 : l[i] = x[i]
      /\ \A i \in 1..n - 1 : m[i] = x[i]
      /\ l[k] < x[k] /\ Kind(SubSeq(l, 1, k - 1)) = "chain"
  BY Zenon DEF Flows, Parts
<1>3. k < n \/ l[k] < m[k]
  OBVIOUS
<1> HIDE DEF k, n
<1>4. \A i \in 1..k - 1 : l[i] = m[i]
  <2> SUFFICES ASSUME NEW i \in 1..k - 1 PROVE l[i] = m[i]
    OBVIOUS
  <2>1. i \in 1..n - 1
    BY <1>1
  <2> QED
    BY <1>2, <2>1, Zenon
<1>5. l[k] < m[k]
  <2>1. CASE k < n
    <3>1. k \in 1..n - 1
      BY <1>1, <2>1
    <3> QED
      BY <1>2, <3>1, Zenon
  <2> QED
    BY <1>3, <2>1, Zenon
<1>6. Parts(k, l, m)
  BY <1>1, <1>2, <1>4, <1>5, Zenon DEF Parts
<1> QED
  BY <1>6, Zenon DEF Flows, k

\* At most one leaf is the last on the way of a context.
LEMMA LatestIsOne ==
    ASSUME NEW S, S \subseteq Path, NEW x \in Path, NEW l \in Latest(S, x)
    PROVE  Latest(S, x) = {l}
<1> SUFFICES ASSUME NEW m \in Latest(S, x) PROVE m = l
  OBVIOUS
<1>1. /\ l \in Path /\ m \in Path /\ Flows(l, x) /\ Flows(m, x)
      /\ ~Flows(l, m) /\ ~Flows(m, l)
  BY Zenon DEF Latest
<1>2. /\ ~(Len(l) < Len(m)) /\ ~(Len(m) < Len(l))
      /\ ~(Len(l) = Len(m) /\ l[Len(l)] < m[Len(l)])
      /\ ~(Len(l) = Len(m) /\ m[Len(m)] < l[Len(m)])
  BY <1>1, FlowsInTurn, Zenon
<1>3. Len(l) \in Nat \ {0} /\ Len(m) \in Nat
  BY <1>1, SMTT(60) DEF Flows, Parts, Path
<1>4. Len(l) = Len(m)
  BY <1>2, <1>3
<1>5. l[Len(l)] = m[Len(l)]
  <2>1. l[Len(l)] \in Nat /\ m[Len(l)] \in Nat
    BY <1>1, <1>3, <1>4 DEF Path
  <2> QED
    BY <1>2, <1>4, <2>1
<1>6. \A i \in 1..Len(l) : l[i] = m[i]
  <2>1. \A i \in 1..Len(l) - 1 : l[i] = x[i] /\ m[i] = x[i]
    BY <1>1, <1>4, Zenon DEF Flows, Parts
  <2> QED
    BY <1>3, <1>5, <2>1
<1> QED
  BY <1>1, <1>3, <1>4, <1>6, SameSteps DEF Below

\* Boxes are made by leaves, which have other names than NoBox.
LEMMA MakersAreLeaves ==
    ASSUME TypeOK
    PROVE  /\ Makers \subseteq Boxers /\ Boxers \subseteq Leaves /\ Leaves \subseteq Path
           /\ NoBox \notin Leaves
BY Tree, Zenon DEF Makers, Boxers, With, Leaves, NoBox, NoopHandler

\* BoxedKey.WithValue and BoxedKey.Value find the box that they should.
LEMMA BoxOfLeaf ==
    ASSUME TypeOK, BoxesAreRight, NEW t \in Threads, at[t] \in Leaves
    PROVE  LET l == at[t]
               b == WithContext(ctx[t], l).box
           IN  /\ b = IF l \in Makers THEN l ELSE ctx[t].box
               /\ ctx[t].box = NoBox /\ l \in Boxers => l \in Makers
               /\ Op(l) = "fill" => BoxOf(l) = {b}
               /\ Op(l) = "read" => BoxOf(l) = IF ctx[t].box = NoBox THEN {} ELSE {ctx[t].box}
<1> DEFINE l == at[t]
           c == ctx[t].box
<1>1. /\ Makers \subseteq Boxers /\ Makers \subseteq Path /\ NoBox \notin Makers /\ l \in Path
      /\ l # NoopHandler
  BY MakersAreLeaves, Zenon DEF NoBox, NoopHandler
<1>2. Arrived(c, Makers, l) /\ (c = NoBox => \A m \in Boxers : ~Flows(m, l))
  BY <1>1, Zenon DEF BoxesAreRight
<1>3. WithContext(ctx[t], l).box = IF Op(l) = "box" \/ (Op(l) = "fill" /\ c = NoBox) THEN l ELSE c
  BY Zenon DEF WithContext
<1>4. /\ l \in With("box") <=> Op(l) = "box"
      /\ l \in With("fill") <=> Op(l) = "fill"
  BY Zenon DEF With
<1> HIDE DEF l, c
<1>5. CASE c = NoBox
  <2>1. \A m \in Boxers : ~Flows(m, l)
    BY <1>2, <1>5, Zenon
  <2>2. Latest(Makers, l) = {}
    BY <1>1, <2>1, Zenon DEF Latest
  <2>3. l \in Makers <=> l \in Boxers
    BY <1>1, <2>1, Zenon DEF Makers, Boxers
  <2>4. l \in Boxers <=> Op(l) \in {"box", "fill"}
    BY <1>4, Zenon DEF Boxers
  <2> QED
    BY <1>3, <1>5, <2>2, <2>3, <2>4, Zenon DEF BoxOf, l, c
<1>6. CASE c # NoBox
  <2>1. c \in Latest(Makers, l)
    BY <1>2, <1>6, Zenon DEF Arrived, NoValue, NoBox
  <2>2. Latest(Makers, l) = {c}
    BY <1>1, <2>1, LatestIsOne, Zenon
  <2>3. c \in Boxers /\ Flows(c, l)
    BY <1>1, <2>1, Zenon DEF Latest
  <2>4. l \in Makers <=> Op(l) = "box"
    BY <1>4, <2>3, Zenon DEF Makers, Boxers
  <2> QED
    BY <1>3, <1>6, <2>2, <2>4, Zenon DEF BoxOf, l, c
<1> QED
  BY <1>5, <1>6, Zenon

\* The same for what is said about boxes.
LEMMA SameBoxes ==
    ASSUME builder' = builder, aliased' = aliased
    PROVE  /\ Leaves' = Leaves /\ Makers' = Makers /\ Boxers' = Boxers
           /\ With("read")' = With("read")
           /\ \A l : Fillers(l)' = Fillers(l)
           /\ \A S : Ordered(S)' <=> Ordered(S)
           /\ \A v, S : IsLast(v, S)' <=> IsLast(v, S)
           /\ \A v, r, S : IsRead(v, r, S)' <=> IsRead(v, r, S)
           /\ \A v, S, x : Arrived(v, S, x)' <=> Arrived(v, S, x)
           /\ \A l, m : Flows(l, m)' <=> Flows(l, m)
<1>1. /\ Leaves' = Leaves
      /\ \A l, m : (Before(l, m)' <=> Before(l, m)) /\ (Flows(l, m)' <=> Flows(l, m))
  BY SameTree, Zenon
<1>2. \A op : With(op)' = With(op)
  BY <1>1, Zenon DEF With, Op
<1>3. Makers' = Makers /\ Boxers' = Boxers
  BY <1>1, <1>2, Zenon DEF Makers, Boxers
<1>4. \A S, x : Latest(S, x)' = Latest(S, x)
  BY <1>1, Zenon DEF Latest
<1>5. \A l : BoxOf(l)' = BoxOf(l)
  BY <1>3, <1>4, Zenon DEF BoxOf
<1>6. \A l : Fillers(l)' = Fillers(l)
  BY <1>2, <1>5, Zenon DEF Fillers
<1>7. /\ \A S : Ordered(S)' <=> Ordered(S)
      /\ \A v, S : IsLast(v, S)' <=> IsLast(v, S)
  BY <1>1, Zenon DEF Ordered, IsLast
<1>8. \A v, r, S : IsRead(v, r, S)' <=> IsRead(v, r, S)
  BY <1>1, <1>5, <1>6, <1>7, ZenonT(30) DEF IsRead
<1>9. \A v, S, x : Arrived(v, S, x)' <=> Arrived(v, S, x)
  BY SameValues, Zenon
<1> QED
  BY <1>1, <1>2, <1>3, <1>6, <1>7, <1>8, <1>9, Zenon

\* BoxedKey.WithBox and BoxedKey.WithValue put the box that they make into the
\* context that they hand on.
LEMMA BoxesStayRight ==
    ASSUME TInv, BoxesAreRight, NEW t \in Threads, Step(t)
    PROVE  BoxesAreRight'
<1>0. TypeOK /\ builder' = builder /\ aliased' = aliased
  BY Zenon DEF TInv, Step, Chain, Begin, CallNext, Stop, Parallel, Wait, Joined
<1>1. /\ Makers' = Makers /\ Boxers' = Boxers
      /\ \A v, S, y : Arrived(v, S, y)' <=> Arrived(v, S, y)
      /\ \A l, m : Flows(l, m)' <=> Flows(l, m)
  BY <1>0, SameBoxes, Zenon
<1>2. SUFFICES ASSUME NEW u \in Threads', at'[u] # NoopHandler
      PROVE  /\ Arrived(ctx'[u].box, Makers, at'[u])
             /\ ctx'[u].box = NoBox => \A m \in Boxers : ~Flows(m, at'[u])
  BY <1>1, Zenon DEF BoxesAreRight
<1>3. PICK w \in Threads :
          /\ at[w] # NoopHandler
          /\ \/ at'[u] = at[w] /\ ctx'[u] = ctx[w]
             \/ at[w] \notin Leaves /\ ctx'[u] = ctx[w] /\ Onward(at[w], at'[u])
             \/ /\ at[w] \in Leaves /\ ctx'[u] = WithContext(ctx[w], at[w])
                /\ Onward(at[w], at'[u])
  BY <1>2, Origin, Zenon
<1> DEFINE x == at[w]
           y == at'[u]
           c == ctx[w].box
<1>4. /\ Arrived(c, Makers, x) /\ (c = NoBox => \A m \in Boxers : ~Flows(m, x))
      /\ Makers \in SUBSET Leaves /\ Boxers \in SUBSET Leaves /\ Makers \subseteq Boxers
      /\ NoBox \notin Leaves
  BY <1>0, <1>3, MakersAreLeaves, Zenon DEF BoxesAreRight
<1>5. ASSUME c = NoBox, x \notin Boxers, Onward(x, y)
      PROVE  \A m \in Boxers : ~Flows(m, y)
  <2>1. Arrived(c, Boxers, x)
    BY <1>4, <1>5, Zenon DEF Arrived, NoBox, NoValue
  <2>2. Arrived(c, Boxers, y)
    BY <1>4, <1>5, <2>1, Zenon DEF Onward
  <2>3. c \notin Latest(Boxers, y)
    BY <1>4, <1>5, Zenon DEF Latest
  <2> QED
    BY <2>2, <2>3, Zenon DEF Arrived
<1>6. CASE x \in Leaves /\ ctx'[u] = WithContext(ctx[w], x) /\ Onward(x, y)
  <2>1. /\ ctx'[u].box = IF x \in Makers THEN x ELSE c
        /\ c = NoBox /\ x \in Boxers => x \in Makers
    BY <1>0, <1>6, BoxOfLeaf, Zenon
  <2>2. Arrived(ctx'[u].box, Makers, y)
    BY <1>4, <1>6, <2>1, Zenon DEF Onward
  <2>3. ctx'[u].box = NoBox => c = NoBox /\ x \notin Boxers
    BY <1>4, <1>6, <2>1, Zenon
  <2> QED
    BY <1>5, <1>6, <2>2, <2>3, Zenon
<1>7. CASE x \notin Leaves /\ ctx'[u] = ctx[w] /\ Onward(x, y)
  <2>1. x \notin Makers /\ x \notin Boxers
    BY <1>4, <1>7, Zenon
  <2>2. Arrived(c, Makers, y)
    BY <1>4, <1>7, <2>1, Zenon DEF Onward
  <2> QED
    BY <1>5, <1>7, <2>1, <2>2, Zenon
<1>8. CASE y = x /\ ctx'[u] = ctx[w]
  BY <1>4, <1>8, Zenon
<1> QED
  BY <1>3, <1>6, <1>7, <1>8, Zenon

\* When a leaf begins or ends, those before it are over, and those after it
\* have not begun.
LEMMA LeafInOrder ==
    ASSUME OInv, NEW t \in Threads, at[t] \in Leaves
    PROVE  /\ at[t] \notin ran
           /\ \A m \in Leaves : /\ Before(m, at[t]) => m \notin working
                                /\ Before(at[t], m) => m \notin working /\ m \notin ran
<1>1. TypeOK /\ TInv /\ at[t] # NoopHandler /\ t \notin waiting
  BY Tree, Zenon DEF OInv, TInv, TypeOK, IsAt, Leaves
<1>2. Below(at[t], at[t])
  BY <1>1, AtThread DEF Below
<1>3. at[t] \notin ran
  BY <1>1, <1>2, AroundThread, Zenon
<1>4. ASSUME NEW m \in Leaves
      PROVE  /\ Before(m, at[t]) => m \notin working
             /\ Before(at[t], m) => m \notin working /\ m \notin ran
  BY <1>1, AroundThread, Zenon DEF Over
<1> QED
  BY <1>3, <1>4, Zenon

\* What one step does to the words of boxes and of readers.
LEMMA WordsOfStep ==
    ASSUME OInv, BoxesAreRight, NEW t \in Threads, Step(t)
    PROVE  \/ UNCHANGED <<working, ran, box, seen>>
           \/ /\ at[t] \in Leaves /\ working' = working \cup {at[t]} /\ ran' = ran
              /\ FillWord(ctx[t], at[t], 1) /\ ReadWord(ctx[t], at[t], 1)
           \/ /\ at[t] \in working /\ at[t] \in Leaves /\ working' = working \ {at[t]}
              /\ ran' = ran \cup {at[t]}
              /\ FillWord(ctx[t], at[t], 2) /\ ReadWord(ctx[t], at[t], 2)
<1>1. CASE Chain(t) \/ Parallel(t) \/ Wait(t)
  BY <1>1, Zenon DEF Chain, Parallel, Wait, Joined, valueVars
<1>2. CASE Begin(t)
  BY <1>2, Zenon DEF Begin, IsAt, Leaves
<1>3. CASE CallNext(t) \/ Stop(t)
  BY <1>3, Zenon DEF CallNext, Stop, End, IsAt, Leaves
<1> QED
  BY <1>1, <1>2, <1>3, Zenon DEF Step

\* The last of the leaves that fill a box has filled it.
LEMMA IsNowLast ==
    ASSUME NEW S, NEW T, S \subseteq T, Ordered(T), NEW x \in T,
           \A m \in S : ~Before(x, m)
    PROVE  IsLast(x, S \cup {x})
BY Zenon DEF IsLast, Ordered

\* BoxedKey.WithValue writes the words of one box, after all that it has to
\* come after.
LEMMA BoxesStayFilled ==
    ASSUME OInv, BoxesAreRight, BoxesAreFilled, NEW t \in Threads, Step(t)
    PROVE  BoxesAreFilled'
<1> DEFINE x == at[t]
<1>0. TypeOK /\ builder' = builder /\ aliased' = aliased
  BY Zenon DEF OInv, TInv, Step, Chain, Begin, CallNext, Stop, Parallel, Wait, Joined
<1>1. /\ Leaves' = Leaves
      /\ \A l : Fillers(l)' = Fillers(l)
      /\ \A S : Ordered(S)' <=> Ordered(S)
      /\ \A v, S : IsLast(v, S)' <=> IsLast(v, S)
  BY <1>0, SameBoxes, Zenon
<1>2. SUFFICES ASSUME NEW b \in Leaves, Ordered(Fillers(b))
      PROVE  /\ IsLast(box'[b][1], Fillers(b) \cap (working' \cup ran'))
             /\ IsLast(box'[b][2], Fillers(b) \cap ran')
  BY <1>1, Zenon DEF BoxesAreFilled
<1> DEFINE F == Fillers(b)
<1>3. /\ IsLast(box[b][1], F \cap (working \cup ran))
      /\ IsLast(box[b][2], F \cap ran)
  BY <1>2, Zenon DEF BoxesAreFilled
<1>4. CASE UNCHANGED <<working, ran, box, seen>>
  BY <1>3, <1>4, Zenon
<1>5. CASE x \in Leaves /\ x \notin F
  <2>1. F \cap (working' \cup ran') = F \cap (working \cup ran) /\ F \cap ran' = F \cap ran
    BY <1>4, <1>5, WordsOfStep, Zenon
  <2>2. box'[b] = box[b]
    <3>1. CASE Op(x) # "fill"
      BY <1>4, <3>1, WordsOfStep, Zenon DEF FillWord
    <3>2. CASE Op(x) = "fill"
      <4>1. b # WithContext(ctx[t], x).box
        BY <1>0, <1>5, <3>2, BoxOfLeaf, Zenon DEF Fillers, With
      <4>2. \E word \in {1, 2} : box' = [box EXCEPT ![WithContext(ctx[t], x).box][word] = x]
            \/ box' = box
        BY <1>4, <3>2, WordsOfStep, Zenon DEF FillWord
      <4> QED
        BY <1>0, <1>2, <4>1, <4>2, Zenon DEF TypeOK
    <3> QED
      BY <3>1, <3>2, Zenon
  <2> QED
    BY <1>3, <2>1, <2>2, Zenon
<1>6. CASE x \in Leaves /\ x \in F
  <2>1. Op(x) = "fill" /\ WithContext(ctx[t], x).box = b
    <3>1. Op(x) = "fill" /\ BoxOf(x) = {b}
      BY <1>6, Zenon DEF Fillers, With
    <3> QED
      BY <1>0, <1>6, <3>1, BoxOfLeaf, Zenon
  <2>2. /\ F \subseteq Leaves
        /\ \A m \in Leaves : Before(x, m) => m \notin working /\ m \notin ran
    BY <1>6, LeafInOrder, Zenon DEF Fillers, With
  <2>3. box[b] \in Words \X Words /\ box \in [Leaves -> Words \X Words]
    BY <1>0, <1>2, Zenon DEF TypeOK
  <2>4. ASSUME NEW S, S \subseteq F \cap (working \cup ran) PROVE IsLast(x, S \cup {x})
    BY <1>2, <1>6, <2>2, <2>4, IsNowLast, Zenon
  <2> HIDE DEF F
  <2>5. CASE /\ working' = working \cup {x} /\ ran' = ran
             /\ FillWord(ctx[t], x, 1)
    <3>1. box'[b][1] = x /\ box'[b][2] = box[b][2]
      BY <1>2, <2>1, <2>3, <2>5 DEF FillWord
    <3>2. F \cap (working' \cup ran') = (F \cap (working \cup ran)) \cup {x}
      BY <1>6, <2>5, Zenon
    <3>3. IsLast(x, (F \cap (working \cup ran)) \cup {x})
      BY <2>4, Zenon
    <3> QED
      BY <1>3, <2>5, <3>1, <3>2, <3>3, ZenonT(30) DEF F
  <2>6. CASE /\ x \in working /\ working' = working \ {x} /\ ran' = ran \cup {x}
             /\ FillWord(ctx[t], x, 2)
    <3>1. box'[b][2] = x /\ box'[b][1] = box[b][1]
      BY <1>2, <2>1, <2>3, <2>6 DEF FillWord
    <3>2. /\ F \cap (working' \cup ran') = F \cap (working \cup ran)
          /\ F \cap ran' = (F \cap ran) \cup {x}
      BY <1>6, <2>6, Zenon
    <3>3. IsLast(x, (F \cap ran) \cup {x})
      BY <2>4, Zenon
    <3> QED
      BY <1>3, <3>1, <3>2, <3>3, ZenonT(30) DEF F
  <2> QED
    BY <1>4, <2>5, <2>6, WordsOfStep, Zenon
<1> QED
  BY <1>4, <1>5, <1>6, WordsOfStep, Zenon

\* A box that is filled in one order has what comes before a reader of it.
LEMMA FilledIsBefore ==
    ASSUME OInv, NEW t \in Threads, at[t] \in With("read"), NEW b, Ordered(Fillers(b) \cup {at[t]})
    PROVE  LET E == {l \in Fillers(b) \cap ran : Before(l, at[t])}
           IN  /\ Ordered(Fillers(b))
               /\ Fillers(b) \cap (working \cup ran) = E
               /\ Fillers(b) \cap ran = E
<1> DEFINE x == at[t]
           F == Fillers(b)
<1>1. /\ x \in Leaves /\ F \subseteq Leaves /\ x \notin F
  BY Zenon DEF Fillers, With
<1>2. \A m \in Leaves : /\ Before(m, x) => m \notin working
                        /\ Before(x, m) => m \notin working /\ m \notin ran
  BY <1>1, LeafInOrder, Zenon
<1>3. \A m \in F : Before(m, x) \/ Before(x, m)
  BY <1>1, Zenon DEF Ordered
<1>4. Ordered(F)
  BY Zenon DEF Ordered
<1> HIDE DEF x, F
<1>5. /\ F \cap (working \cup ran) = {l \in F \cap ran : Before(l, x)}
      /\ F \cap ran = {l \in F \cap ran : Before(l, x)}
  BY <1>1, <1>2, <1>3, Zenon
<1> QED
  BY <1>4, <1>5, Zenon DEF x, F

\* What the leaf of a thread reads now is what it should.
LEMMA ReadsNow ==
    ASSUME OInv, BoxesAreRight, BoxesAreFilled, NEW t \in Threads, at[t] \in With("read"),
           NEW word \in {1, 2}
    PROVE  IsRead(Boxed(ctx[t], word), at[t], ran)
<1> DEFINE x == at[t]
           c == ctx[t].box
<1>1. /\ TypeOK /\ x \in Leaves
      /\ BoxOf(x) = IF c = NoBox THEN {} ELSE {c}
  BY BoxOfLeaf, Zenon DEF OInv, TInv, With
<1>2. CASE c = NoBox
  BY <1>1, <1>2, Zenon DEF IsRead, Boxed
<1>3. CASE c # NoBox
  <2>1. BoxOf(x) = {c} /\ c \in Leaves /\ Boxed(ctx[t], word) = box[c][word]
    BY <1>1, <1>3, Zenon DEF TypeOK, Boxed
  <2>2. ASSUME Ordered(Fillers(c) \cup {x})
        PROVE  IsLast(box[c][word], {l \in Fillers(c) \cap ran : Before(l, x)})
    BY <2>1, <2>2, FilledIsBefore, Zenon DEF BoxesAreFilled
  <2> QED
    BY <2>1, <2>2, Zenon DEF IsRead
<1> QED
  BY <1>2, <1>3, Zenon

\* BoxedKey.Value reads them so, and nobody comes later who should have been
\* read.
LEMMA ReadsStay ==
    ASSUME BInv, NEW t \in Threads, Step(t)
    PROVE  BoxesAreRead'
<1> DEFINE x == at[t]
<1>0. OInv /\ TypeOK /\ builder' = builder /\ aliased' = aliased
  BY Zenon DEF BInv, OInv, TInv, Step, Chain, Begin, CallNext, Stop, Parallel, Wait, Joined
<1>1. /\ With("read")' = With("read")
      /\ \A v, r, S : IsRead(v, r, S)' <=> IsRead(v, r, S)
  BY <1>0, SameBoxes, Zenon
<1>2. SUFFICES ASSUME NEW r \in With("read")
      PROVE  /\ r \in working' \cup ran' => IsRead(seen'[r].boxed[1], r, ran')
             /\ r \in ran' => IsRead(seen'[r].boxed[2], r, ran')
  BY <1>1, Zenon DEF BoxesAreRead
<1>3. /\ r \in working \cup ran => IsRead(seen[r].boxed[1], r, ran)
      /\ r \in ran => IsRead(seen[r].boxed[2], r, ran)
      /\ r \in Leaves
  BY Zenon DEF BInv, BoxesAreRead, With
<1>4. CASE UNCHANGED <<working, ran, box, seen>>
  BY <1>3, <1>4, Zenon
<1>5. CASE x \in Leaves
  <2>1. /\ x \notin ran
        /\ \A m \in Leaves : Before(x, m) => m \notin working /\ m \notin ran
    BY <1>0, <1>5, LeafInOrder, Zenon
  \* The leaf is not one that r reads after.
  <2>2. ASSUME NEW v, IsRead(v, r, ran), r \in working \cup ran \cup {x}
        PROVE  IsRead(v, r, ran')
    <3>1. ran' = ran \/ ran' = ran \cup {x}
      BY <1>4, WordsOfStep, Zenon DEF BInv
    <3>2. ~Before(x, r)
      <4>1. ~Before(x, x)
        BY <1>0, <1>5, Tree, Irreflexive, Zenon DEF Leaves
      <4> QED
        BY <1>3, <2>1, <2>2, <4>1, Zenon
    <3>3. \A b : {l \in Fillers(b) \cap ran' : Before(l, r)} = {l \in Fillers(b) \cap ran : Before(l, r)}
      BY <3>1, <3>2, Zenon
    <3> QED
      BY <2>2, <3>3, Zenon DEF IsRead
  <2>3. CASE r # x
    <3>1. seen'[r] = seen[r] \/ seen' = seen
      BY <1>0, <1>3, <1>4, <2>3, WordsOfStep, ZenonT(30) DEF ReadWord, BInv, TypeOK
    <3>2. (r \in working' \cup ran' => r \in working \cup ran) /\ (r \in ran' => r \in ran)
      BY <1>4, <2>3, WordsOfStep DEF BInv
    <3> QED
      BY <1>3, <2>2, <3>1, <3>2, Zenon
  <2>4. CASE r = x
    <3>1. Op(x) = "read" /\ seen[x] \in [plain : PlainValues, boxed : Words \X Words] /\ x \in DOMAIN seen
      BY <1>0, <1>3, <2>4, Zenon DEF With, TypeOK
    <3>2. \A word \in {1, 2} : IsRead(Boxed(ctx[t], word), x, ran')
      BY <2>2, <2>4, ReadsNow, Zenon DEF BInv
    <3>3. CASE ran' = ran /\ ReadWord(ctx[t], x, 1)
      <4>1. seen'[x].boxed[1] = Boxed(ctx[t], 1)
        <5>1. seen'[x].boxed = [seen[x].boxed EXCEPT ![1] = Boxed(ctx[t], 1)]
          BY <3>1, <3>3, ZenonT(30) DEF ReadWord
        <5>2. seen[x].boxed \in Words \X Words
          BY <3>1, Zenon
        <5> QED
          BY <5>1, <5>2
      <4> QED
        BY <2>1, <2>4, <3>2, <3>3, <4>1, ZenonT(30)
    <3>4. CASE x \in working /\ ran' = ran \cup {x} /\ ReadWord(ctx[t], x, 2)
      <4>1. seen'[x].boxed[2] = Boxed(ctx[t], 2) /\ seen'[x].boxed[1] = seen[x].boxed[1]
        <5>1. seen'[x].boxed = [seen[x].boxed EXCEPT ![2] = Boxed(ctx[t], 2)]
          BY <3>1, <3>4, ZenonT(30) DEF ReadWord
        <5>2. seen[x].boxed \in Words \X Words
          BY <3>1, Zenon
        <5> QED
          BY <5>1, <5>2
      <4> QED
        BY <1>3, <2>2, <2>4, <3>2, <3>4, <4>1, ZenonT(30)
    <3> QED
      BY <1>4, <3>3, <3>4, WordsOfStep, Zenon DEF BInv
  <2> QED
    BY <2>3, <2>4, Zenon
<1> QED
  BY <1>4, <1>5, WordsOfStep, Zenon DEF BInv

\* Every step preserves the invariant about boxes.
LEMMA BoxesPreserved ==
    ASSUME BInv, ChainsAreLast(builder), [Next]_vars
    PROVE  BInv'
<1>1. CASE UNCHANGED vars
  <2>1. OInv'
    BY <1>1, StutterOrder, Zenon DEF BInv
  <2>2. /\ builder' = builder /\ aliased' = aliased /\ Threads' = Threads
        /\ UNCHANGED <<at, working, ran, ctx, box, seen>>
    BY <1>1, Zenon DEF vars, threadVars, valueVars, Threads
  <2>3. /\ Leaves' = Leaves /\ Makers' = Makers /\ Boxers' = Boxers
        /\ With("read")' = With("read")
        /\ \A l : Fillers(l)' = Fillers(l)
        /\ \A S : Ordered(S)' <=> Ordered(S)
        /\ \A v, S : IsLast(v, S)' <=> IsLast(v, S)
        /\ \A v, r, S : IsRead(v, r, S)' <=> IsRead(v, r, S)
        /\ \A v, S, x : Arrived(v, S, x)' <=> Arrived(v, S, x)
        /\ \A l, m : Flows(l, m)' <=> Flows(l, m)
    BY <2>2, SameBoxes, Zenon
  <2>4. BoxesAreRight'
    BY <2>2, <2>3, Zenon DEF BInv, BoxesAreRight
  <2>5. BoxesAreFilled'
    BY <2>2, <2>3, Zenon DEF BInv, BoxesAreFilled
  <2>6. BoxesAreRead'
    BY <2>2, <2>3, Zenon DEF BInv, BoxesAreRead
  <2> QED
    BY <2>1, <2>4, <2>5, <2>6, Zenon DEF BInv
<1>2. CASE Next
  <2>1. PICK t \in Threads : Step(t)
    BY <1>2, Zenon DEF Next
  <2>2. OInv' /\ BoxesAreRight'
    BY <2>1, OrderPreserved, BoxesStayRight, Zenon DEF BInv, OInv
  <2>3. BoxesAreFilled' /\ BoxesAreRead'
    BY <2>1, BoxesStayFilled, ReadsStay, Zenon DEF BInv
  <2> QED
    BY <2>2, <2>3, Zenon DEF BInv
<1> QED
  BY <1>1, <1>2, Zenon

\* A leaf is told one box or none.
LEMMA OneBox ==
    ASSUME TypeOK, NEW r \in Leaves
    PROVE  BoxOf(r) = {} \/ \E b \in Leaves : BoxOf(r) = {b}
<1>1. Makers \subseteq Leaves /\ Leaves \subseteq Path
  BY MakersAreLeaves, Zenon
<1>2. CASE r \in Makers
  BY <1>2, Zenon DEF BoxOf
<1>3. CASE r \notin Makers
  <2> SUFFICES ASSUME NEW b \in Latest(Makers, r) PROVE b \in Leaves /\ BoxOf(r) = {b}
    BY <1>3, Zenon DEF BoxOf
  <2>1. Latest(Makers, r) = {b}
    BY <1>1, LatestIsOne, Zenon
  <2> QED
    BY <1>1, <1>3, <2>1, Zenon DEF BoxOf, Latest
<1> QED
  BY <1>2, <1>3, Zenon

\* Two words that were written last are one leaf's.
LEMMA LastIsOne ==
    ASSUME NEW S, S \subseteq Path, NEW v, NEW w, IsLast(v, S), IsLast(w, S)
    PROVE  /\ v = w
           /\ S = {} => v = Default
           /\ S # {} => v \in S /\ \A m \in S \ {v} : Before(m, v)
<1>1. S # {} => (v \in S /\ \A m \in S \ {v} : Before(m, v)) /\ (w \in S /\ \A m \in S \ {w} : Before(m, w))
  BY Zenon DEF IsLast
<1>2. S = {} => v = Default /\ w = Default
  BY Zenon DEF IsLast
<1>3. S # {} => v = w
  <2> SUFFICES ASSUME S # {}, v # w PROVE FALSE
    OBVIOUS
  <2>1. v \in Path /\ w \in Path /\ Before(v, w) /\ Before(w, v)
    BY <1>1, Zenon
  <2> QED
    BY <2>1, OneWay, Zenon
<1> QED
  BY <1>1, <1>2, <1>3, Zenon

(***************************************************************************)
(* typedctx/context.go:54, "now this succeeds, and returns the unboxed     *)
(* value": whoever reads a box, out of goroutines too, reads the whole     *)
(* value that was put there last before it, in every composition that      *)
(* orders the accesses to the box and keeps its Chains in order.           *)
(***************************************************************************)
THEOREM BoxedValuesHold ==
    ASSUME \A b \in Builders : ChainsAreLast(b)
    PROVE  Spec => []BoxedValuesArrive
<1>1. Init => BInv
  <2> SUFFICES ASSUME Init PROVE BInv
    OBVIOUS
  <2>1. OInv /\ Threads = {<<>>} /\ at[<<>>] = <<>>
    BY InitEstablishes, InitThreads, Zenon
  <2>2. BoxesAreRight
    <3>1. \A s : ~Flows(s, <<>>)
      BY DEF Flows, Parts
    <3> QED
      BY <2>1, <3>1, Zenon DEF BoxesAreRight, Init, Background, Arrived, NoBox, NoValue
  <2>3. BoxesAreFilled
    BY Zenon DEF BoxesAreFilled, IsLast, Init
  <2> QED
    BY <2>1, <2>2, <2>3, Zenon DEF BInv, BoxesAreRead, Init
<1>2. BInv /\ [Next]_vars => BInv'
  <2> SUFFICES ASSUME BInv, [Next]_vars PROVE BInv'
    OBVIOUS
  <2>1. ChainsAreLast(builder)
    BY Zenon DEF BInv, OInv, TInv, TypeOK
  <2> QED
    BY <2>1, BoxesPreserved, Zenon
<1>3. BInv => BoxedValuesArrive
  <2> SUFFICES ASSUME BInv, NEW r \in With("read") \cap ran PROVE
         LET fillers == {l \in With("fill") : BoxOf(l) = BoxOf(r)}
             earlier == {l \in fillers \cap ran : Before(l, r)}
             last == {l \in earlier : \A m \in earlier \ {l} : Before(m, l)}
         IN  (\A l, m \in fillers \cup {r} : l = m \/ Before(l, m) \/ Before(m, l)) =>
                 IF BoxOf(r) = {} \/ earlier = {}
                 THEN seen[r].boxed = <<Default, Default>>
                 ELSE \E l \in last : seen[r].boxed = <<l, l>>
    BY Zenon DEF BoxedValuesArrive
  <2>1. TypeOK /\ r \in Leaves /\ r \in ran
    BY Zenon DEF BInv, OInv, TInv, With
  <2> DEFINE v == seen[r].boxed[1]
             w == seen[r].boxed[2]
  <2>2. seen[r].boxed = <<v, w>>
    BY <2>1 DEF TypeOK
  <2>3. IsRead(v, r, ran) /\ IsRead(w, r, ran)
    BY <2>1, Zenon DEF BInv, BoxesAreRead
  <2> HIDE DEF v, w
  <2>4. CASE BoxOf(r) = {}
    BY <2>2, <2>3, <2>4, Zenon DEF IsRead
  <2>5. ASSUME NEW b \in Leaves, BoxOf(r) = {b}, Ordered(Fillers(b) \cup {r})
        PROVE  LET E == {l \in Fillers(b) \cap ran : Before(l, r)}
               IN  IF E = {} THEN seen[r].boxed = <<Default, Default>>
                   ELSE \E l \in E : /\ \A m \in E \ {l} : Before(m, l)
                                     /\ seen[r].boxed = <<l, l>>
    <3> DEFINE E == {l \in Fillers(b) \cap ran : Before(l, r)}
    <3>1. IsLast(v, E) /\ IsLast(w, E)
      BY <2>3, <2>5, Zenon DEF IsRead
    <3>2. E \subseteq Path
      BY <2>1, MakersAreLeaves, Zenon DEF Fillers, With
    <3> HIDE DEF E
    <3>3. /\ v = w
          /\ E = {} => v = Default
          /\ E # {} => v \in E /\ \A m \in E \ {v} : Before(m, v)
      BY <3>1, <3>2, LastIsOne, Zenon
    <3>4. IF E = {} THEN seen[r].boxed = <<Default, Default>>
          ELSE \E l \in E : (\A m \in E \ {l} : Before(m, l)) /\ seen[r].boxed = <<l, l>>
      BY <2>2, <3>3, Zenon
    <3> QED
      BY <3>4, Zenon DEF E
  <2>6. ASSUME NEW b \in Leaves, BoxOf(r) = {b}
        PROVE  Fillers(b) = {l \in With("fill") : BoxOf(l) = BoxOf(r)}
    BY <2>6, Zenon DEF Fillers
  <2>7. BoxOf(r) = {} \/ \E b \in Leaves : BoxOf(r) = {b}
    BY <2>1, OneBox, Zenon
  <2> QED
    BY <2>4, <2>5, <2>6, <2>7, Zenon DEF Ordered
<1> QED
  BY <1>1, <1>2, <1>3, PTL DEF Spec
==============================================================================
