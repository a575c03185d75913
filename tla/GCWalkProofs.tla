---------------------------- MODULE GCWalkProofs -----------------------------
(***************************************************************************)
(* Proofs that the walk of the collector keeps exactly the commits that    *)
(* the arrivals of the reference keep, for every finite set of commits and *)
(* every well-formed input.                                                *)
(***************************************************************************)
EXTENDS GCWalk, FiniteSetTheorems, SequenceTheorems, WellFoundedInduction, TLAPS

-----------------------------------------------------------------------------
(* Stacks.                                                                 *)

\* A stack is its top and the rest.
LEMMA TopAndFront ==
  ASSUME NEW S, NEW s \in Seq(S), s # <<>>
  PROVE  /\ Last(s) \in S /\ Front(s) \in Seq(S)
         /\ Range(s) = Range(Front(s)) \cup {Last(s)}
PROOF
<1>1. Len(s) \in Nat \ {0} /\ DOMAIN s = 1..Len(s)
  BY EmptySeq
<1>2. Last(s) \in S
  BY <1>1 DEF Last
<1>3. Front(s) \in Seq(S) /\ Len(Front(s)) = Len(s) - 1
      /\ \A i \in 1..(Len(s) - 1) : Front(s)[i] = s[i]
  BY <1>1 DEF Front
<1>4. DOMAIN Front(s) = 1..(Len(s) - 1)
  BY <1>3
<1>5. \A x : x \in Range(s) <=> x \in Range(Front(s)) \/ x = Last(s)
  BY <1>1, <1>3, <1>4 DEF Range, Last
<1> QED
  BY <1>2, <1>3, <1>5

\* The related edges of a commit are pushed once each.
LEMMA EdgesOf ==
  ASSUME NEW T, IsFiniteSet(T)
  PROVE  SetToSeq(T) \in Seq(T) /\ Range(SetToSeq(T)) = T
PROOF
<1> DEFINE n == Cardinality(T)
<1>1. n \in Nat /\ ExistsBijection(1..n, T)
  BY FS_CardinalityType
<1>2. PICK g \in Bijection(1..n, T) : TRUE
  BY <1>1 DEF ExistsBijection
<1>3. g \in [1..n -> T] /\ IsInjective(g)
  BY <1>2 DEF Bijection, Injection, IsInjective
<1>4. SetToSeq(T) \in [1..n -> T] /\ IsInjective(SetToSeq(T))
  BY <1>3 DEF SetToSeq
<1>5. SetToSeq(T) \in Injection(1..n, T)
  BY <1>4, Zenon DEF Injection
<1>6. IsFiniteSet(1..n) /\ Cardinality(1..n) = n
  BY <1>1, FS_Interval
<1>7. SetToSeq(T) \in Surjection(1..n, T)
  BY <1>5, <1>6, FS_Injection
<1>8. \A x \in T : \E i \in 1..n : SetToSeq(T)[i] = x
  BY <1>7 DEF Surjection
<1>9. SetToSeq(T) \in Seq(T)
  BY <1>1, <1>4
<1> QED
  BY <1>4, <1>8, <1>9 DEF Range

-----------------------------------------------------------------------------
(* Bounds and what a commit remembers.                                     *)

\* A record that covers a bound covers what does not go further.
LEMMA CoversFurther ==
  ASSUME None \notin Int, NEW s \in Expanded, NEW b \in Bound, NEW o \in Bound,
         Covers(s, b), Further(b, o)
  PROVE  Covers(s, o)
PROOF
<1> USE DEF Expanded, Bound, DepthBound, SinceBound, ReachesAtLeast, Depth
<1>1. CASE b = Depth(-1)
  BY <1>1 DEF Covers
<1>2. CASE b.kind = "depth" /\ o.kind = "depth" /\ ReachesAtLeast(b.n, o.n) /\ b # Depth(-1)
  <2>1. CASE b = Depth(0) /\ IsExpanded(s)
    <3>1. o = Depth(0)
      BY <1>2, <2>1
    <3> QED
      BY <2>1, <3>1 DEF Covers
  <2>2. CASE s.depth = -1
    BY <2>2 DEF Covers
  <2>3. CASE s.depth # None /\ ReachesAtLeast(s.depth, b.n)
    BY <1>2, <2>3 DEF Covers
  <2> QED
    BY <1>2, <2>1, <2>2, <2>3 DEF Covers
<1>3. CASE b.kind = "since" /\ o.kind = "since" /\ b.n <= o.n
  BY <1>3 DEF Covers
<1> QED
  BY <1>1, <1>2, <1>3 DEF Further

\* A commit is covered after an expansion only.
LEMMA CoversExpanded ==
  ASSUME None \notin Int, NEW s \in Expanded, NEW b \in Bound, Covers(s, b)
  PROVE  IsExpanded(s)
PROOF
  BY DEF Covers, IsExpanded, Expanded

\* Expanded::record: the bound is covered, and nothing else but what does not
\* go further.
LEMMA RecordedCovers ==
  ASSUME None \notin Int, NEW s \in Expanded, NEW b \in Bound
  PROVE  /\ Recorded(s, b) \in Expanded
         /\ Recorded(s, b).rejected = s.rejected
         /\ IsExpanded(Recorded(s, b))
         /\ Covers(Recorded(s, b), b)
         /\ \A o \in Bound : Covers(s, o) => Covers(Recorded(s, b), o)
         /\ \A o \in Bound : Covers(Recorded(s, b), o) =>
              Covers(s, o) \/ Further(b, o) \/ o = Depth(0)
PROOF
<1> USE DEF Expanded, Bound, DepthBound, SinceBound, ReachesAtLeast, Depth
<1>1. CASE b.kind = "depth" /\ s.depth # None /\ ReachesAtLeast(s.depth, b.n)
  <2>1. Recorded(s, b) = s
    BY <1>1 DEF Recorded
  <2> QED
    BY <1>1, <2>1 DEF Covers, IsExpanded
<1>2. CASE b.kind = "depth" /\ ~(s.depth # None /\ ReachesAtLeast(s.depth, b.n))
  <2> DEFINE r == Recorded(s, b)
  <2>1. r = [s EXCEPT !.depth = b.n]
    BY <1>2 DEF Recorded
  <2>2. /\ r \in Expanded /\ r.depth = b.n /\ r.since = s.since /\ r.rejected = s.rejected
        /\ b.n \in Nat \cup {-1}
    BY <1>2, <2>1
  <2> HIDE DEF r
  <2>3. IsExpanded(r) /\ Covers(r, b)
    BY <1>2, <2>2 DEF Covers, IsExpanded
  <2>4. ASSUME NEW o \in Bound, Covers(s, o) PROVE Covers(r, o)
    BY <1>2, <2>2, <2>3, <2>4 DEF Covers
  <2>5. ASSUME NEW o \in Bound, Covers(r, o)
        PROVE  Covers(s, o) \/ Further(b, o) \/ o = Depth(0)
    BY <1>2, <2>2, <2>5 DEF Covers, Further
  <2> QED
    BY <2>2, <2>3, <2>4, <2>5 DEF r
<1>3. CASE b.kind = "since" /\ s.since # None /\ s.since <= b.n
  <2>1. Recorded(s, b) = s
    BY <1>3 DEF Recorded
  <2> QED
    BY <1>3, <2>1 DEF Covers, IsExpanded
<1>4. CASE b.kind = "since" /\ ~(s.since # None /\ s.since <= b.n)
  <2> DEFINE r == Recorded(s, b)
  <2>1. r = [s EXCEPT !.since = b.n]
    BY <1>4 DEF Recorded
  <2>2. /\ r \in Expanded /\ r.since = b.n /\ r.depth = s.depth /\ r.rejected = s.rejected
        /\ b.n \in Nat
    BY <1>4, <2>1
  <2> HIDE DEF r
  <2>3. IsExpanded(r) /\ Covers(r, b)
    BY <1>4, <2>2 DEF Covers, IsExpanded
  <2>4. ASSUME NEW o \in Bound, Covers(s, o) PROVE Covers(r, o)
    BY <1>4, <2>2, <2>3, <2>4 DEF Covers
  <2>5. ASSUME NEW o \in Bound, Covers(r, o)
        PROVE  Covers(s, o) \/ Further(b, o) \/ o = Depth(0)
    BY <1>4, <2>2, <2>5 DEF Covers, Further
  <2> QED
    BY <2>2, <2>3, <2>4, <2>5 DEF r
<1> QED
  BY <1>1, <1>2, <1>3, <1>4

\* Expanded::reject: the expansions stay, and a rejection stays one.
LEMMA RejectedKeeps ==
  ASSUME None \notin Int, NEW s \in Expanded, NEW t \in Nat
  PROVE  /\ Rejected(s, t) \in Expanded
         /\ Rejected(s, t).depth = s.depth /\ Rejected(s, t).since = s.since
         /\ Rejected(s, t).rejected \in {t, s.rejected} \ {None}
         /\ Rejected(s, t).rejected <= t
         /\ s.rejected # None => Rejected(s, t).rejected <= s.rejected
PROOF
  BY DEF Rejected, Expanded

\* What follows over the parent edge goes as far as the bound does.
LEMMA ParentsFurther ==
  ASSUME WalkTypeOK, NEW c \in Checksum, NEW b \in Bound, NEW o \in Bound, Further(b, o),
         NEW a \in Range(Parents(c, o))
  PROVE  \E p \in Range(Parents(c, b)) : Dominates(p, a)
PROOF
<1> USE DEF Bound, DepthBound, SinceBound, ReachesAtLeast, Depth, Arrival
<1> DEFINE up == input.parent[c]
           next(x) == IF x.kind = "depth"
                      THEN Arrival(up, Depth(IF x.n = -1 THEN -1 ELSE x.n - 1), "parent")
                      ELSE Arrival(up, x, "timedParent")
<1>1. c \in input.held /\ up # None /\ o # Depth(0)
  BY DEF Parents, Range
<1>2. b # Depth(0)
  BY <1>1 DEF Further
<1>3. Range(<<next(b)>>) = {next(b)} /\ Range(<<next(o)>>) = {next(o)}
  BY DEF Range
<1>4. Parents(c, b) = <<next(b)>> /\ Parents(c, o) = <<next(o)>>
  BY <1>1, <1>2 DEF Parents
<1>5. a = next(o)
  BY <1>3, <1>4
<1>6. Dominates(next(b), next(o))
  BY <1>1, <1>2 DEF Further, Dominates
<1> QED
  BY <1>3, <1>4, <1>5, <1>6

-----------------------------------------------------------------------------
(* Arrivals.                                                               *)

\* An arrival that keeps the commit it names.
LEMMA ArrivalTypes ==
  ASSUME NEW c \in Checksum, NEW b \in Bound
  PROVE  /\ AtRoot(c, b) \in ArrivalType
         /\ AtRoot(c, b).commit = c /\ AtRoot(c, b).bound = b /\ AtRoot(c, b).by = "root"
         /\ b \in DepthBound => Arrival(c, b, "parent") \in ArrivalType
         /\ b \in SinceBound => Arrival(c, b, "timedParent") \in ArrivalType
PROOF
  BY DEF AtRoot, Arrival, ArrivalType

\* The fields of an arrival.
LEMMA ArrivalFields ==
  ASSUME NEW a \in ArrivalType
  PROVE  /\ a.commit \in Checksum /\ a.bound \in Bound
         /\ a.by \in {"root", "parent", "timedParent"}
         /\ a.by = "parent" => a.bound \in DepthBound
         /\ a.by = "timedParent" => a.bound \in SinceBound
PROOF
  BY DEF ArrivalType, Bound

\* The seeds are arrivals.
LEMMA SeedTypes ==
  ASSUME WalkTypeOK
  PROVE  /\ Seeds \subseteq ArrivalType
         /\ \A c \in Checksum : AtRoot(c, input.root) \in ArrivalType
PROOF
<1>1. \A s \in Range(input.seeds) : s \in Checksum \X Bound
  BY RangeOfSeq DEF WalkTypeOK, WellFormed
<1>2. \A s \in Range(input.seeds) : s[1] \in Checksum /\ s[2] \in Bound
  BY <1>1
<1> QED
  BY <1>2, ArrivalTypes DEF Seeds, WalkTypeOK, WellFormed

\* The weak seeds of a commit are arrivals at it.
LEMMA WeakTypes ==
  ASSUME WalkTypeOK, NEW c \in Checksum
  PROVE  /\ WeakSeeds(c) \in Seq(ArrivalType)
         /\ Range(WeakSeeds(c)) \subseteq ArrivalType
PROOF
<1>1. CASE c \in DOMAIN input.weak
  <2>1. input.weak[c] \in Seq(Bound)
    BY <1>1 DEF WalkTypeOK, WellFormed
  <2>2. \A i \in DOMAIN input.weak[c] : AtRoot(c, input.weak[c][i]) \in ArrivalType
    BY <2>1, ArrivalTypes
  <2>3. WeakSeeds(c) = [i \in DOMAIN input.weak[c] |-> AtRoot(c, input.weak[c][i])]
    BY <1>1 DEF WeakSeeds
  <2>4. DOMAIN input.weak[c] = 1..Len(input.weak[c]) /\ Len(input.weak[c]) \in Nat
    BY <2>1
  <2>5. WeakSeeds(c) \in [1..Len(input.weak[c]) -> ArrivalType]
    BY <2>2, <2>3, <2>4
  <2>6. WeakSeeds(c) \in Seq(ArrivalType)
    BY <2>4, <2>5
  <2> QED
    BY <2>6, RangeOfSeq
<1>2. CASE c \notin DOMAIN input.weak
  <2>1. WeakSeeds(c) = <<>>
    BY <1>2 DEF WeakSeeds
  <2> QED
    BY <2>1, EmptySeq, RangeOfSeq
<1> QED
  BY <1>1, <1>2

\* So is what follows over the parent edge.
LEMMA ParentTypes ==
  ASSUME WalkTypeOK, NEW c \in Checksum, NEW b \in Bound
  PROVE  /\ Parents(c, b) \in Seq(ArrivalType)
         /\ Range(Parents(c, b)) \subseteq ArrivalType
         /\ b = Depth(0) => Range(Parents(c, b)) = {}
PROOF
<1>1. CASE c \notin input.held \/ input.parent[c] = None \/ b = Depth(0)
  <2>1. Parents(c, b) = <<>>
    BY <1>1 DEF Parents
  <2> QED
    BY <2>1, EmptySeq, RangeOfSeq DEF Range
<1>2. CASE c \in input.held /\ input.parent[c] # None /\ b # Depth(0)
  <2> DEFINE up == input.parent[c]
             d == Depth(IF b.n = -1 THEN -1 ELSE b.n - 1)
  <2>1. up \in Checksum
    BY <1>2 DEF WalkTypeOK, WellFormed
  <2>2. CASE b.kind = "depth"
    <3>1. d \in DepthBound
      BY <1>2, <2>2 DEF Bound, DepthBound, SinceBound, Depth
    <3>2. Arrival(up, d, "parent") \in ArrivalType
      BY <2>1, <3>1, ArrivalTypes DEF Bound
    <3>3. Parents(c, b) = <<Arrival(up, d, "parent")>>
      BY <1>2, <2>2 DEF Parents
    <3>4. Parents(c, b) \in Seq(ArrivalType)
      BY <3>2, <3>3
    <3> QED
      BY <1>2, <3>4, RangeOfSeq
  <2>3. CASE b.kind # "depth"
    <3>1. b \in SinceBound
      BY <2>3 DEF Bound, DepthBound, SinceBound
    <3>2. Arrival(up, b, "timedParent") \in ArrivalType
      BY <2>1, <3>1, ArrivalTypes DEF Bound
    <3>3. Parents(c, b) = <<Arrival(up, b, "timedParent")>>
      BY <1>2, <2>3 DEF Parents
    <3>4. Parents(c, b) \in Seq(ArrivalType)
      BY <3>2, <3>3
    <3> QED
      BY <1>2, <3>4, RangeOfSeq
  <2> QED
    BY <2>2, <2>3
<1> QED
  BY <1>1, <1>2

\* The related edges of a commit, on the stack.
LEMMA RelatedTypes ==
  ASSUME IsFiniteSet(Checksum), WalkTypeOK, NEW T \in SUBSET Checksum
  PROVE  LET edges == SetToSeq(T)
             arrivals == [i \in DOMAIN edges |-> AtRoot(edges[i], input.root)]
         IN  /\ arrivals \in Seq(ArrivalType)
             /\ Range(arrivals) = {AtRoot(t, input.root) : t \in T}
PROOF
<1> DEFINE edges == SetToSeq(T)
           arrivals == [i \in DOMAIN edges |-> AtRoot(edges[i], input.root)]
<1>1. IsFiniteSet(T)
  BY FS_Subset
<1>2. edges \in Seq(T) /\ Range(edges) = T
  BY <1>1, EdgesOf
<1> HIDE DEF edges
<1>3. DOMAIN edges = 1..Len(edges) /\ Len(edges) \in Nat
  BY <1>2
<1>4. \A i \in DOMAIN edges : AtRoot(edges[i], input.root) \in ArrivalType
  BY <1>2, <1>3, SeedTypes
<1>5. arrivals \in [1..Len(edges) -> ArrivalType]
  BY <1>3, <1>4
<1>6. arrivals \in Seq(ArrivalType)
  BY <1>3, <1>5
<1>7. Range(arrivals) = {AtRoot(edges[i], input.root) : i \in DOMAIN edges}
  BY DEF Range
<1>8. Range(arrivals) = {AtRoot(t, input.root) : t \in T}
  <2>1. T = {edges[i] : i \in DOMAIN edges}
    BY <1>2 DEF Range
  <2> QED
    BY <1>7, <2>1
<1> QED
  BY <1>6, <1>8 DEF edges

-----------------------------------------------------------------------------
(* A step.                                                                 *)

\* What every step does with the stack: it pops the top, and pushes the weak
\* seeds of a first arrival.
LEMMA PopTypes ==
  ASSUME WalkTypeOK, Pops
  PROVE  /\ Top \in ArrivalType /\ Top \in Range(stack)
         /\ Top.commit \in Checksum /\ Top.bound \in Bound
         /\ Rest \in Seq(ArrivalType)
         /\ Range(stack) = Range(Front(stack)) \cup {Top}
         /\ Range(Rest) = Range(Front(stack))
                            \cup (IF Top.commit \in weakSeeded THEN {}
                                  ELSE Range(WeakSeeds(Top.commit)))
PROOF
<1>1. stack \in Seq(ArrivalType) /\ stack # <<>>
  BY DEF WalkTypeOK, Pops
<1>2. /\ Top \in ArrivalType /\ Front(stack) \in Seq(ArrivalType)
      /\ Range(stack) = Range(Front(stack)) \cup {Top}
  BY <1>1, TopAndFront DEF Top
<1>3. Top.commit \in Checksum /\ Top.bound \in Bound
  BY <1>2, ArrivalFields
<1>4. WeakSeeds(Top.commit) \in Seq(ArrivalType)
  BY <1>3, WeakTypes
<1>5. <<>> \in Seq(ArrivalType) /\ Range(<<>>) = {}
  BY EmptySeq DEF Range
<1>6. CASE Top.commit \in weakSeeded
  <2>1. Rest = Front(stack) \o <<>>
    BY <1>6 DEF Rest
  <2>2. Rest = Front(stack)
    BY <1>2, <2>1, ConcatEmptySeq
  <2> QED
    BY <1>2, <1>3, <1>6, <2>2
<1>7. CASE Top.commit \notin weakSeeded
  <2>1. Rest = Front(stack) \o WeakSeeds(Top.commit)
    BY <1>7 DEF Rest
  <2>2. Rest \in Seq(ArrivalType)
    BY <1>2, <1>4, <2>1, ConcatProperties
  <2>3. Range(Rest) = Range(Front(stack)) \cup Range(WeakSeeds(Top.commit))
    BY <1>2, <1>4, <2>1, RangeConcatenation
  <2> QED
    BY <1>2, <1>3, <1>7, <2>2, <2>3
<1> QED
  BY <1>6, <1>7

\* What follows depends on the input alone.
LEMMA SameInput ==
  ASSUME input' = input
  PROVE  /\ Seeds' = Seeds
         /\ \A c : WeakSeeds(c)' = WeakSeeds(c)
         /\ \A c, b : Parents(c, b)' = Parents(c, b)
         /\ \A a : Dropped(a)' <=> Dropped(a)
         /\ \A a : Live(a)' <=> Live(a)
         /\ \A a : Follow(a)' = Follow(a)
         /\ \A A : Closed(A)' <=> Closed(A)
         /\ \A A : KeptBy(A)' = KeptBy(A)
PROOF
<1> USE DEF Seeds, WeakSeeds, Parents, Dropped, Live, TooOld
<1>1. Seeds' = Seeds
  OBVIOUS
<1>2. \A c : WeakSeeds(c)' = WeakSeeds(c)
  OBVIOUS
<1>3. \A c, b : Parents(c, b)' = Parents(c, b)
  OBVIOUS
<1>4. \A a : Dropped(a)' <=> Dropped(a)
  OBVIOUS
<1>5. \A a : Live(a)' <=> Live(a)
  OBVIOUS
<1> HIDE DEF Seeds, WeakSeeds, Parents, Dropped, Live, TooOld
<1>6. ASSUME NEW a PROVE Follow(a)' = Follow(a)
  <2>1. Live(a)' <=> Live(a)
    BY <1>5
  <2>2. WeakSeeds(a.commit)' = WeakSeeds(a.commit)
    BY <1>2
  <2>3. Parents(a.commit, a.bound)' = Parents(a.commit, a.bound)
    BY <1>3
  <2> QED
    BY <2>1, <2>2, <2>3 DEF Follow
<1>7. ASSUME NEW A PROVE Closed(A)' <=> Closed(A)
  <2>1. {Follow(a)' : a \in A} = {Follow(a) : a \in A}
    BY <1>6
  <2>2. Onward(A)' = Onward(A)
    BY <2>1 DEF Onward
  <2> QED
    BY <1>1, <2>2 DEF Closed
<1>8. ASSUME NEW A PROVE KeptBy(A)' = KeptBy(A)
  <2>1. {b \in A : Live(b)'} = {b \in A : Live(b)}
    BY <1>5
  <2> QED
    BY <2>1 DEF KeptBy
<1> QED
  BY <1>1, <1>2, <1>3, <1>4, <1>5, <1>6, <1>7, <1>8

\* A step keeps every arrival done or pending: the top is done after it.
LEMMA AccountedStays ==
  ASSUME None \notin Int, WalkTypeOK, Pops, seen' \in [Checksum -> Expanded],
         \A c \in Checksum : \A b \in Bound : Covers(seen[c], b) => Covers(seen'[c], b),
         \A c \in Checksum : \A b \in SinceBound : Rejects(seen[c], b) => Rejects(seen'[c], b),
         Range(Front(stack)) \subseteq Range(stack'),
         \/ Dropped(Top)
         \/ Covers(seen'[Top.commit], Top.bound)
         \/ Top.by = "timedParent" /\ Rejects(seen'[Top.commit], Top.bound),
         NEW a \in ArrivalType, Accounted(a)
  PROVE  Accounted(a)'
PROOF
<1>1. /\ Top \in ArrivalType /\ Range(stack) = Range(Front(stack)) \cup {Top}
  BY PopTypes
<1>2. input' = input /\ weakSeeded' = weakSeeded \cup ({Top.commit} \cap DOMAIN input.weak)
  BY DEF Pops
<1>3. Dropped(a)' <=> Dropped(a)
  BY <1>2, SameInput
<1>4. /\ a.commit \in Checksum /\ a.bound \in Bound
      /\ a.by \in {"root", "parent", "timedParent"}
      /\ a.by = "parent" => a.bound \in DepthBound
      /\ a.by = "timedParent" => a.bound \in SinceBound
  BY ArrivalFields
<1>5. CASE Done(a)
  <2>1. Visited(a.commit)'
    BY <1>2, <1>5 DEF Done, Visited
  <2>2. \/ Dropped(a)'
        \/ Covers(seen'[a.commit], a.bound)
        \/ a.by = "timedParent" /\ Rejects(seen'[a.commit], a.bound)
    BY <1>3, <1>4, <1>5 DEF Done
  <2> QED
    BY <2>1, <2>2 DEF Accounted, Done
<1>6. ASSUME NEW p \in Range(Front(stack)), Dominates(p, a) PROVE Accounted(a)'
  <2>1. p \in Range(stack')
    OBVIOUS
  <2>2. Dominates(p, a)'
    BY <1>6 DEF Dominates
  <2> QED
    BY <2>1, <2>2 DEF Accounted, Pending
<1>7. CASE Dominates(Top, a)
  <2> DEFINE p == Top
  <2>1. p \in ArrivalType /\ Dominates(p, a)
    BY <1>1, <1>7
  <2>2. /\ Visited(a.commit)'
        /\ \/ Dropped(p)
           \/ Covers(seen'[a.commit], p.bound)
           \/ p.by = "timedParent" /\ Rejects(seen'[a.commit], p.bound)
    BY <1>2, <1>7 DEF Dominates, Visited
  <2> HIDE DEF p
  <2>3. p.bound \in Bound /\ (p.by = "timedParent" => p.bound \in SinceBound)
    BY <2>1, ArrivalFields
  <2>4. CASE p = a
    BY <1>3, <2>2, <2>4 DEF Accounted, Done
  <2>5. CASE p.by # "root" /\ a.by # "root" /\ Further(p.bound, a.bound)
    <3>1. CASE Dropped(p)
      <4>1. Dropped(a)
        BY <2>1, <2>5, <3>1 DEF Dropped, Dominates
      <4> QED
        BY <1>3, <2>2, <4>1 DEF Accounted, Done
    <3>2. CASE Covers(seen'[a.commit], p.bound)
      <4>1. Covers(seen'[a.commit], a.bound)
        BY <1>4, <2>3, <2>5, <3>2, CoversFurther
      <4> QED
        BY <2>2, <4>1 DEF Accounted, Done
    <3>3. CASE p.by = "timedParent" /\ Rejects(seen'[a.commit], p.bound)
      <4>1. a.bound \in SinceBound /\ p.bound.n <= a.bound.n
        BY <1>4, <2>3, <2>5, <3>3 DEF Further, SinceBound, DepthBound, Bound, Depth
      <4>2. a.by = "timedParent"
        BY <1>4, <2>5, <4>1 DEF SinceBound, DepthBound
      <4>3. seen'[a.commit].rejected \in Nat
        BY <1>4, <3>3 DEF Rejects, Expanded
      <4>4. Rejects(seen'[a.commit], a.bound)
        BY <2>3, <3>3, <4>1, <4>3 DEF Rejects, SinceBound
      <4> QED
        BY <2>2, <4>2, <4>4 DEF Accounted, Done
    <3> QED
      BY <2>2, <3>1, <3>2, <3>3
  <2> QED
    BY <2>1, <2>4, <2>5 DEF Dominates
<1> QED
  BY <1>1, <1>5, <1>6, <1>7 DEF Accounted, Pending

\* The seeds, the weak seeds and the related edges stay done or pending.
LEMMA SeedsStay ==
  ASSUME WalkTypeOK, SeedInv, Pops, \A a \in ArrivalType : Accounted(a) => Accounted(a)',
         Range(Rest) \subseteq Range(stack'),
         \A c \in seeded' \ seeded : AtRoot(c, input.root) \in Range(stack')
  PROVE  SeedInv'
PROOF
<1>1. input' = input /\ weakSeeded' \subseteq weakSeeded \cup {Top.commit}
  BY DEF Pops
<1>2. ASSUME NEW a \in Range(stack') PROVE Accounted(a)'
  <2>1. Dominates(a, a)'
    BY DEF Dominates
  <2> QED
    BY <2>1 DEF Accounted, Pending
<1>3. \A a \in Seeds' : Accounted(a)'
  BY <1>1, SameInput, SeedTypes DEF SeedInv
<1>4. ASSUME NEW c \in weakSeeded', NEW a \in Range(WeakSeeds(c))' PROVE Accounted(a)'
  <2>1. a \in Range(WeakSeeds(c))
    BY <1>1, <1>4, SameInput
  <2>2. CASE c \in weakSeeded
    <3>1. c \in Checksum
      BY <2>2 DEF WalkTypeOK, WellFormed
    <3>2. a \in ArrivalType
      BY <2>1, <3>1, WeakTypes
    <3> QED
      BY <2>1, <2>2, <3>2 DEF SeedInv
  <2>3. CASE c = Top.commit /\ c \notin weakSeeded
    <3>1. a \in Range(Rest)
      BY <2>1, <2>3, PopTypes
    <3> QED
      BY <1>2, <3>1
  <2> QED
    BY <1>1, <1>4, <2>2, <2>3
<1>5. ASSUME NEW c \in seeded' PROVE Accounted(AtRoot(c, input.root))'
  <2>1. CASE c \in seeded
    <3>1. AtRoot(c, input.root) \in ArrivalType
      BY <2>1, SeedTypes DEF WalkTypeOK
    <3> QED
      BY <1>1, <2>1, <3>1 DEF SeedInv
  <2>2. CASE c \notin seeded
    BY <1>1, <1>2, <1>5, <2>2
  <2> QED
    BY <2>1, <2>2
<1> QED
  BY <1>3, <1>4, <1>5 DEF SeedInv

\* What was pushed follows from the top.
LEMMA SoundStays ==
  ASSUME WalkTypeOK, SoundInv, Pops,
         Range(stack') \subseteq Range(Front(stack)) \cup Follow(Top),
         reachable' \subseteq reachable \cup {Top.commit},
         Live(Top) \/ reachable' = reachable
  PROVE  SoundInv'
PROOF
<1>1. input' = input
  BY DEF Pops
<1>2. SUFFICES ASSUME NEW A \in SUBSET ArrivalType, Closed(A)'
               PROVE  Range(stack') \subseteq A /\ reachable' \subseteq KeptBy(A)'
  BY DEF SoundInv
<1>3. Closed(A) /\ KeptBy(A)' = KeptBy(A)
  BY <1>1, <1>2, SameInput
<1>4. Range(stack) \subseteq A /\ reachable \subseteq KeptBy(A)
  BY <1>3 DEF SoundInv
<1>5. Range(Front(stack)) \subseteq A /\ Top \in A
  BY <1>4, PopTypes
<1>6. Follow(Top) \subseteq A
  BY <1>3, <1>5 DEF Closed, Onward
<1>7. Live(Top) => Top.commit \in KeptBy(A)
  BY <1>5 DEF KeptBy
<1> QED
  BY <1>3, <1>4, <1>5, <1>6, <1>7

\* An arrival that adds nothing.
LEMMA SkipInv ==
  ASSUME WalkInv, Skip
  PROVE  WalkInv'
PROOF
<1>1. /\ None \notin Int /\ WalkTypeOK /\ SeedInv /\ ParentInv /\ SeenInv /\ KeptInv /\ SoundInv
  BY WalkAssumption DEF WalkInv
<1>2. /\ Pops /\ Skipped /\ stack' = Rest
      /\ UNCHANGED <<seen, seeded, reachable, walked>> /\ input' = input
      /\ weakSeeded' = weakSeeded \cup ({Top.commit} \cap DOMAIN input.weak)
  BY DEF Skip, Pops
<1>3. /\ Top \in ArrivalType /\ Rest \in Seq(ArrivalType)
      /\ Range(Front(stack)) \subseteq Range(Rest)
      /\ Range(Rest) \subseteq Range(Front(stack)) \cup Range(WeakSeeds(Top.commit))
  BY <1>1, <1>2, PopTypes
<1>4. WalkTypeOK'
  BY <1>1, <1>2, <1>3 DEF WalkTypeOK
<1>5. \A a \in ArrivalType : Accounted(a) => Accounted(a)'
  <2>1. seen' \in [Checksum -> Expanded]
    BY <1>4 DEF WalkTypeOK
  <2>2. \/ Dropped(Top)
        \/ Covers(seen'[Top.commit], Top.bound)
        \/ Top.by = "timedParent" /\ Rejects(seen'[Top.commit], Top.bound)
    BY <1>2 DEF Skipped
  <2> QED
    BY <1>1, <1>2, <1>3, <2>1, <2>2, AccountedStays
<1>6. SeedInv'
  BY <1>1, <1>2, <1>5, SeedsStay
<1>7. ParentInv'
  BY <1>1, <1>2, <1>5, SameInput, ParentTypes DEF ParentInv
<1>8. SeenInv' /\ KeptInv'
  BY <1>1, <1>2 DEF SeenInv, KeptInv, Visited
<1>9. SoundInv'
  BY <1>1, <1>2, <1>3, SoundStays DEF Follow
<1> QED
  BY <1>4, <1>6, <1>7, <1>8, <1>9 DEF WalkInv

\* A timestamp that rejects the arrival.
LEMMA RejectInv ==
  ASSUME WalkInv, Reject
  PROVE  WalkInv'
PROOF
<1> DEFINE c == Top.commit
           t == Top.bound.n
           r == Rejected(seen[c], t)
<1>1. /\ None \notin Int /\ WalkTypeOK /\ SeedInv /\ ParentInv /\ SeenInv /\ KeptInv /\ SoundInv
  BY WalkAssumption DEF WalkInv
<1>2. /\ Pops /\ TooOld(Top) /\ stack' = Rest
      /\ seen' = [seen EXCEPT ![c] = r]
      /\ UNCHANGED <<seeded, reachable, walked>> /\ input' = input
      /\ weakSeeded' = weakSeeded \cup ({c} \cap DOMAIN input.weak)
  BY DEF Reject, Pops
<1>3. /\ Top \in ArrivalType /\ Rest \in Seq(ArrivalType) /\ c \in Checksum
      /\ Range(Front(stack)) \subseteq Range(Rest)
      /\ Range(Rest) \subseteq Range(Front(stack)) \cup Range(WeakSeeds(c))
  BY <1>1, <1>2, PopTypes
<1>4. /\ Top.by = "timedParent" /\ Top.bound \in SinceBound /\ t \in Nat
      /\ c \in input.held /\ input.time[c] < t /\ input.time[c] \in Nat
  BY <1>1, <1>2, <1>3, ArrivalFields DEF TooOld, SinceBound, WalkTypeOK, WellFormed
<1> HIDE DEF c, t
<1>5. seen \in [Checksum -> Expanded]
  BY <1>1 DEF WalkTypeOK
<1>6. /\ r \in Expanded /\ r.depth = seen[c].depth /\ r.since = seen[c].since
      /\ r.rejected \in {t, seen[c].rejected} \ {None} /\ r.rejected <= t
      /\ seen[c].rejected # None => r.rejected <= seen[c].rejected
  BY <1>1, <1>3, <1>4, <1>5, RejectedKeeps
<1> HIDE DEF r
<1>7. /\ seen' \in [Checksum -> Expanded] /\ seen'[c] = r
      /\ \A x \in Checksum : x # c => seen'[x] = seen[x]
  BY <1>2, <1>3, <1>5, <1>6
<1>8. \A x \in Checksum : IsExpanded(seen'[x]) <=> IsExpanded(seen[x])
  BY <1>6, <1>7 DEF IsExpanded
<1>9. \A x \in Checksum : \A b \in Bound : Covers(seen'[x], b) <=> Covers(seen[x], b)
  <2> SUFFICES ASSUME NEW x \in Checksum, NEW b \in Bound
               PROVE  Covers(seen'[x], b) <=> Covers(seen[x], b)
    OBVIOUS
  <2>1. seen'[x].depth = seen[x].depth /\ seen'[x].since = seen[x].since
    BY <1>6, <1>7
  <2> QED
    BY <1>8, <2>1 DEF Covers
<1>10. \A x \in Checksum : \A b \in SinceBound : Rejects(seen[x], b) => Rejects(seen'[x], b)
  BY <1>3, <1>4, <1>5, <1>6, <1>7 DEF Rejects, SinceBound, Expanded
<1>11. WalkTypeOK'
  BY <1>1, <1>2, <1>3, <1>7 DEF WalkTypeOK
<1>12. \A a \in ArrivalType : Accounted(a) => Accounted(a)'
  <2>1. Rejects(seen'[c], Top.bound)
    BY <1>4, <1>6, <1>7 DEF Rejects, t
  <2> QED
    BY <1>1, <1>2, <1>3, <1>4, <1>7, <1>9, <1>10, <2>1, AccountedStays DEF c
<1>13. SeedInv'
  BY <1>1, <1>2, <1>12, SeedsStay
<1>14. ParentInv'
  BY <1>1, <1>2, <1>9, <1>12, SameInput, ParentTypes DEF ParentInv
<1>15. SeenInv'
  <2> SUFFICES ASSUME NEW x \in Checksum
               PROVE  /\ IsExpanded(seen'[x]) =>
                           Visited(x)' /\ (x \in input.held => input.related[x] \subseteq seeded)
                      /\ seen'[x].rejected # None =>
                           Visited(x)' /\ x \in input.held /\ input.time[x] < seen'[x].rejected
    BY <1>2 DEF SeenInv
  <2>1. Visited(x) => Visited(x)'
    BY <1>2 DEF Visited
  <2>2. x = c => Visited(x)'
    BY <1>2 DEF Visited
  <2>3. IsExpanded(seen'[x]) =>
          Visited(x)' /\ (x \in input.held => input.related[x] \subseteq seeded)
    BY <1>1, <1>8, <2>1 DEF SeenInv
  <2>4. CASE x = c
    <3>1. seen[c].rejected # None => input.time[c] < seen[c].rejected
      BY <1>1, <1>3 DEF SeenInv
    <3>2. input.time[c] < r.rejected
      BY <1>4, <1>6, <3>1
    <3> QED
      BY <1>4, <1>7, <2>2, <2>3, <2>4, <3>2
  <2>5. CASE x # c
    BY <1>1, <1>7, <2>1, <2>3, <2>5 DEF SeenInv
  <2> QED
    BY <2>4, <2>5
<1>16. KeptInv'
  BY <1>1, <1>2, <1>8 DEF KeptInv
<1>17. SoundInv'
  BY <1>1, <1>2, <1>3, SoundStays DEF Follow, c
<1> QED
  BY <1>11, <1>13, <1>14, <1>15, <1>16, <1>17 DEF WalkInv

\* An expansion under the bound of the top: the top is done, and what follows
\* over the parent edge is pending.
LEMMA RecordKeeps ==
  ASSUME None \notin Int, WalkTypeOK, ParentInv, Pops,
         seen' = [seen EXCEPT ![Top.commit] = Recorded(@, Top.bound)],
         Range(Front(stack)) \cup Range(Parents(Top.commit, Top.bound)) \subseteq Range(stack')
  PROVE  /\ seen' \in [Checksum -> Expanded]
         /\ \A x \in Checksum : IsExpanded(seen'[x]) <=> IsExpanded(seen[x]) \/ x = Top.commit
         /\ \A x \in Checksum : seen'[x].rejected = seen[x].rejected
         /\ \A a \in ArrivalType : Accounted(a) => Accounted(a)'
         /\ ParentInv'
PROOF
<1> DEFINE c == Top.commit
           r == Recorded(seen[c], Top.bound)
<1>1. Top \in ArrivalType /\ c \in Checksum /\ Top.bound \in Bound
  BY PopTypes
<1>2. seen \in [Checksum -> Expanded] /\ input' = input
  BY DEF WalkTypeOK, Pops
<1>3. seen' = [seen EXCEPT ![c] = r]
  OBVIOUS
<1>4. /\ r \in Expanded /\ r.rejected = seen[c].rejected
      /\ IsExpanded(r) /\ Covers(r, Top.bound)
      /\ \A o \in Bound : Covers(seen[c], o) => Covers(r, o)
      /\ \A o \in Bound : Covers(r, o) =>
           Covers(seen[c], o) \/ Further(Top.bound, o) \/ o = Depth(0)
  BY <1>1, <1>2, RecordedCovers
<1> HIDE DEF r
<1>5. /\ seen' \in [Checksum -> Expanded] /\ seen'[c] = r
      /\ \A x \in Checksum : x # c => seen'[x] = seen[x]
  BY <1>1, <1>2, <1>3, <1>4
<1>6. \A x \in Checksum : \A b \in Bound : Covers(seen[x], b) => Covers(seen'[x], b)
  BY <1>4, <1>5
<1>7. \A x \in Checksum : \A b \in SinceBound : Rejects(seen[x], b) => Rejects(seen'[x], b)
  BY <1>4, <1>5 DEF Rejects
<1>8. \A a \in ArrivalType : Accounted(a) => Accounted(a)'
  BY <1>1, <1>4, <1>5, <1>6, <1>7, AccountedStays
<1>9. ASSUME NEW x \in Checksum, NEW b \in Bound, Covers(seen'[x], b),
             NEW a \in Range(Parents(x, b))
      PROVE  Accounted(a)'
  <2>1. CASE Covers(seen[x], b)
    <3>1. Accounted(a) /\ a \in ArrivalType
      BY <1>9, <2>1, ParentTypes DEF ParentInv
    <3> QED
      BY <1>8, <3>1
  <2>2. CASE ~Covers(seen[x], b)
    <3>1. x = c
      BY <1>5, <1>9, <2>2
    <3>2. b # Depth(0)
      BY <1>9, ParentTypes
    <3>3. Further(Top.bound, b)
      BY <1>4, <1>5, <1>9, <2>2, <3>1, <3>2
    <3>4. PICK p \in Range(Parents(x, Top.bound)) : Dominates(p, a)
      BY <1>1, <1>9, <3>3, ParentsFurther
    <3>5. p \in Range(stack') /\ Dominates(p, a)'
      BY <3>1, <3>4 DEF Dominates
    <3> QED
      BY <3>5 DEF Accounted, Pending
  <2> QED
    BY <2>1, <2>2
<1>10. ParentInv'
  BY <1>2, <1>9, SameInput DEF ParentInv
<1> QED
  BY <1>4, <1>5, <1>8, <1>10

\* A further expansion of a commit.
LEMMA ExtendInv ==
  ASSUME WalkInv, Extend
  PROVE  WalkInv'
PROOF
<1> DEFINE c == Top.commit
           up == Parents(c, Top.bound)
<1>1. /\ None \notin Int /\ WalkTypeOK /\ SeedInv /\ ParentInv /\ SeenInv /\ KeptInv /\ SoundInv
  BY WalkAssumption DEF WalkInv
<1>2. /\ Pops /\ ~Skipped /\ ~TooOld(Top) /\ IsExpanded(seen[c])
      /\ stack' = Rest \o up
      /\ seen' = [seen EXCEPT ![c] = Recorded(@, Top.bound)]
      /\ UNCHANGED <<seeded, reachable, walked>> /\ input' = input
      /\ weakSeeded' = weakSeeded \cup ({c} \cap DOMAIN input.weak)
  BY DEF Extend, Pops
<1>3. /\ Top \in ArrivalType /\ Rest \in Seq(ArrivalType)
      /\ c \in Checksum /\ Top.bound \in Bound
      /\ Range(Front(stack)) \subseteq Range(Rest)
      /\ Range(Rest) \subseteq Range(Front(stack)) \cup Range(WeakSeeds(c))
  BY <1>1, <1>2, PopTypes
<1>4. up \in Seq(ArrivalType)
  BY <1>1, <1>3, ParentTypes
<1> HIDE DEF up
<1>5. stack' \in Seq(ArrivalType) /\ Range(stack') = Range(Rest) \cup Range(up)
  BY <1>2, <1>3, <1>4, ConcatProperties, RangeConcatenation
<1>6. /\ seen' \in [Checksum -> Expanded]
      /\ \A x \in Checksum : IsExpanded(seen'[x]) <=> IsExpanded(seen[x]) \/ x = c
      /\ \A x \in Checksum : seen'[x].rejected = seen[x].rejected
      /\ \A a \in ArrivalType : Accounted(a) => Accounted(a)'
      /\ ParentInv'
  BY <1>1, <1>2, <1>3, <1>5, RecordKeeps DEF up
<1>7. WalkTypeOK'
  BY <1>1, <1>2, <1>3, <1>5, <1>6 DEF WalkTypeOK
<1>8. SeedInv'
  BY <1>1, <1>2, <1>5, <1>6, SeedsStay
<1>9. SeenInv' /\ KeptInv'
  <2>1. \A x \in Checksum : IsExpanded(seen'[x]) <=> IsExpanded(seen[x])
    BY <1>2, <1>6
  <2>2. \A x : Visited(x) => Visited(x)'
    BY <1>2 DEF Visited
  <2>3. SeenInv'
    BY <1>1, <1>2, <1>6, <2>1, <2>2 DEF SeenInv
  <2>4. KeptInv'
    BY <1>1, <1>2, <2>1 DEF KeptInv
  <2> QED
    BY <2>3, <2>4
<1>10. SoundInv'
  <2>1. Live(Top)
    BY <1>2 DEF Live, Skipped
  <2>2. Range(stack') \subseteq Range(Front(stack)) \cup Follow(Top)
    BY <1>3, <1>5, <2>1 DEF Follow, up
  <2> QED
    BY <1>1, <1>2, <2>2, SoundStays
<1> QED
  BY <1>6, <1>7, <1>8, <1>9, <1>10 DEF WalkInv

\* The first expansion of a commit.
LEMMA ExpandInv ==
  ASSUME WalkInv, Expand
  PROVE  WalkInv'
PROOF
<1> DEFINE c == Top.commit
           up == Parents(c, Top.bound)
           targets == (IF c \in input.held THEN input.related[c] ELSE {}) \ seeded
           edges == SetToSeq(targets)
           related == [i \in DOMAIN edges |-> AtRoot(edges[i], input.root)]
<1>1. /\ None \notin Int /\ WalkTypeOK /\ SeedInv /\ ParentInv /\ SeenInv /\ KeptInv /\ SoundInv
      /\ IsFiniteSet(Checksum)
  BY WalkAssumption DEF WalkInv
<1>2. /\ Pops /\ ~Skipped /\ ~TooOld(Top)
      /\ stack' = Rest \o related \o up
      /\ seen' = [seen EXCEPT ![c] = Recorded(@, Top.bound)]
      /\ seeded' = seeded \cup targets
      /\ reachable' = reachable \cup {c}
      /\ walked' = walked \cup ({c} \cap input.held)
      /\ input' = input
      /\ weakSeeded' = weakSeeded \cup ({c} \cap DOMAIN input.weak)
  BY DEF Expand, Pops
<1>3. /\ Top \in ArrivalType /\ Rest \in Seq(ArrivalType)
      /\ c \in Checksum /\ Top.bound \in Bound
      /\ Range(Front(stack)) \subseteq Range(Rest)
      /\ Range(Rest) \subseteq Range(Front(stack)) \cup Range(WeakSeeds(c))
  BY <1>1, <1>2, PopTypes
<1>4. up \in Seq(ArrivalType)
  BY <1>1, <1>3, ParentTypes
<1>5. targets \in SUBSET Checksum
  BY <1>1, <1>3 DEF WalkTypeOK, WellFormed
<1>6. /\ related \in Seq(ArrivalType)
      /\ Range(related) = {AtRoot(t, input.root) : t \in targets}
  <2> HIDE DEF targets
  <2> QED
    BY <1>1, <1>5, RelatedTypes
<1> HIDE DEF up, related, edges
<1>7. Rest \o related \in Seq(ArrivalType)
      /\ Range(Rest \o related) = Range(Rest) \cup Range(related)
  BY <1>3, <1>6, ConcatProperties, RangeConcatenation
<1>8. /\ stack' \in Seq(ArrivalType)
      /\ Range(stack') = Range(Rest) \cup Range(related) \cup Range(up)
  <2> DEFINE first == Rest \o related
  <2>1. first \in Seq(ArrivalType) /\ stack' = first \o up
    BY <1>2, <1>7
  <2>2. Range(first) = Range(Rest) \cup Range(related)
    BY <1>7
  <2> HIDE DEF first
  <2> QED
    BY <1>4, <2>1, <2>2, ConcatProperties, RangeConcatenation
<1>9. /\ seen' \in [Checksum -> Expanded]
      /\ \A x \in Checksum : IsExpanded(seen'[x]) <=> IsExpanded(seen[x]) \/ x = c
      /\ \A x \in Checksum : seen'[x].rejected = seen[x].rejected
      /\ \A a \in ArrivalType : Accounted(a) => Accounted(a)'
      /\ ParentInv'
  BY <1>1, <1>2, <1>3, <1>8, RecordKeeps DEF up
<1>10. WalkTypeOK'
  BY <1>1, <1>2, <1>3, <1>5, <1>8, <1>9 DEF WalkTypeOK
<1>11. SeedInv'
  <2>1. \A x \in seeded' \ seeded : AtRoot(x, input.root) \in Range(stack')
    BY <1>2, <1>6, <1>8
  <2> QED
    BY <1>1, <1>2, <1>8, <1>9, <2>1, SeedsStay
<1>12. SeenInv'
  <2> SUFFICES ASSUME NEW x \in Checksum
               PROVE  /\ IsExpanded(seen'[x]) =>
                           Visited(x)' /\ (x \in input.held => input.related[x] \subseteq seeded')
                      /\ seen'[x].rejected # None =>
                           Visited(x)' /\ x \in input.held /\ input.time[x] < seen'[x].rejected
    BY <1>2 DEF SeenInv
  <2>1. Visited(x) => Visited(x)'
    BY <1>2 DEF Visited
  <2>2. x = c => Visited(x)'
    BY <1>2 DEF Visited
  <2>3. x = c => (x \in input.held => input.related[x] \subseteq seeded')
    BY <1>2
  <2>4. seeded \subseteq seeded'
    BY <1>2
  <2> HIDE DEF c, targets
  <2> QED
    BY <1>1, <1>9, <2>1, <2>2, <2>3, <2>4 DEF SeenInv
<1>13. KeptInv'
  <2>1. reachable' = {x \in Checksum : IsExpanded(seen'[x])}
    BY <1>1, <1>2, <1>3, <1>9 DEF KeptInv
  <2>2. walked' = reachable' \cap input.held
    BY <1>1, <1>2 DEF KeptInv
  <2> QED
    BY <1>2, <2>1, <2>2 DEF KeptInv
<1>14. SoundInv'
  <2>1. Live(Top)
    BY <1>2 DEF Live, Skipped
  <2>2. Range(stack') \subseteq Range(Front(stack)) \cup Follow(Top)
    BY <1>3, <1>6, <1>8, <2>1 DEF Follow, up
  <2> QED
    BY <1>1, <1>2, <2>1, <2>2, SoundStays
<1> QED
  BY <1>9, <1>10, <1>11, <1>12, <1>13, <1>14 DEF WalkInv

\* The seeds are on the stack, and no commit has been seen.
LEMMA InitInv ==
  ASSUME WalkInit
  PROVE  WalkInv
PROOF
<1>1. None \notin Int /\ WellFormed(input)
  BY WalkAssumption DEF WalkInit
<1>2. /\ stack = [i \in DOMAIN input.seeds |-> AtRoot(input.seeds[i][1], input.seeds[i][2])]
      /\ seen = [c \in Checksum |-> Unseen]
      /\ weakSeeded = {} /\ seeded = {} /\ reachable = {} /\ walked = {}
  BY DEF WalkInit
<1>3. input.seeds \in Seq(Checksum \X Bound)
  BY <1>1 DEF WellFormed
<1>4. \A i \in DOMAIN input.seeds : input.seeds[i][1] \in Checksum /\ input.seeds[i][2] \in Bound
  <2>1. \A i \in DOMAIN input.seeds : input.seeds[i] \in Checksum \X Bound
    BY <1>3
  <2> QED
    BY <2>1
<1>5. stack \in Seq(ArrivalType)
  <2>1. DOMAIN input.seeds = 1..Len(input.seeds) /\ Len(input.seeds) \in Nat
    BY <1>3
  <2>2. \A i \in DOMAIN input.seeds :
          AtRoot(input.seeds[i][1], input.seeds[i][2]) \in ArrivalType
    BY <1>4, ArrivalTypes
  <2>3. stack \in [1..Len(input.seeds) -> ArrivalType]
    BY <1>2, <2>1, <2>2
  <2> QED
    BY <2>1, <2>3
<1>6. Range(stack) = Seeds
  BY <1>2 DEF Seeds, Range
<1>7. Unseen \in Expanded /\ ~IsExpanded(Unseen) /\ Unseen.rejected = None
  BY DEF Unseen, Expanded, IsExpanded
<1>8. WalkTypeOK
  BY <1>1, <1>2, <1>5, <1>7 DEF WalkTypeOK
<1>9. SeedInv
  BY <1>2, <1>6 DEF SeedInv, Accounted, Pending, Dominates
<1>10. ParentInv
  BY <1>1, <1>2, <1>7, CoversExpanded DEF ParentInv
<1>11. SeenInv /\ KeptInv
  BY <1>2, <1>7 DEF SeenInv, KeptInv
<1>12. SoundInv
  BY <1>2, <1>6 DEF SoundInv, Closed
<1> QED
  BY <1>8, <1>9, <1>10, <1>11, <1>12 DEF WalkInv

-----------------------------------------------------------------------------
(* The reference.                                                          *)

\* A set of numbers up to n that holds 0, and the next of each, holds them all.
LEMMA UpTo ==
  ASSUME NEW n \in Nat, NEW G \in SUBSET (0..n), 0 \in G,
         \A k \in 0..n : k \in G /\ k < n => k + 1 \in G
  PROVE  G = 0..n
PROOF
<1> DEFINE T == (0..n) \ G
<1>1. SUFFICES ASSUME T # {} PROVE FALSE
  OBVIOUS
<1>2. T \in SUBSET Nat
  OBVIOUS
<1> HIDE DEF T
<1>3. PICK x \in T : \A y \in T : ~(<<y, x>> \in OpToRel(<, Nat))
  BY <1>1, <1>2, NatLessThanWellFounded, WFMin, Zenon
<1>4. \A y \in T : y < x => <<y, x>> \in OpToRel(<, Nat)
  <2>1. SUFFICES ASSUME NEW y \in T, y < x PROVE <<y, x>> \in OpToRel(<, Nat)
    OBVIOUS
  <2>2. <<y, x>> \in Nat \X Nat /\ <<y, x>>[1] < <<y, x>>[2]
    BY <1>2, <2>1
  <2> QED
    BY <2>2, Zenon DEF OpToRel
<1>5. \A y \in T : ~(y < x)
  BY <1>3, <1>4, Zenon
<1>6. x \in 0..n /\ x \notin G /\ x # 0
  BY DEF T
<1>7. x - 1 \in 0..n /\ x - 1 < x /\ x - 1 < n /\ (x - 1) + 1 = x
  BY <1>6
<1>8. x - 1 \in G
  BY <1>5, <1>7 DEF T
<1> QED
  BY <1>6, <1>7, <1>8

\* The recursive function of Within exists.
LEMMA CloseExists ==
  ASSUME NEW n \in Nat
  PROVE  \E f : f = [k \in 0..n |-> IF k = 0 THEN Seeds ELSE Onward(f[k - 1])]
PROOF
<1> DEFINE Is(f, m) == /\ DOMAIN f = 0..m /\ f = [k \in DOMAIN f |-> f[k]]
                       /\ f[0] = Seeds
                       /\ \A k \in 1..m : f[k] = Onward(f[k - 1])
           G == {m \in 0..n : \E f : Is(f, m)}
<1>1. 0 \in G
  <2> DEFINE g == [k \in 0..0 |-> Seeds]
  <2>1. Is(g, 0)
    OBVIOUS
  <2> HIDE DEF Is, g
  <2> QED
    BY <2>1
<1>2. ASSUME NEW m \in 0..n, m \in G, m < n PROVE m + 1 \in G
  <2>1. PICK f : Is(f, m)
    BY <1>2
  <2> DEFINE g == [k \in 0..(m + 1) |-> IF k <= m THEN f[k] ELSE Onward(f[m])]
  <2>2. \A k \in 1..(m + 1) : g[k] = Onward(g[k - 1])
    <3> SUFFICES ASSUME NEW k \in 1..(m + 1) PROVE g[k] = Onward(g[k - 1])
      OBVIOUS
    <3>1. g[k - 1] = f[k - 1]
      OBVIOUS
    <3>2. CASE k <= m
      <4>1. g[k] = f[k] /\ k \in 1..m
        BY <3>2
      <4> QED
        BY <2>1, <3>1, <4>1
    <3>3. CASE k = m + 1
      <4>1. g[k] = Onward(f[m]) /\ k - 1 = m
        BY <3>3
      <4> QED
        BY <3>1, <4>1
    <3> QED
      BY <3>2, <3>3
  <2>3. g[0] = Seeds
    BY <2>1
  <2>4. Is(g, m + 1)
    BY <2>2, <2>3
  <2> HIDE DEF Is, g
  <2> QED
    BY <1>2, <2>4
<1> HIDE DEF Is
<1>3. G = 0..n
  BY <1>1, <1>2, UpTo
<1>4. PICK f : Is(f, n)
  BY <1>3
<1>5. f = [k \in 0..n |-> IF k = 0 THEN Seeds ELSE Onward(f[k - 1])]
  BY <1>4 DEF Is
<1> QED
  BY <1>5

\* A closed set holds the arrivals of the reference, and these the seeds.
LEMMA WithinBetween ==
  ASSUME NEW n \in Nat, NEW H, Closed(H)
  PROVE  Seeds \subseteq Within(n) /\ Within(n) \subseteq H
PROOF
<1> DEFINE close == CHOOSE f : f = [k \in 0..n |-> IF k = 0 THEN Seeds ELSE Onward(f[k - 1])]
<1>1. close = [k \in 0..n |-> IF k = 0 THEN Seeds ELSE Onward(close[k - 1])]
  BY CloseExists, Zenon
<1>2. Within(n) = close[n]
  BY Zenon DEF Within
<1> HIDE DEF close
<1>3. close[0] = Seeds /\ \A k \in 0..n : k < n => close[k + 1] = Onward(close[k])
  BY <1>1
<1> DEFINE G == {k \in 0..n : Seeds \subseteq close[k] /\ close[k] \subseteq H}
<1>4. 0 \in G
  BY <1>3 DEF Closed
<1>5. ASSUME NEW k \in 0..n, k \in G, k < n PROVE k + 1 \in G
  <2>1. close[k + 1] = Onward(close[k])
    BY <1>3, <1>5
  <2>2. close[k] \subseteq Onward(close[k])
    BY DEF Onward
  <2>3. Onward(close[k]) \subseteq Onward(H)
    BY <1>5 DEF Onward
  <2> QED
    BY <1>5, <2>1, <2>2, <2>3 DEF Closed
<1>6. G = 0..n
  BY <1>4, <1>5, UpTo
<1> QED
  BY <1>2, <1>6

-----------------------------------------------------------------------------
(* The theorems.                                                           *)

\* Every step keeps the invariant.
LEMMA StepInv ==
  ASSUME WalkInv, [WalkNext]_walkVars
  PROVE  WalkInv'
PROOF
<1>1. CASE UNCHANGED walkVars
  <2>1. /\ input' = input /\ stack' = stack /\ seen' = seen /\ weakSeeded' = weakSeeded
        /\ seeded' = seeded /\ reachable' = reachable /\ walked' = walked
    BY <1>1 DEF walkVars
  <2>2. \A a : Accounted(a) => Accounted(a)'
    BY <2>1, SameInput DEF Accounted, Done, Pending, Visited, Dominates
  <2>3. WalkTypeOK' /\ SeenInv' /\ KeptInv'
    BY <2>1 DEF WalkInv, WalkTypeOK, SeenInv, KeptInv, Visited
  <2>4. SeedInv'
    BY <2>1, <2>2, SameInput DEF WalkInv, SeedInv
  <2>5. ParentInv'
    BY <2>1, <2>2, SameInput DEF WalkInv, ParentInv
  <2>6. SoundInv'
    BY <2>1, SameInput DEF WalkInv, SoundInv
  <2> QED
    BY <2>3, <2>4, <2>5, <2>6 DEF WalkInv
<1> QED
  BY <1>1, SkipInv, RejectInv, ExtendInv, ExpandInv DEF WalkNext

\* At the end, the arrivals that are done are closed, and the live ones keep
\* the commits that the walk keeps.
LEMMA DoneIsClosed ==
  ASSUME WalkInv, stack = <<>>
  PROVE  LET H == {a \in ArrivalType : Done(a)}
         IN  Closed(H) /\ KeptBy(H) \subseteq reachable
PROOF
<1> DEFINE H == {a \in ArrivalType : Done(a)}
<1>1. /\ None \notin Int /\ WalkTypeOK /\ SeedInv /\ ParentInv /\ SeenInv /\ KeptInv
  BY WalkAssumption DEF WalkInv
<1>2. \A a : Accounted(a) => Done(a)
  BY DEF Accounted, Pending, Range
<1>3. seen \in [Checksum -> Expanded] /\ input.time \in [Checksum -> Nat]
  BY <1>1 DEF WalkTypeOK, WellFormed
<1>4. ASSUME NEW a \in ArrivalType, Done(a), Live(a)
      PROVE  Covers(seen[a.commit], a.bound) /\ IsExpanded(seen[a.commit])
  <2>1. a.commit \in Checksum /\ a.bound \in Bound /\ (a.by = "timedParent" => a.bound \in SinceBound)
    BY ArrivalFields
  <2>2. ~(a.by = "timedParent" /\ Rejects(seen[a.commit], a.bound))
    <3> SUFFICES ASSUME a.by = "timedParent", Rejects(seen[a.commit], a.bound) PROVE FALSE
      OBVIOUS
    <3>1. /\ seen[a.commit].rejected \in Nat /\ seen[a.commit].rejected <= a.bound.n
          /\ a.bound.n \in Nat /\ seen[a.commit].rejected # None
      BY <1>3, <2>1 DEF Rejects, Expanded, SinceBound
    <3>2. a.commit \in input.held /\ input.time[a.commit] < seen[a.commit].rejected
      BY <1>1, <2>1, <3>1 DEF SeenInv
    <3>3. input.time[a.commit] < a.bound.n
      BY <1>3, <2>1, <3>1, <3>2
    <3> QED
      BY <1>4, <3>2, <3>3 DEF Live, TooOld
  <2>3. Covers(seen[a.commit], a.bound)
    BY <1>4, <2>2 DEF Done, Live
  <2> QED
    BY <1>1, <1>3, <2>1, <2>3, CoversExpanded
<1>5. Seeds \subseteq H
  BY <1>1, <1>2, SeedTypes DEF SeedInv
<1>6. ASSUME NEW a \in H PROVE Follow(a) \subseteq H
  <2>1. a \in ArrivalType /\ Done(a) /\ a.commit \in Checksum /\ a.bound \in Bound
    BY ArrivalFields
  <2>2. Range(WeakSeeds(a.commit)) \subseteq H
    <3>1. CASE a.commit \in DOMAIN input.weak
      <4>1. a.commit \in weakSeeded
        BY <2>1, <3>1 DEF Done, Visited
      <4> QED
        BY <1>1, <1>2, <2>1, <4>1, WeakTypes DEF SeedInv
    <3>2. CASE a.commit \notin DOMAIN input.weak
      BY <3>2 DEF WeakSeeds, Range
    <3> QED
      BY <3>1, <3>2
  <2>3. Live(a) => Range(Parents(a.commit, a.bound)) \subseteq H
    BY <1>1, <1>2, <1>4, <2>1, ParentTypes DEF ParentInv
  <2>4. Live(a) /\ a.commit \in input.held =>
          {AtRoot(t, input.root) : t \in input.related[a.commit]} \subseteq H
    <3> SUFFICES ASSUME Live(a), a.commit \in input.held, NEW t \in input.related[a.commit]
                 PROVE  AtRoot(t, input.root) \in H
      OBVIOUS
    <3>1. t \in seeded /\ t \in Checksum
      BY <1>1, <1>4, <2>1 DEF SeenInv, WalkTypeOK
    <3>2. Done(AtRoot(t, input.root)) /\ AtRoot(t, input.root) \in ArrivalType
      BY <1>1, <1>2, <3>1, SeedTypes DEF SeedInv
    <3> QED
      BY <3>2
  <2> HIDE DEF H
  <2> QED
    BY <2>2, <2>3, <2>4 DEF Follow
<1>7. Closed(H)
  <2> HIDE DEF H
  <2> QED
    BY <1>5, <1>6 DEF Closed, Onward
<1>8. KeptBy(H) \subseteq reachable
  <2> SUFFICES ASSUME NEW a \in H, Live(a) PROVE a.commit \in reachable
    BY DEF KeptBy
  <2> QED
    BY <1>1, <1>4, ArrivalFields DEF KeptInv
<1> QED
  BY <1>7, <1>8

\* The invariant gives the result of the walk.
LEMMA InvIsLeast ==
  ASSUME WalkInv
  PROVE  WalkIsLeast
PROOF
<1> SUFFICES ASSUME stack = <<>>
             PROVE  /\ \E A \in SUBSET ArrivalType : Closed(A) /\ reachable = KeptBy(A)
                    /\ \A A \in SUBSET ArrivalType : Closed(A) => reachable \subseteq KeptBy(A)
  BY DEF WalkIsLeast
<1>1. \A A \in SUBSET ArrivalType : Closed(A) => reachable \subseteq KeptBy(A)
  BY DEF WalkInv, SoundInv
<1> DEFINE H == {a \in ArrivalType : Done(a)}
<1>2. Closed(H) /\ KeptBy(H) \subseteq reachable
  BY DoneIsClosed
<1>3. H \in SUBSET ArrivalType
  OBVIOUS
<1> HIDE DEF H
<1>4. reachable = KeptBy(H)
  <2>1. reachable \subseteq KeptBy(H)
    BY <1>1, <1>2, <1>3
  <2> QED
    BY <1>2, <2>1
<1>5. \E A \in SUBSET ArrivalType : Closed(A) /\ reachable = KeptBy(A)
  BY <1>2, <1>3, <1>4, Zenon
<1> QED
  BY <1>1, <1>5

\* It is what the reference keeps, when no further edge leads to another
\* arrival.
LEMMA InvIsComplete ==
  ASSUME WalkInv
  PROVE  Settled => WalkIsComplete
PROOF
<1> SUFFICES ASSUME Settled, stack = <<>>
             PROVE  reachable = Kept /\ walked = Kept \cap input.held
  BY DEF WalkIsComplete
<1> DEFINE H == {a \in ArrivalType : Done(a)}
           n == 4 * Cardinality(Checksum)
<1>1. n \in Nat
  <2>1. Cardinality(Checksum) \in Nat
    BY WalkAssumption, FS_CardinalityType
  <2> QED
    BY <2>1
<1>2. Closed(H) /\ KeptBy(H) \subseteq reachable /\ H \in SUBSET ArrivalType
  BY DoneIsClosed
<1>3. Arrivals = Within(n)
  BY DEF Arrivals
<1> HIDE DEF H, n
<1>4. Arrivals \subseteq H
  BY <1>1, <1>2, <1>3, WithinBetween
<1>5. Kept \subseteq reachable
  BY <1>2, <1>4 DEF Kept, KeptBy
<1>6. reachable \subseteq Kept
  BY <1>2, <1>4 DEF WalkInv, SoundInv, Settled, Kept
<1>7. reachable = Kept
  BY <1>5, <1>6
<1> QED
  BY <1>7 DEF WalkInv, KeptInv

(***************************************************************************)
(* collect_reachable: what follows from an arrival that the walk is done   *)
(* with is done, or an arrival on the stack goes at least as far; and the  *)
(* walk pushes nothing that does not follow.                               *)
(***************************************************************************)
THEOREM WalkIsInvariant == WalkSpec => []WalkInv
PROOF
<1>1. WalkInit => WalkInv
  BY InitInv
<1>2. WalkInv /\ [WalkNext]_walkVars => WalkInv'
  BY StepInv
<1> QED
  BY <1>1, <1>2, PTL DEF WalkSpec

(***************************************************************************)
(* collect_reachable: the commits that the walk keeps are the least that a *)
(* set of arrivals closed under the edges keeps, whatever the order of the *)
(* roots and whatever bounds they carry.                                   *)
(***************************************************************************)
THEOREM WalkKeepsLeast == WalkSpec => []WalkIsLeast
PROOF
<1>1. WalkInv => WalkIsLeast
  BY InvIsLeast
<1> QED
  BY <1>1, WalkIsInvariant, PTL

(***************************************************************************)
(* collect_reachable: the walk keeps exactly what the arrivals of the      *)
(* reference keep, and reads the trees of those that the store holds, for  *)
(* every input whose arrivals the edges of the reference exhaust.          *)
(***************************************************************************)
THEOREM WalkKeepsReachable == WalkSpec => [](Settled => WalkIsComplete)
PROOF
<1>1. WalkInv => (Settled => WalkIsComplete)
  BY InvIsComplete
<1> QED
  BY <1>1, WalkIsInvariant, PTL
=============================================================================
