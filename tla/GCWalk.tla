------------------------------- MODULE GCWalk -------------------------------
(***************************************************************************)
(* The walk of the collector over the commits (crates/ostrya/src/          *)
(* traverse.rs, collect_reachable).  A bound limits how far the walk       *)
(* follows the parents of a commit: by a number of edges, or by the        *)
(* timestamp of the parent.  The walk remembers how far it has expanded a  *)
(* commit, and skips an arrival that an earlier expansion covers.          *)
(*                                                                         *)
(* The input is a record:                                                  *)
(*   parent, time   the parent (or None) and the timestamp of each commit  *)
(*   related        the commits that the related edges of a commit name    *)
(*   held           the commits that the store holds                       *)
(*   seeds          the roots, each with its bound                         *)
(*   bounded        the commits that take only their own bound             *)
(*   weak           the bounds of the commits that weak refs name          *)
(*   root           the bound of a commit that a related edge names        *)
(* The tree of a commit goes with its first expansion, so walked stands    *)
(* for the trees and for the commits whose related edges were read.        *)
(***************************************************************************)
EXTENDS Integers, FiniteSets, SequencesExt

CONSTANTS
  Checksum,  \* the commits
  Input,     \* the inputs that the runs start from
  None

VARIABLES
  input,
  stack,       \* commit_stack
  seen,        \* seen_commits
  weakSeeded,  \* weak_seeded
  seeded,      \* the targets of related edges that were pushed
  reachable,   \* the names of the commits that are kept
  walked       \* the commits whose trees and related edges were read

walkVars == <<input, stack, seen, weakSeeded, seeded, reachable, walked>>

Depth(n) == [kind |-> "depth", n |-> n]  \* -1 is the whole ancestry
Since(t) == [kind |-> "since", n |-> t]

Arrival(c, b, by) == [commit |-> c, bound |-> b, by |-> by]
AtRoot(c, b) == Arrival(c, b, "root")

\* Expanded: the furthest bound of each kind, and the rejections.
Unseen == [depth |-> None, since |-> None, rejected |-> None]

DepthBound == [kind : {"depth"}, n : Nat \cup {-1}]
SinceBound == [kind : {"since"}, n : Nat]
Bound == DepthBound \cup SinceBound

\* An arrival over a parent edge carries the bound of that kind of edge.
ArrivalType ==
  [commit : Checksum, bound : Bound, by : {"root"}]
    \cup [commit : Checksum, bound : DepthBound, by : {"parent"}]
    \cup [commit : Checksum, bound : SinceBound, by : {"timedParent"}]

Expanded ==
  [depth : Nat \cup {-1, None}, since : Nat \cup {None}, rejected : Nat \cup {None}]

\* What a repository gives the walk.
WellFormed(i) ==
  /\ i.parent \in [Checksum -> Checksum \cup {None}]
  /\ i.time \in [Checksum -> Nat]
  /\ i.related \in [Checksum -> SUBSET Checksum]
  /\ i.held \subseteq Checksum
  /\ i.seeds \in Seq(Checksum \X Bound)
  /\ DOMAIN i.weak \subseteq Checksum
  /\ i.weak \in [DOMAIN i.weak -> Seq(Bound)]
  /\ i.root \in Bound

ASSUME WalkAssumption ==
  /\ IsFiniteSet(Checksum)
  /\ None \notin Int
  /\ \A i \in Input : WellFormed(i)

WalkTypeOK ==
  /\ WellFormed(input)
  /\ stack \in Seq(ArrivalType)
  /\ seen \in [Checksum -> Expanded]
  /\ weakSeeded \subseteq DOMAIN input.weak
  /\ seeded \subseteq Checksum
  /\ reachable \subseteq Checksum

WalkInit ==
  /\ input \in Input
  /\ stack = [i \in DOMAIN input.seeds |-> AtRoot(input.seeds[i][1], input.seeds[i][2])]
  /\ seen = [c \in Checksum |-> Unseen]
  /\ weakSeeded = {} /\ seeded = {} /\ reachable = {} /\ walked = {}

-----------------------------------------------------------------------------
ReachesAtLeast(prev, depth) == prev = -1 \/ (depth # -1 /\ prev >= depth)

IsExpanded(s) == s.depth # None \/ s.since # None

\* A mutant of Covers: a commit that was expanded once is done.
CoversOnce(s, b) == IsExpanded(s)

\* Expanded::covers.
Covers(s, b) ==
  \/ s.depth = -1
  \/ b = Depth(0) /\ IsExpanded(s)
  \/ b.kind = "depth" /\ s.depth # None /\ ReachesAtLeast(s.depth, b.n)
  \/ b.kind = "since" /\ s.since # None /\ s.since <= b.n

\* Expanded::rejects, for an arrival over a timed parent edge.
Rejects(s, b) == s.rejected # None /\ b.n >= s.rejected

\* Expanded::record.
Recorded(s, b) ==
  IF b.kind = "depth"
  THEN IF s.depth # None /\ ReachesAtLeast(s.depth, b.n) THEN s
       ELSE [s EXCEPT !.depth = b.n]
  ELSE IF s.since # None /\ s.since <= b.n THEN s ELSE [s EXCEPT !.since = b.n]

\* Expanded::reject.
Rejected(s, t) ==
  IF s.rejected = None \/ s.rejected > t THEN [s EXCEPT !.rejected = t] ELSE s

\* A commit with a bound of its own drops a bound that came over a parent.
Dropped(a) ==
  a.by # "root" /\ (a.commit \in input.bounded \/ a.commit \in DOMAIN input.weak)

\* The timestamp of a held commit is below the bound of a timed parent edge.
TooOld(a) ==
  a.by = "timedParent" /\ a.commit \in input.held /\ input.time[a.commit] < a.bound.n

\* push_parent, of a held commit that is expanded under b.
Parents(c, b) ==
  LET up == input.parent[c] IN
  IF c \notin input.held \/ up = None \/ b = Depth(0) THEN <<>>
  ELSE IF b.kind = "depth"
       THEN <<Arrival(up, Depth(IF b.n = -1 THEN -1 ELSE b.n - 1), "parent")>>
       ELSE <<Arrival(up, b, "timedParent")>>

\* WeakBounds::seeds.
WeakSeeds(c) ==
  IF c \in DOMAIN input.weak
  THEN [i \in DOMAIN input.weak[c] |-> AtRoot(c, input.weak[c][i])] ELSE <<>>

-----------------------------------------------------------------------------
Top == Last(stack)

\* The stack without the top, with the weak seeds of the first arrival.
Rest ==
  Front(stack) \o (IF Top.commit \in weakSeeded THEN <<>> ELSE WeakSeeds(Top.commit))

Pops ==
  /\ stack # <<>>
  /\ weakSeeded' = weakSeeded \cup ({Top.commit} \cap DOMAIN input.weak)
  /\ UNCHANGED input

\* The arrival adds nothing.
Skipped ==
  \/ Dropped(Top)
  \/ Covers(seen[Top.commit], Top.bound)
  \/ Top.by = "timedParent" /\ Rejects(seen[Top.commit], Top.bound)

Skip ==
  /\ Pops /\ Skipped
  /\ stack' = Rest
  /\ UNCHANGED <<seen, seeded, reachable, walked>>

\* The timestamp rejects the arrival, which records no expansion.
Reject ==
  /\ Pops /\ ~Skipped /\ TooOld(Top)
  /\ stack' = Rest
  /\ seen' = [seen EXCEPT ![Top.commit] = Rejected(@, Top.bound.n)]
  /\ UNCHANGED <<seeded, reachable, walked>>

\* A further expansion follows the parent alone.
Extend ==
  /\ Pops /\ ~Skipped /\ ~TooOld(Top) /\ IsExpanded(seen[Top.commit])
  /\ stack' = Rest \o Parents(Top.commit, Top.bound)
  /\ seen' = [seen EXCEPT ![Top.commit] = Recorded(@, Top.bound)]
  /\ UNCHANGED <<seeded, reachable, walked>>

\* The first expansion: the name, the tree, the related edges, the parent.
Expand ==
  LET c == Top.commit
      targets == (IF c \in input.held THEN input.related[c] ELSE {}) \ seeded
      edges == SetToSeq(targets)
  IN
  /\ Pops /\ ~Skipped /\ ~TooOld(Top) /\ ~IsExpanded(seen[c])
  /\ stack' = Rest \o [i \in DOMAIN edges |-> AtRoot(edges[i], input.root)]
                   \o Parents(c, Top.bound)
  /\ seen' = [seen EXCEPT ![c] = Recorded(@, Top.bound)]
  /\ seeded' = seeded \cup targets
  /\ reachable' = reachable \cup {c}
  /\ walked' = walked \cup ({c} \cap input.held)

WalkNext == Skip \/ Reject \/ Extend \/ Expand

WalkSpec == WalkInit /\ [][WalkNext]_walkVars

-----------------------------------------------------------------------------
(***************************************************************************)
(* What the walk stands for: the arrivals that follow from the seeds when  *)
(* nothing is remembered and nothing skipped.                              *)
(***************************************************************************)
Live(a) == ~Dropped(a) /\ ~TooOld(a)

Follow(a) ==
  Range(WeakSeeds(a.commit))
    \cup (IF Live(a)
          THEN Range(Parents(a.commit, a.bound))
                 \cup (IF a.commit \in input.held
                       THEN {AtRoot(t, input.root) : t \in input.related[a.commit]} ELSE {})
          ELSE {})

Seeds == {AtRoot(s[1], s[2]) : s \in Range(input.seeds)}

Onward(A) == A \cup UNION {Follow(a) : a \in A}

\* The arrivals that follow from a seed over at most n edges.
Within(n) ==
  LET close[k \in 0..n] == IF k = 0 THEN Seeds ELSE Onward(close[k - 1])
  IN close[n]

Arrivals == Within(4 * Cardinality(Checksum))

Closed(A) == Seeds \subseteq A /\ Onward(A) \subseteq A

\* The edges suffice: a further one leads to no other arrival.
Settled == Closed(Arrivals)

KeptBy(A) == {a.commit : a \in {b \in A : Live(b)}}

Kept == KeptBy(Arrivals)

(***************************************************************************)
(* The walk keeps exactly what the arrivals keep, in whatever order the    *)
(* roots come: "the reachable set does not depend on the order of the      *)
(* roots" (collect_reachable).  A commit that it met first under a smaller *)
(* bound is expanded again, and one that a timestamp rejected is kept for  *)
(* a ref that names it.                                                    *)
(***************************************************************************)
WalkIsComplete == stack = <<>> => reachable = Kept /\ walked = Kept \cap input.held

(***************************************************************************)
(* The commits that the walk keeps are the least that a set of arrivals,   *)
(* closed under the edges, keeps: no number of edges bounds the reference. *)
(***************************************************************************)
WalkIsLeast ==
  stack = <<>> =>
    /\ \E A \in SUBSET ArrivalType : Closed(A) /\ reachable = KeptBy(A)
    /\ \A A \in SUBSET ArrivalType : Closed(A) => reachable \subseteq KeptBy(A)

-----------------------------------------------------------------------------
(***************************************************************************)
(* The inductive invariant.  An arrival is done when the walk would skip   *)
(* it, and pending when one on the stack goes at least as far.  What       *)
(* follows from an arrival that is done, is done or pending.               *)
(***************************************************************************)
Further(b, other) ==
  \/ b = Depth(-1)
  \/ b.kind = "depth" /\ other.kind = "depth" /\ ReachesAtLeast(b.n, other.n)
  \/ b.kind = "since" /\ other.kind = "since" /\ b.n <= other.n

Dominates(p, a) ==
  /\ p.commit = a.commit
  /\ p = a \/ (p.by # "root" /\ a.by # "root" /\ Further(p.bound, a.bound))

Visited(c) == c \in DOMAIN input.weak => c \in weakSeeded

Done(a) ==
  /\ Visited(a.commit)
  /\ \/ Dropped(a)
     \/ Covers(seen[a.commit], a.bound)
     \/ a.by = "timedParent" /\ Rejects(seen[a.commit], a.bound)

Pending(a) == \E p \in Range(stack) : Dominates(p, a)

Accounted(a) == Done(a) \/ Pending(a)

SeedInv ==
  /\ \A a \in Seeds : Accounted(a)
  /\ \A c \in weakSeeded : \A a \in Range(WeakSeeds(c)) : Accounted(a)
  /\ \A c \in seeded : Accounted(AtRoot(c, input.root))

ParentInv ==
  \A c \in Checksum : \A b \in Bound :
    Covers(seen[c], b) => \A a \in Range(Parents(c, b)) : Accounted(a)

SeenInv ==
  \A c \in Checksum :
    /\ IsExpanded(seen[c]) =>
         Visited(c) /\ (c \in input.held => input.related[c] \subseteq seeded)
    /\ seen[c].rejected # None =>
         Visited(c) /\ c \in input.held /\ input.time[c] < seen[c].rejected

KeptInv ==
  /\ reachable = {c \in Checksum : IsExpanded(seen[c])}
  /\ walked = reachable \cap input.held

\* The walk follows no edge that the arrivals do not.
SoundInv ==
  \A A \in SUBSET ArrivalType :
    Closed(A) => Range(stack) \subseteq A /\ reachable \subseteq KeptBy(A)

WalkInv == WalkTypeOK /\ SeedInv /\ ParentInv /\ SeenInv /\ KeptInv /\ SoundInv
=============================================================================
