---------------------------- MODULE MCRepository ----------------------------
(***************************************************************************)
(* A local repository.  A behaviour is one of three, as side says; the     *)
(* other two rest in an initial state:                                     *)
(*   "store"     the runs that share its objects, markers and refs         *)
(*   "walk"      the walk that tells a prune what to keep: a chain of      *)
(*               three commits, with each order of one or two roots under  *)
(*               five bounds, each choice of the roots that are ref        *)
(*               targets, two timestamps, a commit in the middle that the  *)
(*               store may lack, a related edge up or down the chain, and  *)
(*               weak refs of both kinds                                   *)
(*   "receive"   two sessions that commit updates of two refs, with a fork *)
(*               in the history, one server key, and other local writers   *)
(***************************************************************************)
EXTENDS MCCommitStore, GCWalk, TLC

CONSTANTS k1, k2, k3
CONSTANTS Session, History, Parent, Ref, Key, Request, MaxLocal
CONSTANTS h1, h2, h3, h4, heads, mirror, key

VARIABLES
  side,
  refs, present, dict, removed, holder, step, req, stored, prepared, read, walks,
  checked, metas, unwritten, local

Chain == {k1, k2, k3}

MCBound == {Depth(-1), Depth(0), Depth(1), Since(1), Since(2)}
MCSeed == Chain \X MCBound

MCInput ==
  {[parent |-> (k1 :> None) @@ (k2 :> k1) @@ (k3 :> k2),
    time |-> times, related |-> edges, held |-> held, seeds |-> seeds,
    bounded |-> {seeds[i][1] : i \in targets \cap DOMAIN seeds},
    weak |-> weak, root |-> root] :
     times \in {(k1 :> x) @@ (k2 :> y) @@ (k3 :> 2) : x, y \in 1..2},
     edges \in {(k1 :> x) @@ (k2 :> {}) @@ (k3 :> y) : x \in {{}, {k3}}, y \in {{}, {k1, k2}}},
     held \in {Chain, {k1, k3}},
     seeds \in {<<s>> : s \in MCSeed} \cup (MCSeed \X MCSeed),
     targets \in {{}, {1}, {1, 2}},
     weak \in {<<>>, k2 :> <<Depth(-1)>>, k2 :> <<Since(2)>>,
               k1 :> <<Depth(1), Since(1)>>},
     root \in {Depth(0), Since(2)}}

MCRest ==
  [parent |-> (k1 :> None) @@ (k2 :> k1) @@ (k3 :> k2),
   time |-> (k1 :> 1) @@ (k2 :> 1) @@ (k3 :> 2), related |-> [c \in Chain |-> {}],
   held |-> Chain, seeds |-> <<<<k3, Depth(0)>>>>, bounded |-> {},
   weak |-> <<>>, root |-> Depth(0)]

\* h1 <- h2 <- h3 and h1 <- h4.
MCHistory == {h1, h2, h3, h4}
MCParent == (h1 :> None) @@ (h2 :> h1) @@ (h3 :> h2) @@ (h4 :> h1)

Plain == [createOnly |-> FALSE, nff |-> FALSE, delete |-> FALSE, key |-> None]
Keyed == [Plain EXCEPT !.key = key]
Update(ref, e, c, rule) == [name |-> ref, expected |-> e, new |-> c, rule |-> rule]
Asked(updates, force, commits, signed) ==
  [updates |-> updates, force |-> force, commits |-> commits,
   incoming |-> [c \in History |-> IF c \in signed THEN {<<key, "client">>} ELSE {}]]

\* Two updates that share a walk; a parent that the client signed; a forced
\* update; and a delete beside an update that only creates.
MCRequest ==
  {Asked(<<Update(heads, h1, h3, Keyed), Update(mirror, "any", h3, Plain)>>, FALSE, {h3}, {}),
   Asked(<<Update(heads, "any", h2, Keyed)>>, FALSE, {h2}, {h2}),
   Asked(<<Update(heads, "any", h4, [Keyed EXCEPT !.nff = TRUE])>>, TRUE, {h4}, {}),
   Asked(<<Update(heads, "any", None, [Plain EXCEPT !.delete = TRUE]),
           Update(mirror, "any", h3, [Plain EXCEPT !.createOnly = TRUE])>>,
         FALSE, {h2, h3}, {h2})}

receiveVars ==
  <<refs, present, dict, removed, holder, step, req, stored, prepared, read, walks,
    checked, metas, unwritten, local>>

R == INSTANCE ReceiveFinish WITH
       Commit <- History, store <- present, pc <- step, tips <- read,
       todo <- unwritten

ASSUME ReceiveAssumption ==
  /\ Parent \in [History -> History \cup {None}]
  /\ \A q \in Request : q \in R!Message /\ R!Distinct(q)
  /\ None \notin History \cup Key \cup Session

MCInit ==
  /\ Init /\ R!Init
  /\ \/ side \in {"store", "receive"} /\ input = MCRest /\ WalkInit
     \/ side = "walk" /\ WalkInit

MCNext ==
  \/ side = "store" /\ Next /\ UNCHANGED <<side, walkVars, receiveVars>>
  \/ side = "walk" /\ WalkNext /\ UNCHANGED <<side, vars, receiveVars>>
  \/ side = "receive" /\ R!Next /\ UNCHANGED <<side, vars, walkVars>>

MCSpec == MCInit /\ [][MCNext]_<<side, vars, walkVars, receiveVars>>

\* receive/finish.rs: a ref moves from what is expected, along its history.
RefMovesForward == R!RefMovesForward

\* receive/ancestry.rs: a refusal is right under the lock.
RefusalIsRight == R!RefusalIsRight

\* receive/finish.rs: a server key signs a commit once, before a ref names it.
SignedOnce == R!SignedOnce
=============================================================================
