---------------------------- MODULE ReceiveFinish ----------------------------
(***************************************************************************)
(* The commit of a receive session with ref updates (crates/ostrya/src/    *)
(* receive/finish.rs, receive/ancestry.rs).  The session plans without the *)
(* update lock: it reads the stored signatures, signs, and walks the       *)
(* parent chains to the tips of the refs.  Under the lock it checks each   *)
(* update against the refs as they are then, drops the signatures that     *)
(* another session made meanwhile, and publishes.                          *)
(*                                                                         *)
(* A request is a record:                                                  *)
(*   updates    a sequence of [name, expected, new, rule]: expected is     *)
(*              "any", None for absent or a commit; new is None for a      *)
(*              delete; a rule is [createOnly, nff, delete, key], its key  *)
(*              a server key or None                                       *)
(*   force      the client sent force                                      *)
(*   commits    the commits that the session staged                        *)
(*   incoming   the signatures that came in for each commit                *)
(* A signature is a pair of the key and the one who made it: two of one    *)
(* key need not be the same bytes.  The keys of a commit are a set, since  *)
(* two server keys of one secret sign once.  Objects below the commits,    *)
(* bindings, verification and hooks are not modelled.                      *)
(***************************************************************************)
EXTENDS Naturals, SequencesExt

CONSTANTS
  Session,
  Commit,
  Ref,
  Key,
  Parent,    \* the parent of each commit, or None
  Request,
  None,
  MaxLocal   \* bound of the steps of other local writers

VARIABLES
  refs,      \* the commit of each ref, or None
  store,     \* the commits that the repository holds
  dict,      \* the signatures in the detached metadata of each commit
  removed,   \* the commits that lost a signature to delete_signatures
  holder,    \* the session that holds the update lock, or None
  pc,
  req,
  stored,    \* Edit::stored: the signatures that the plan read
  prepared,  \* Edit::signatures: the keys that signed for the plan
  tips,
  walks,     \* Walks::chains, by the new commit and the tip
  checked,   \* the updates that check_ref has passed under the lock
  metas,     \* the commits whose queued edit is not written
  todo,      \* the updates that change a ref and are not written
  local

sessionVars == <<pc, req, stored, prepared, tips, walks, checked, metas, todo>>
repoVars == <<refs, store, dict, removed, local>>
vars == <<repoVars, holder, sessionVars>>

Maker == Session \cup {"local", "client"}

Signature == Key \X Maker

Rule == [createOnly : BOOLEAN, nff : BOOLEAN, delete : BOOLEAN, key : Key \cup {None}]

Update == [name : Ref, expected : Commit \cup {None, "any"}, new : Commit \cup {None},
           rule : Rule]

\* The messages that pass the first checks: a ref is updated at most once.
Message ==
  [updates : Seq(Update), force : BOOLEAN, commits : SUBSET Commit,
   incoming : [Commit -> SUBSET Signature]]
Distinct(q) == \A u, v \in ToSet(q.updates) : u.name = v.name => u = v

\* A chain is the commits that a walk passed, and the commit from which it
\* can go on, if there is one: its target, or an absent commit.
Chain == [seen : SUBSET Commit, end : SUBSET Commit]
NoChain == [seen |-> {}, end |-> {}]

TypeOK ==
  /\ refs \in [Ref -> Commit \cup {None}]
  /\ store \subseteq Commit /\ removed \subseteq Commit
  /\ dict \in [Commit -> SUBSET Signature]
  /\ holder \in Session \cup {None}
  /\ pc \in [Session -> {"idle", "planned", "tips", "walked", "locked", "queued",
                          "writing", "refused", "done", "failed"}]
  /\ req \in [Session -> Message]
  /\ stored \in [Session -> [Commit -> SUBSET Signature]]
  /\ prepared \in [Session -> [Commit -> SUBSET Key]]
  /\ tips \in [Session -> [Ref -> Commit \cup {None}]]
  /\ DOMAIN walks = Session
  /\ \A s \in Session : \A pair \in DOMAIN walks[s] :
       pair \in Commit \X Commit /\ walks[s][pair] \in Chain
  /\ checked \in [Session -> Nat]
  /\ metas \in [Session -> SUBSET Commit]
  /\ todo \in [Session -> SUBSET Update]

Idle == [updates |-> <<>>, force |-> FALSE, commits |-> {},
         incoming |-> [c \in Commit |-> {}]]
NoKeys == [c \in Commit |-> {}]

\* The ref heads start at a commit that the repository holds.
Init ==
  /\ \E c \in Commit :
       /\ Parent[c] = None
       /\ refs = [r \in Ref |-> c] /\ store = {c}
  /\ dict = NoKeys /\ removed = {} /\ local = 0
  /\ holder = None
  /\ pc = [s \in Session |-> "idle"]
  /\ req = [s \in Session |-> Idle]
  /\ stored = [s \in Session |-> NoKeys]
  /\ prepared = [s \in Session |-> NoKeys]
  /\ tips = [s \in Session |-> [r \in Ref |-> None]]
  /\ walks = [s \in Session |-> [pair \in {} |-> NoChain]]
  /\ checked = [s \in Session |-> 0]
  /\ metas = [s \in Session |-> {}] /\ todo = [s \in Session |-> {}]

-----------------------------------------------------------------------------
(***************************************************************************)
(* The walks.                                                              *)
(***************************************************************************)

\* The commits whose parent a walk can read.
Known(s) == store \cup req[s].commits

\* The commits that the loop of extend passes: the least set with from and
\* with the parent of each commit that is read and is not the target.
Passed(s, from, target) ==
  LET Closed(S) ==
        /\ from \subseteq S
        /\ \A c \in S \cap Known(s) : c = target \/ Parent[c] \in S \cup {None}
  IN {c \in Commit : \A S \in SUBSET Commit : Closed(S) => c \in S}

\* Chain::extend.
Extend(s, chain, from, target) ==
  LET passed == Passed(s, from, target)
  IN [seen |-> chain.seen \cup passed,
      end |-> {c \in passed : c = target \/ c \notin Known(s)}]

\* Walks::chain, of the walk from new to target.
ChainOf(s, pair) ==
  IF pair \in DOMAIN walks[s] THEN walks[s][pair]
  ELSE Extend(s, NoChain, {pair[1]}, pair[2])

\* A mutant of Reached: what the walk before the lock did not see is not an ancestor.
ReachedThen(s, chain, current) == chain

\* Chain::reaches: the walk goes on from where it stopped.
Reached(s, chain, current) ==
  IF current \in chain.seen \/ chain.end = {} THEN chain
  ELSE Extend(s, chain, chain.end, current)

\* A forced update that the rule allows needs no walk.
Forced(s, u) == req[s].force /\ u.rule.nff

-----------------------------------------------------------------------------
(***************************************************************************)
(* Before the lock.                                                        *)
(***************************************************************************)
Signed(sigs, k) == \E sig \in sigs : sig[1] = k

\* plan: the server keys of the updates of a commit.
Signers(q, c) == {u.rule.key : u \in {x \in ToSet(q.updates) : x.new = c}} \ {None}

\* The new commits are staged or present; the checks read the stored dicts;
\* prepare_signatures signs with each key that has not signed.
Plan(s, q) ==
  /\ pc[s] = "idle"
  /\ \A u \in ToSet(q.updates) : u.new = None \/ u.new \in store \cup q.commits
  /\ pc' = [pc EXCEPT ![s] = "planned"]
  /\ req' = [req EXCEPT ![s] = q]
  /\ stored' = [stored EXCEPT ![s] = dict]
  /\ prepared' = [prepared EXCEPT ![s] =
       [c \in Commit |-> {k \in Signers(q, c) : ~Signed(dict[c] \cup q.incoming[c], k)}]]
  /\ UNCHANGED <<repoVars, holder, tips, walks, checked, metas, todo>>

ReadTips(s) ==
  /\ pc[s] = "planned"
  /\ pc' = [pc EXCEPT ![s] = "tips"]
  /\ tips' = [tips EXCEPT ![s] = refs]
  /\ UNCHANGED <<repoVars, holder, req, stored, prepared, walks, checked, metas, todo>>

\* The walk of each update that needs one, to the tip that was read.
Walk(s) ==
  LET needed == {u \in ToSet(req[s].updates) :
                   /\ ~Forced(s, u) /\ ~u.rule.createOnly
                   /\ None \notin {u.new, tips[s][u.name]} /\ u.new # tips[s][u.name]}
      pairs == {<<u.new, tips[s][u.name]>> : u \in needed}
  IN
  /\ pc[s] = "tips"
  /\ pc' = [pc EXCEPT ![s] = "walked"]
  /\ walks' = [walks EXCEPT ![s] = [pair \in pairs |-> ChainOf(s, pair)]]
  /\ UNCHANGED <<repoVars, holder, req, stored, prepared, tips, checked, metas, todo>>

\* A mutant of Lock: the checks run without the update lock.
LockNothing(s) ==
  /\ pc[s] = "walked"
  /\ pc' = [pc EXCEPT ![s] = "locked"]
  /\ UNCHANGED <<repoVars, holder, req, stored, prepared, tips, walks, checked, metas, todo>>

Lock(s) ==
  /\ pc[s] = "walked" /\ holder = None
  /\ holder' = s
  /\ pc' = [pc EXCEPT ![s] = "locked"]
  /\ UNCHANGED <<repoVars, req, stored, prepared, tips, walks, checked, metas, todo>>

-----------------------------------------------------------------------------
(***************************************************************************)
(* Under the lock.                                                         *)
(***************************************************************************)

\* check_ref, without its walk: an update that needs none is refused or
\* changes the ref or leaves it.
Mismatch(u, current) ==
  \/ u.expected # "any" /\ u.expected # current
  \/ u.rule.createOnly /\ None \notin {u.new, current}
  \/ u.new = None /\ current # None /\ ~u.rule.delete

NeedsWalk(s, u, current) ==
  None \notin {u.new, current} /\ u.new # current /\ ~Forced(s, u)

\* The walk made before the lock, or one to the current commit.  The updates
\* of one new commit and one tip share a chain.
PairOf(s, u) ==
  LET planned == <<u.new, tips[s][u.name]>>
  IN IF planned \in DOMAIN walks[s] THEN planned ELSE <<u.new, refs[u.name]>>

Walked(s, u) == Reached(s, ChainOf(s, PairOf(s, u)), refs[u.name])

\* check_ref fails.
Fails(s, u) ==
  \/ Mismatch(u, refs[u.name])
  \/ NeedsWalk(s, u, refs[u.name]) /\ refs[u.name] \notin Walked(s, u).seen

Unchecked(s) == pc[s] = "locked" /\ checked[s] < Len(req[s].updates)
NextUpdate(s) == req[s].updates[checked[s] + 1]

\* check_ref, of the next update.
CheckRef(s) ==
  LET u == NextUpdate(s) IN
  /\ Unchecked(s) /\ ~Fails(s, u)
  /\ checked' = [checked EXCEPT ![s] = @ + 1]
  /\ walks' = IF NeedsWalk(s, u, refs[u.name])
              THEN [walks EXCEPT ![s] = [pair \in DOMAIN @ \cup {PairOf(s, u)} |->
                      IF pair = PairOf(s, u) THEN Walked(s, u) ELSE @[pair]]]
              ELSE walks
  /\ todo' = [todo EXCEPT ![s] = IF u.new = refs[u.name] THEN @ ELSE @ \cup {u}]
  /\ UNCHANGED <<repoVars, holder, pc, req, stored, prepared, tips, metas>>

Refuse(s) ==
  /\ Unchecked(s) /\ Fails(s, NextUpdate(s))
  /\ holder' = None
  /\ pc' = [pc EXCEPT ![s] = "refused"]
  /\ todo' = [todo EXCEPT ![s] = {}]
  /\ UNCHANGED <<repoVars, req, stored, prepared, tips, walks, checked, metas>>

\* A mutant of Kept: the signatures of the plan stand.
KeptAsPlanned(s, c) == prepared[s][c]

\* queue_detached: where the stored dict changed, a key that has signed drops out.
Kept(s, c) ==
  IF dict[c] = stored[s][c] THEN prepared[s][c]
  ELSE {k \in prepared[s][c] : ~Signed(dict[c] \cup req[s].incoming[c], k)}

Queue(s) ==
  /\ pc[s] = "locked" /\ ~Unchecked(s)
  /\ pc' = [pc EXCEPT ![s] = "queued"]
  /\ prepared' = [prepared EXCEPT ![s] = [c \in Commit |-> Kept(s, c)]]
  /\ metas' = [metas EXCEPT ![s] =
       {c \in Commit : req[s].incoming[c] # {} \/ Kept(s, c) # {}}]
  /\ UNCHANGED <<repoVars, holder, req, stored, tips, walks, checked, todo>>

\* The publication of commit_under.
Publish(s) ==
  /\ pc[s] = "queued"
  /\ pc' = [pc EXCEPT ![s] = "writing"]
  /\ store' = store \cup req[s].commits
  /\ UNCHANGED <<refs, dict, removed, local, holder, req, stored, prepared, tips, walks,
                 checked, metas, todo>>

\* merge_detached_blocking: the union with the incoming dict, then the appends.
WriteMeta(s, c) ==
  /\ pc[s] = "writing" /\ c \in metas[s]
  /\ dict' = [dict EXCEPT ![c] = @ \cup req[s].incoming[c]
                                   \cup {<<k, s>> : k \in prepared[s][c]}]
  /\ metas' = [metas EXCEPT ![s] = @ \ {c}]
  /\ UNCHANGED <<refs, store, removed, local, holder, pc, req, stored, prepared, tips,
                 walks, checked, todo>>

\* write_tail: the refs after the dicts.
WriteRef(s, u) ==
  /\ pc[s] = "writing" /\ metas[s] = {} /\ u \in todo[s]
  /\ refs' = [refs EXCEPT ![u.name] = u.new]
  /\ todo' = [todo EXCEPT ![s] = @ \ {u}]
  /\ UNCHANGED <<store, dict, removed, local, holder, pc, req, stored, prepared, tips,
                 walks, checked, metas>>

Release(s) ==
  /\ pc[s] = "writing" /\ metas[s] = {} /\ todo[s] = {}
  /\ pc' = [pc EXCEPT ![s] = "done"]
  /\ holder' = None
  /\ UNCHANGED <<repoVars, req, stored, prepared, tips, walks, checked, metas, todo>>

\* An error, a timeout of the lock or the end of the process.
Fail(s) ==
  /\ pc[s] \notin {"idle", "refused", "done", "failed"}
  /\ pc' = [pc EXCEPT ![s] = "failed"]
  /\ holder' = IF holder = s THEN None ELSE holder
  /\ metas' = [metas EXCEPT ![s] = {}] /\ todo' = [todo EXCEPT ![s] = {}]
  /\ UNCHANGED <<repoVars, req, stored, prepared, tips, walks, checked>>

-----------------------------------------------------------------------------
(***************************************************************************)
(* The other writers of the repository.  Refs and detached metadata change *)
(* under the update lock, objects are published without it.                *)
(***************************************************************************)
Local == local < MaxLocal /\ local' = local + 1 /\ UNCHANGED <<holder, sessionVars>>

LocalWrite(r, c) ==
  /\ Local /\ holder = None /\ c \in store \cup {None} /\ c # refs[r]
  /\ refs' = [refs EXCEPT ![r] = c]
  /\ UNCHANGED <<store, dict, removed>>

LocalPublish(c) ==
  /\ Local /\ c \notin store
  /\ store' = store \cup {c}
  /\ UNCHANGED <<refs, dict, removed>>

\* sign_commit: the append, whatever the dict holds.
SignCommit(c, k) ==
  /\ Local /\ holder = None /\ c \in store
  /\ dict' = [dict EXCEPT ![c] = @ \cup {<<k, "local">>}]
  /\ UNCHANGED <<refs, store, removed>>

\* delete_signatures, of a key.
DeleteSignatures(c, k) ==
  /\ Local /\ holder = None /\ Signed(dict[c], k)
  /\ dict' = [dict EXCEPT ![c] = {sig \in @ : sig[1] # k}]
  /\ removed' = removed \cup {c}
  /\ UNCHANGED <<refs, store>>

Next ==
  \/ \E s \in Session :
       \/ \E q \in Request : Plan(s, q)
       \/ ReadTips(s) \/ Walk(s) \/ Lock(s) \/ CheckRef(s) \/ Refuse(s) \/ Queue(s) \/ Publish(s)
       \/ \E c \in metas[s] : WriteMeta(s, c)
       \/ \E u \in todo[s] : WriteRef(s, u)
       \/ Release(s) \/ Fail(s)
  \/ \E r \in Ref, c \in Commit \cup {None} : LocalWrite(r, c)
  \/ \E c \in Commit : LocalPublish(c)
  \/ \E c \in Commit, k \in Key : SignCommit(c, k) \/ DeleteSignatures(c, k)

Spec == Init /\ [][Next]_vars

-----------------------------------------------------------------------------
\* The current commit of a ref is an ancestor of the new one, or is it: it
\* is in each set that has the new one and the known parents of its members.
Descends(s, new, current) ==
  \A S \in SUBSET Commit :
    new \in S /\ (\A c \in S \cap Known(s) : Parent[c] \in S \cup {None}) => current \in S

\* What the request, the rule and the history let an update do to a ref.
Allowed(s, u, current) ==
  /\ u.expected \in {"any", current}
  /\ None \in {u.new, current} \/ ~u.rule.createOnly
  /\ u.new = None => current = None \/ u.rule.delete
  /\ None \in {u.new, current} \/ Forced(s, u) \/ Descends(s, u.new, current)

(***************************************************************************)
(* A session writes a ref only from the state that the client expects and  *)
(* along its history, however the ref, its history and the other sessions  *)
(* moved between the walk, the lock and the write: "the ref is in the      *)
(* state that the update expects", "the new commit is a fast-forward"      *)
(* (finish).                                                               *)
(***************************************************************************)
RefMovesForward ==
  [][\A s \in Session : pc'[s] = "writing" =>
       \A u \in todo[s] \ todo'[s] : Allowed(s, u, refs[u.name])]_vars

(***************************************************************************)
(* An update is refused only for what is so under the lock.  A ref that    *)
(* moved since the walk, or a parent that was published since, does not    *)
(* make a fast-forward look like another history (Chain::reaches).         *)
(***************************************************************************)
RefusalIsRight ==
  [][\A s \in Session : pc[s] # pc'[s] /\ pc'[s] = "refused" =>
       \E u \in ToSet(req[s].updates) : ~Allowed(s, u, refs[u.name])]_vars

(***************************************************************************)
(* A server key signs a commit once: a session appends no signature of a   *)
(* key that has signed, also where the other one came after the plan.  And *)
(* a ref that is written names a commit that each key of its rule signed,  *)
(* unless delete_signatures took a signature away.                         *)
(***************************************************************************)
SignedOnce ==
  [][\A s \in Session : pc'[s] = "writing" =>
       /\ \A c \in metas[s] \ metas'[s], k \in Key :
            k \in prepared[s][c] => ~Signed(dict[c] \cup req[s].incoming[c], k)
       /\ \A u \in todo[s] \ todo'[s] :
            None \in {u.new, u.rule.key} \/ u.new \in removed
              \/ Signed(dict[u.new], u.rule.key)]_vars

-----------------------------------------------------------------------------
(***************************************************************************)
(* The inductive invariant.                                                *)
(***************************************************************************)
UnderLock(s) == pc[s] \in {"locked", "queued", "writing"}

\* A chain has ancestors only, and each commit of it at which the walk did
\* not stop has its parent in the chain.
ChainOK(s, new, chain) ==
  /\ new \in chain.seen /\ chain.end \subseteq chain.seen
  /\ \A c \in chain.seen : Descends(s, new, c)
  /\ \A c \in chain.seen \ chain.end :
       c \in Known(s) /\ Parent[c] \in chain.seen \cup {None}

WalkInv(s) ==
  /\ pc[s] \in {"idle", "planned", "tips"} => DOMAIN walks[s] = {}
  /\ \A pair \in DOMAIN walks[s] : ChainOK(s, pair[1], walks[s][pair])

\* What was checked under the lock is so until it is written.
CheckInv(s) ==
  /\ UnderLock(s) => holder = s
  /\ ~UnderLock(s) => todo[s] = {}
  /\ todo[s] \subseteq ToSet(req[s].updates)
  /\ \A u \in todo[s] : Allowed(s, u, refs[u.name])

\* Before the queue: the plan is one of the signatures that it read, which the
\* repository still has.
PlanInv(s) ==
  pc[s] \in {"planned", "tips", "walked", "locked"} =>
    \A c \in Commit :
      /\ prepared[s][c] =
           {k \in Signers(req[s], c) : ~Signed(stored[s][c] \cup req[s].incoming[c], k)}
      /\ stored[s][c] \subseteq dict[c] \/ c \in removed

\* From the queue on: a signature that is to be written is none that is there,
\* and a key of a rule has signed or will before the refs are written.
SignInv(s) ==
  pc[s] \in {"queued", "writing"} =>
    \A c \in Commit :
      /\ c \in metas[s] =>
           \A k \in prepared[s][c] : ~Signed(dict[c] \cup req[s].incoming[c], k)
      /\ \A k \in Signers(req[s], c) :
           \/ c \in removed \/ Signed(dict[c], k)
           \/ c \in metas[s] /\ (k \in prepared[s][c] \/ Signed(req[s].incoming[c], k))

SessionInv(s) ==
  Distinct(req[s]) /\ WalkInv(s) /\ CheckInv(s) /\ PlanInv(s) /\ SignInv(s)

Inv == TypeOK /\ \A s \in Session : SessionInv(s)
=============================================================================
