----------------------------- MODULE CrashProofs -----------------------------
(***************************************************************************)
(* Proofs about what a stop or a power loss leaves: the store of objects   *)
(* and refs (D), for every set of pulls, receive sessions, commits and     *)
(* trees, and the files of a summary (S), for every set of digests and     *)
(* readers.  These theorems are about the specification that the run       *)
(* checks, in which a step of one of them leaves the other alone.  The     *)
(* last part is about the staging directories: a reaper leaves those of    *)
(* live transactions alone, for every number of processes and              *)
(* transactions.                                                           *)
(***************************************************************************)
EXTENDS MCCrash, FiniteSetTheorems, TLAPS

-----------------------------------------------------------------------------
(* The files of a summary.                                                 *)

\* A request is answered from a file that was in place with its .access file.
LEMMA SummarySafe ==
  ASSUME S!Inv
  PROVE  S!ServedMatches
PROOF
  BY DEF S!Inv, S!ReadInv, S!ServedMatches

\* No file has been written.
LEMMA SummaryInit == S!Init => S!Inv
PROOF
<1> SUFFICES ASSUME S!Init PROVE S!Inv
  OBVIOUS
<1> USE SummaryAssumption DEF S!ConstantsOK, S!Init, S!Name
<1>1. S!TypeOK
  BY DEF S!TypeOK, S!Held
<1>2. S!RunInv /\ S!VisInv /\ S!MayInv
  BY DEF S!RunInv, S!VisInv, S!MayInv, S!Pairs
<1>3. S!FreshInv /\ S!ReadInv
  BY DEF S!FreshInv, S!ReadInv, S!Before
<1> QED
  BY <1>1, <1>2, <1>3 DEF S!Inv

\* What the types say of the names.
LEMMA SummaryTypes ==
  ASSUME S!TypeOK
  PROVE  /\ named["access"] \in Digest \cup {None}
         /\ \A name \in {"summary", "sig"} :
              named[name] \in S!Write \cup {None} /\ survives[name] \subseteq S!Write \cup {None}
         /\ \A w \in S!Write : w.n \in Nat /\ w.digest \in Digest /\ w # None
         /\ DOMAIN named = S!Name /\ DOMAIN survives = S!Name
PROOF
  BY SummaryAssumption DEF S!ConstantsOK, S!TypeOK, S!Name, S!Write

\* A name gets the file or the digest v.
LEMMA SetType ==
  ASSUME S!TypeOK, NEW name \in S!Name, NEW v, S!Set(name, v),
         v \in IF name = "access" THEN Digest \cup {None} ELSE S!Write \cup {None}
  PROVE  /\ named' \in [S!Name -> Digest \cup S!Write \cup {None}]
         /\ survives' \in [S!Name -> SUBSET (Digest \cup S!Write \cup {None})]
         /\ survives'["access"] \subseteq Digest \cup {None}
         /\ survives'["summary"] \subseteq S!Write \cup {None}
         /\ survives'["sig"] \subseteq S!Write \cup {None}
         /\ \A q \in S!Name : named'[q] \in survives'[q]
PROOF
<1> USE DEF S!TypeOK, S!Set
<1>1. \A q \in S!Name : named'[q] = (IF q = name THEN v ELSE named[q])
                      /\ survives'[q] = (IF q = name THEN survives[q] \cup {v} ELSE survives[q])
  OBVIOUS
<1>2. "access" \in S!Name /\ "summary" \in S!Name /\ "sig" \in S!Name
  BY DEF S!Name
<1>3. named' \in [S!Name -> Digest \cup S!Write \cup {None}]
  OBVIOUS
<1>4. survives' \in [S!Name -> SUBSET (Digest \cup S!Write \cup {None})]
  OBVIOUS
<1> QED
  BY <1>1, <1>2, <1>3, <1>4

\* A sync leaves what each name names.
LEMMA SyncType ==
  ASSUME S!TypeOK, survives' = [name \in S!Name |-> {named[name]}], UNCHANGED named
  PROVE  /\ named' \in [S!Name -> Digest \cup S!Write \cup {None}]
         /\ survives' \in [S!Name -> SUBSET (Digest \cup S!Write \cup {None})]
         /\ survives'["access"] \subseteq Digest \cup {None}
         /\ survives'["summary"] \subseteq S!Write \cup {None}
         /\ survives'["sig"] \subseteq S!Write \cup {None}
         /\ \A q \in S!Name : named'[q] \in survives'[q]
PROOF
  BY SummaryTypes DEF S!TypeOK, S!Name

\* The .access file goes before a summary of another digest.
LEMMA RemoveAccessInv ==
  ASSUME S!Inv, S!RemoveAccess
  PROVE  S!Inv'
PROOF
<1> USE SummaryAssumption, SummaryTypes DEF S!ConstantsOK, S!Inv, S!RemoveAccess, S!Step, S!Set,
        S!readVars, S!Name
<1>1. S!TypeOK'
  BY SummaryAssumption, SummaryTypes, SetType DEF S!TypeOK, S!RemoveAccess, S!Step, S!readVars,
     S!Name, S!RunInv
<1>2. S!RunInv'
  BY DEF S!RunInv, S!TypeOK
<1>3. S!FreshInv'
  BY DEF S!FreshInv, S!TypeOK, S!Before, S!RunInv
<1>4. S!VisInv'
  BY DEF S!VisInv, S!Pairs, S!TypeOK, S!RunInv
<1>5. S!MayInv'
  BY DEF S!MayInv, S!VisInv, S!Pairs, S!TypeOK, S!RunInv
<1>6. S!ReadInv'
  BY DEF S!ReadInv, S!Pairs, S!TypeOK, S!FreshInv, S!RunInv, S!Before, S!File
<1> QED
  BY <1>1, <1>2, <1>3, <1>4, <1>5, <1>6 DEF S!Inv

\* Its removal is durable before the summary changes.
LEMMA SyncRemovalInv ==
  ASSUME S!Inv, S!SyncRemoval
  PROVE  S!Inv'
PROOF
<1> USE SummaryAssumption, SummaryTypes DEF S!ConstantsOK, S!Inv, S!SyncRemoval, S!Step, S!Sync,
        S!readVars, S!Name
<1>1. S!TypeOK'
  BY SummaryAssumption, SummaryTypes, SyncType DEF S!TypeOK, S!SyncRemoval, S!Step, S!Sync,
     S!readVars
<1>2. S!RunInv'
  BY DEF S!RunInv, S!TypeOK
<1>3. S!FreshInv'
  BY DEF S!FreshInv, S!TypeOK, S!Before, S!RunInv
<1>4. S!VisInv'
  BY DEF S!VisInv, S!Pairs, S!TypeOK, S!RunInv
<1>5. S!MayInv'
  BY DEF S!MayInv, S!VisInv, S!Pairs, S!TypeOK, S!RunInv
<1>6. S!ReadInv'
  BY DEF S!ReadInv, S!Pairs, S!TypeOK, S!FreshInv, S!RunInv, S!Before, S!File
<1> QED
  BY <1>1, <1>2, <1>3, <1>4, <1>5, <1>6 DEF S!Inv

\* The signature of the last summary goes first.
LEMMA RemoveSigInv ==
  ASSUME S!Inv, S!RemoveSig
  PROVE  S!Inv'
PROOF
<1> USE SummaryAssumption, SummaryTypes DEF S!ConstantsOK, S!Inv, S!RemoveSig, S!Step, S!Set,
        S!readVars, S!Name
<1>1. S!TypeOK'
  BY SummaryAssumption, SummaryTypes, SetType DEF S!TypeOK, S!RemoveSig, S!Step, S!readVars,
     S!Name, S!RunInv
<1>2. S!RunInv'
  BY DEF S!RunInv, S!TypeOK
<1>3. S!FreshInv'
  BY DEF S!FreshInv, S!TypeOK, S!Before, S!RunInv
<1>4. S!VisInv'
  BY DEF S!VisInv, S!Pairs, S!TypeOK, S!RunInv
<1>5. S!MayInv'
  BY DEF S!MayInv, S!VisInv, S!Pairs, S!TypeOK, S!RunInv
<1>6. S!ReadInv'
  BY DEF S!ReadInv, S!Pairs, S!TypeOK, S!FreshInv, S!RunInv, S!Before, S!File
<1> QED
  BY <1>1, <1>2, <1>3, <1>4, <1>5, <1>6 DEF S!Inv

\* The summary is of the digest of the .access file, or there is no such file.
LEMMA PutSummaryInv ==
  ASSUME S!Inv, S!PutSummary
  PROVE  S!Inv'
PROOF
<1> USE SummaryAssumption, SummaryTypes DEF S!ConstantsOK, S!Inv, S!PutSummary, S!Step, S!Set,
        S!readVars, S!Name
<1>1. S!TypeOK'
  BY SummaryAssumption, SummaryTypes, SetType DEF S!TypeOK, S!PutSummary, S!Step, S!readVars,
     S!Name, S!RunInv
<1>2. S!RunInv'
  BY DEF S!RunInv, S!TypeOK
<1>3. S!FreshInv'
  BY DEF S!FreshInv, S!TypeOK, S!Before, S!RunInv
<1>4. S!VisInv'
  BY DEF S!VisInv, S!Pairs, S!TypeOK, S!RunInv
<1>5. S!MayInv'
  BY DEF S!MayInv, S!VisInv, S!Pairs, S!TypeOK, S!RunInv
<1>6. S!ReadInv'
  BY DEF S!ReadInv, S!Pairs, S!TypeOK, S!FreshInv, S!RunInv, S!Before, S!File
<1> QED
  BY <1>1, <1>2, <1>3, <1>4, <1>5, <1>6 DEF S!Inv

\* The same of the signature.
LEMMA PutSigInv ==
  ASSUME S!Inv, S!PutSig
  PROVE  S!Inv'
PROOF
<1> USE SummaryAssumption, SummaryTypes DEF S!ConstantsOK, S!Inv, S!PutSig, S!Step, S!Set,
        S!readVars, S!Name
<1>1. S!TypeOK'
  BY SummaryAssumption, SummaryTypes, SetType DEF S!TypeOK, S!PutSig, S!Step, S!readVars, S!Name,
     S!RunInv
<1>2. S!RunInv'
  BY DEF S!RunInv, S!TypeOK
<1>3. S!FreshInv'
  BY DEF S!FreshInv, S!TypeOK, S!Before, S!RunInv
<1>4. S!VisInv'
  BY DEF S!VisInv, S!Pairs, S!TypeOK, S!RunInv
<1>5. S!MayInv'
  BY DEF S!MayInv, S!VisInv, S!Pairs, S!TypeOK, S!RunInv
<1>6. S!ReadInv'
  BY DEF S!ReadInv, S!Pairs, S!TypeOK, S!FreshInv, S!RunInv, S!Before, S!File
<1> QED
  BY <1>1, <1>2, <1>3, <1>4, <1>5, <1>6 DEF S!Inv

\* Both are durable before the .access file names their digest.
LEMMA SyncSummaryInv ==
  ASSUME S!Inv, S!SyncSummary
  PROVE  S!Inv'
PROOF
<1> USE SummaryAssumption, SummaryTypes DEF S!ConstantsOK, S!Inv, S!SyncSummary, S!Step, S!Sync,
        S!readVars, S!Name
<1>1. S!TypeOK'
  BY SummaryAssumption, SummaryTypes, SyncType DEF S!TypeOK, S!SyncSummary, S!Step, S!Sync,
     S!readVars
<1>2. S!RunInv'
  BY DEF S!RunInv, S!TypeOK
<1>3. S!FreshInv'
  BY DEF S!FreshInv, S!TypeOK, S!Before, S!RunInv
<1>4. S!VisInv'
  BY DEF S!VisInv, S!Pairs, S!TypeOK, S!RunInv
<1>5. S!MayInv'
  BY DEF S!MayInv, S!VisInv, S!Pairs, S!TypeOK, S!RunInv
<1>6. S!ReadInv'
  BY DEF S!ReadInv, S!Pairs, S!TypeOK, S!FreshInv, S!RunInv, S!Before, S!File
<1> QED
  BY <1>1, <1>2, <1>3, <1>4, <1>5, <1>6 DEF S!Inv

\* The .access file pairs with what is in place.
LEMMA PutAccessInv ==
  ASSUME S!Inv, S!PutAccess
  PROVE  S!Inv'
PROOF
<1> USE SummaryAssumption, SummaryTypes DEF S!ConstantsOK, S!Inv, S!PutAccess, S!Step, S!Set,
        S!readVars, S!Name
<1>1. S!TypeOK'
  BY SummaryAssumption, SummaryTypes, SetType DEF S!TypeOK, S!PutAccess, S!Step, S!readVars,
     S!Name, S!RunInv
<1>2. S!RunInv'
  BY DEF S!RunInv, S!TypeOK
<1>3. S!FreshInv'
  BY DEF S!FreshInv, S!TypeOK, S!Before, S!RunInv
<1>4. S!VisInv'
  BY DEF S!VisInv, S!Pairs, S!TypeOK, S!RunInv
<1>5. S!MayInv'
  BY DEF S!MayInv, S!VisInv, S!Pairs, S!TypeOK, S!RunInv
<1>6. S!ReadInv'
  BY DEF S!ReadInv, S!Pairs, S!TypeOK, S!FreshInv, S!RunInv, S!Before, S!File
<1> QED
  BY <1>1, <1>2, <1>3, <1>4, <1>5, <1>6 DEF S!Inv

\* A run that is over leaves nothing unsynced.
LEMMA SyncAccessInv ==
  ASSUME S!Inv, S!SyncAccess
  PROVE  S!Inv'
PROOF
<1> USE SummaryAssumption, SummaryTypes DEF S!ConstantsOK, S!Inv, S!SyncAccess, S!Step, S!Sync,
        S!readVars, S!Name
<1>1. S!TypeOK'
  BY SummaryAssumption, SummaryTypes, SyncType DEF S!TypeOK, S!SyncAccess, S!Step, S!Sync,
     S!readVars
<1>2. S!RunInv'
  BY DEF S!RunInv, S!TypeOK
<1>3. S!FreshInv'
  BY DEF S!FreshInv, S!TypeOK, S!Before, S!RunInv
<1>4. S!VisInv'
  BY DEF S!VisInv, S!Pairs, S!TypeOK, S!RunInv
<1>5. S!MayInv'
  BY DEF S!MayInv, S!VisInv, S!Pairs, S!TypeOK, S!RunInv
<1>6. S!ReadInv'
  BY DEF S!ReadInv, S!Pairs, S!TypeOK, S!FreshInv, S!RunInv, S!Before, S!File
<1> QED
  BY <1>1, <1>2, <1>3, <1>4, <1>5, <1>6 DEF S!Inv

\* A removal starts.
LEMMA BeginRemovalInv ==
  ASSUME S!Inv, S!BeginRemoval
  PROVE  S!Inv'
PROOF
<1> USE SummaryAssumption, SummaryTypes DEF S!ConstantsOK, S!Inv, S!BeginRemoval, S!Step,
        S!readVars, S!Name
<1>1. S!TypeOK'
  BY SummaryAssumption, SummaryTypes DEF S!TypeOK, S!BeginRemoval, S!Step, S!readVars
<1>2. S!RunInv'
  BY DEF S!RunInv, S!TypeOK
<1>3. S!FreshInv'
  BY DEF S!FreshInv, S!TypeOK, S!Before, S!RunInv
<1>4. S!VisInv'
  BY DEF S!VisInv, S!Pairs, S!TypeOK, S!RunInv
<1>5. S!MayInv'
  BY DEF S!MayInv, S!VisInv, S!Pairs, S!TypeOK, S!RunInv
<1>6. S!ReadInv'
  BY DEF S!ReadInv, S!Pairs, S!TypeOK, S!FreshInv, S!RunInv, S!Before, S!File
<1> QED
  BY <1>1, <1>2, <1>3, <1>4, <1>5, <1>6 DEF S!Inv

\* The .access file goes first.
LEMMA DropAccessInv ==
  ASSUME S!Inv, S!DropAccess
  PROVE  S!Inv'
PROOF
<1> USE SummaryAssumption, SummaryTypes DEF S!ConstantsOK, S!Inv, S!DropAccess, S!Step, S!Set,
        S!readVars, S!Name
<1>1. S!TypeOK'
  BY SummaryAssumption, SummaryTypes, SetType DEF S!TypeOK, S!DropAccess, S!Step, S!readVars,
     S!Name, S!RunInv
<1>2. S!RunInv'
  BY DEF S!RunInv, S!TypeOK
<1>3. S!FreshInv'
  BY DEF S!FreshInv, S!TypeOK, S!Before, S!RunInv
<1>4. S!VisInv'
  BY DEF S!VisInv, S!Pairs, S!TypeOK, S!RunInv
<1>5. S!MayInv'
  BY DEF S!MayInv, S!VisInv, S!Pairs, S!TypeOK, S!RunInv
<1>6. S!ReadInv'
  BY DEF S!ReadInv, S!Pairs, S!TypeOK, S!FreshInv, S!RunInv, S!Before, S!File
<1> QED
  BY <1>1, <1>2, <1>3, <1>4, <1>5, <1>6 DEF S!Inv

\* The files go after the .access file.
LEMMA DropFileInv ==
  ASSUME S!Inv, NEW name \in {"summary", "sig"}, S!DropFile(name)
  PROVE  S!Inv'
PROOF
<1> USE SummaryAssumption, SummaryTypes DEF S!ConstantsOK, S!Inv, S!DropFile, S!Step, S!Set,
        S!readVars, S!Name
<1>1. S!TypeOK'
  BY SummaryAssumption, SummaryTypes, SetType DEF S!TypeOK, S!DropFile, S!Step, S!readVars,
     S!Name, S!RunInv
<1>2. S!RunInv'
  BY DEF S!RunInv, S!TypeOK
<1>3. S!FreshInv'
  BY DEF S!FreshInv, S!TypeOK, S!Before, S!RunInv
<1>4. S!VisInv'
  BY DEF S!VisInv, S!Pairs, S!TypeOK, S!RunInv
<1>5. S!MayInv'
  BY DEF S!MayInv, S!VisInv, S!Pairs, S!TypeOK, S!RunInv
<1>6. S!ReadInv'
  BY DEF S!ReadInv, S!Pairs, S!TypeOK, S!FreshInv, S!RunInv, S!Before, S!File
<1> QED
  BY <1>1, <1>2, <1>3, <1>4, <1>5, <1>6 DEF S!Inv

\* The removals are durable.
LEMMA SyncDropInv ==
  ASSUME S!Inv, S!SyncDrop
  PROVE  S!Inv'
PROOF
<1> USE SummaryAssumption, SummaryTypes DEF S!ConstantsOK, S!Inv, S!SyncDrop, S!Step, S!Sync,
        S!readVars, S!Name
<1>1. S!TypeOK'
  BY SummaryAssumption, SummaryTypes, SyncType DEF S!TypeOK, S!SyncDrop, S!Step, S!Sync, S!readVars
<1>2. S!RunInv'
  BY DEF S!RunInv, S!TypeOK
<1>3. S!FreshInv'
  BY DEF S!FreshInv, S!TypeOK, S!Before, S!RunInv
<1>4. S!VisInv'
  BY DEF S!VisInv, S!Pairs, S!TypeOK, S!RunInv
<1>5. S!MayInv'
  BY DEF S!MayInv, S!VisInv, S!Pairs, S!TypeOK, S!RunInv
<1>6. S!ReadInv'
  BY DEF S!ReadInv, S!Pairs, S!TypeOK, S!FreshInv, S!RunInv, S!Before, S!File
<1> QED
  BY <1>1, <1>2, <1>3, <1>4, <1>5, <1>6 DEF S!Inv

\* A write has a number that no file has.
LEMMA BeginInv ==
  ASSUME S!Inv, NEW d \in Digest, S!Begin(d)
  PROVE  S!Inv'
PROOF
<1> USE SummaryAssumption, SummaryTypes DEF S!ConstantsOK, S!Inv, S!Begin, S!readVars, S!Name
<1>a. held' \in S!Held
  BY DEF S!Held
<1>b. writes' \in 1..MaxWrites
  BY DEF S!TypeOK
<1>c. job' \in S!Write /\ job'.n = writes' /\ job'.digest = d
  BY <1>b DEF S!Write
<1>0. held' \in S!Held /\ job' \in S!Write /\ job' # None /\ job'.n = writes' /\ job'.digest = d
  BY <1>a, <1>c
<1>1. S!TypeOK'
  BY <1>0 DEF S!TypeOK
<1>2. S!RunInv'
  BY <1>0 DEF S!RunInv, S!TypeOK, S!Held
<1>3. S!FreshInv'
  BY DEF S!FreshInv, S!TypeOK, S!Before, S!File
<1>4. S!VisInv' /\ S!MayInv'
  BY DEF S!VisInv, S!MayInv, S!Pairs, S!TypeOK
<1>5. S!ReadInv'
  BY DEF S!ReadInv, S!Pairs
<1> QED
  BY <1>1, <1>2, <1>3, <1>4, <1>5 DEF S!Inv

\* A run that stops leaves the names as they are.
LEMMA StopInv ==
  ASSUME S!Inv, S!Stop
  PROVE  S!Inv'
PROOF
<1> USE SummaryAssumption, SummaryTypes DEF S!ConstantsOK, S!Inv, S!Stop, S!readVars
<1>1. S!TypeOK' /\ S!RunInv'
  BY DEF S!TypeOK, S!RunInv
<1>2. S!FreshInv'
  BY DEF S!FreshInv, S!TypeOK, S!Before
<1>3. S!VisInv' /\ S!MayInv'
  BY DEF S!VisInv, S!MayInv, S!TypeOK
<1>4. S!ReadInv'
  BY DEF S!ReadInv, S!TypeOK
<1> QED
  BY <1>1, <1>2, <1>3, <1>4 DEF S!Inv

\* A power loss leaves of each name one of the files that it may name.
LEMMA LossInv ==
  ASSUME S!Inv, S!PowerLoss
  PROVE  S!Inv'
PROOF
<1> USE SummaryAssumption, SummaryTypes DEF S!ConstantsOK, S!Inv, S!PowerLoss, S!Name
<1>1. /\ \A name \in S!Name : named'[name] \in survives[name] /\ survives'[name] = {named'[name]}
      /\ DOMAIN named' = S!Name /\ DOMAIN survives' = S!Name
  OBVIOUS
<1>2. S!TypeOK'
  <2>1. named' \in [S!Name -> Digest \cup S!Write \cup {None}]
    BY <1>1 DEF S!TypeOK
  <2>2. survives' \in [S!Name -> SUBSET (Digest \cup S!Write \cup {None})]
    BY <1>1 DEF S!TypeOK
  <2>3. /\ survives'["access"] \subseteq Digest \cup {None}
        /\ survives'["summary"] \subseteq S!Write \cup {None}
        /\ survives'["sig"] \subseteq S!Write \cup {None}
        /\ \A name \in S!Name : named'[name] \in survives'[name]
    BY <1>1 DEF S!TypeOK
  <2> QED
    BY <2>1, <2>2, <2>3 DEF S!TypeOK
<1>3. S!RunInv'
  BY DEF S!RunInv
<1>4. S!FreshInv'
  BY <1>1 DEF S!FreshInv, S!TypeOK, S!Before
<1>5. runLosses' # 0
  BY DEF S!TypeOK
<1>6. S!MayInv' /\ S!VisInv'
  BY <1>1, <1>5 DEF S!MayInv, S!VisInv
<1>7. S!ReadInv'
  BY DEF S!ReadInv
<1> QED
  BY <1>2, <1>3, <1>4, <1>6, <1>7 DEF S!Inv

\* A request starts.
LEMMA AskInv ==
  ASSUME S!Inv, NEW r \in Reader, NEW name \in {"summary", "sig"}, NEW d \in Digest,
         S!Ask(r, name, d)
  PROVE  S!Inv'
PROOF
<1> USE SummaryAssumption, SummaryTypes DEF S!ConstantsOK, S!Inv, S!Ask, S!runVars
<1>1. S!TypeOK'
  BY DEF S!TypeOK, S!File
<1>2. S!RunInv' /\ S!VisInv' /\ S!MayInv'
  BY DEF S!RunInv, S!VisInv, S!MayInv
<1>3. \A q \in Reader : file'[q] = IF q = r THEN [name |-> name, is |-> None] ELSE file[q]
  BY DEF S!TypeOK
<1>a. file'[r] \in S!File /\ file'[r] # None
  BY <1>3 DEF S!File
<1>4. S!FreshInv'
  BY <1>3 DEF S!FreshInv, S!Before
<1>5. S!ReadInv'
  BY <1>3, <1>a DEF S!ReadInv, S!TypeOK
<1> QED
  BY <1>1, <1>2, <1>4, <1>5 DEF S!Inv

\* A request opens the file of the name.
LEMMA OpenInv ==
  ASSUME S!Inv, NEW r \in Reader, S!Open(r)
  PROVE  S!Inv'
PROOF
<1> USE SummaryAssumption, SummaryTypes DEF S!ConstantsOK, S!Inv, S!Open, S!runVars
<1>0. file[r] \in S!File
  BY DEF S!ReadInv, S!TypeOK
<1>1. S!TypeOK'
  BY <1>0 DEF S!TypeOK, S!File
<1>2. S!RunInv' /\ S!VisInv' /\ S!MayInv'
  BY DEF S!RunInv, S!VisInv, S!MayInv
<1>3. \A q \in Reader :
        file'[q] = IF q = r THEN [name |-> file[r].name, is |-> named[file[r].name]] ELSE file[q]
  BY <1>0 DEF S!TypeOK, S!File
<1>a. file'[r] \in S!File /\ file'[r] # None
  BY <1>0, <1>3 DEF S!File
<1>4. S!FreshInv'
  BY <1>0, <1>3 DEF S!FreshInv, S!Before, S!TypeOK, S!Name
<1>5. S!ReadInv'
  BY <1>0, <1>3, <1>a DEF S!ReadInv, S!TypeOK
<1> QED
  BY <1>1, <1>2, <1>4, <1>5 DEF S!Inv

\* The read of the .access file: what it pairs with is what is in place now.
LEMMA ReadAccessInv ==
  ASSUME S!Inv, NEW r \in Reader, S!ReadAccess(r)
  PROVE  S!Inv'
PROOF
<1> USE SummaryAssumption, SummaryTypes DEF S!ConstantsOK, S!Inv, S!ReadAccess, S!runVars
<1>0. file[r] \in S!File
  BY DEF S!ReadInv, S!TypeOK
<1>1. S!TypeOK'
  BY DEF S!TypeOK
<1>2. S!RunInv' /\ S!VisInv' /\ S!MayInv' /\ S!FreshInv'
  BY DEF S!RunInv, S!VisInv, S!MayInv, S!FreshInv
<1>3. (runStops = 0 \/ runLosses = 0)
        /\ named["access"] = want[r]
        /\ named[file[r].name] = file[r].is
        => S!Pairs(want[r], file[r].is)
  BY <1>0 DEF S!VisInv, S!File
<1>4. S!ReadInv'
  BY <1>0, <1>3 DEF S!ReadInv, S!TypeOK, S!Pairs
<1> QED
  BY <1>1, <1>2, <1>4 DEF S!Inv

\* The file under the name is the one that the request has open, or it starts again.
LEMMA CheckInv ==
  ASSUME S!Inv, NEW r \in Reader, S!Check(r)
  PROVE  S!Inv'
PROOF
<1> USE SummaryAssumption, SummaryTypes DEF S!ConstantsOK, S!Inv, S!Check, S!runVars
<1>0. file[r] \in S!File
  BY DEF S!ReadInv, S!TypeOK
<1>1. S!TypeOK'
  BY <1>0 DEF S!TypeOK, S!File
<1>2. S!RunInv' /\ S!VisInv' /\ S!MayInv' /\ S!FreshInv'
  BY DEF S!RunInv, S!VisInv, S!MayInv, S!FreshInv
<1>3. S!ReadInv'
  BY <1>0 DEF S!ReadInv, S!TypeOK, S!Pairs
<1> QED
  BY <1>1, <1>2, <1>3 DEF S!Inv

\* Each step keeps the invariant of the files.
LEMMA SummaryStep ==
  ASSUME S!Inv, [S!Next]_(S!vars)
  PROVE  S!Inv'
PROOF
<1>1. CASE UNCHANGED S!vars
  BY <1>1 DEF S!vars, S!runVars, S!readVars, S!Inv, S!TypeOK, S!RunInv, S!FreshInv, S!MayInv,
     S!VisInv, S!ReadInv
<1>2. CASE S!Writes
  BY <1>2, BeginInv, RemoveAccessInv, SyncRemovalInv, RemoveSigInv, PutSummaryInv, PutSigInv,
     SyncSummaryInv, PutAccessInv, SyncAccessInv, BeginRemovalInv, DropAccessInv, DropFileInv,
     SyncDropInv DEF S!Writes
<1>3. CASE S!Reads
  BY <1>3, AskInv, OpenInv, ReadAccessInv, CheckInv DEF S!Reads
<1> QED
  BY <1>1, <1>2, <1>3, StopInv, LossInv DEF S!Next

-----------------------------------------------------------------------------
(* The store of objects and refs.                                         *)

\* The finite sets of the instance are those of the theorems that are cited.
LEMMA DFiniteSets ==
  \A X : (D!IsFiniteSet(X) <=> IsFiniteSet(X)) /\ D!Cardinality(X) = Cardinality(X)
PROOF
  BY DEF IsFiniteSet, Cardinality, D!IsFiniteSet, D!Cardinality

\* The empty set is the only set of no elements.
LEMMA DEmptySet ==
  /\ D!IsFiniteSet({}) /\ D!Cardinality({}) = 0
  /\ \A X : D!IsFiniteSet(X) => (D!Cardinality(X) = 0 <=> X = {})
PROOF
  BY DFiniteSets, FS_EmptySet

\* A finite set has a number of elements.
LEMMA DCardinalityType ==
  ASSUME NEW X, D!IsFiniteSet(X)
  PROVE  D!Cardinality(X) \in Nat
PROOF
  BY DFiniteSets, FS_CardinalityType

\* An element more.
LEMMA DAddElement ==
  ASSUME NEW X, NEW x, D!IsFiniteSet(X)
  PROVE  /\ D!IsFiniteSet(X \cup {x})
         /\ x \notin X => D!Cardinality(X \cup {x}) = D!Cardinality(X) + 1
PROOF
  BY DFiniteSets, FS_AddElement

\* A part of a finite set.
LEMMA DSubset ==
  ASSUME NEW X, D!IsFiniteSet(X), NEW Y \in SUBSET X
  PROVE  /\ D!IsFiniteSet(Y) /\ D!Cardinality(Y) <= D!Cardinality(X)
         /\ D!Cardinality(X) = D!Cardinality(Y) => X = Y
PROOF
  BY DFiniteSets, FS_Subset

\* The entries of the store are told apart by their kind and their commit.
LEMMA EntryNames ==
  /\ \A w, d \in Stored :
       /\ D!Ref(w) = D!Ref(d) => w = d
       /\ D!Meta(w) = D!Meta(d) => w = d
       /\ D!Marker(w) = D!Marker(d) => w = d
       /\ D!Ref(w) # D!Meta(d) /\ D!Ref(w) # D!Marker(d) /\ D!Meta(w) # D!Marker(d)
  /\ \A w \in Stored : D!Ref(w) \in D!Refs /\ D!Meta(w) \in D!Metas /\ D!Marker(w) \in D!Markers
  /\ D!Refs \cap D!Metas = {} /\ D!Refs \cap D!Markers = {} /\ D!Metas \cap D!Markers = {}
  /\ D!Object \cap D!Refs = {} /\ D!Object \cap D!Metas = {} /\ D!Object \cap D!Markers = {}
  /\ Stored \cap Content = {} /\ D!Object = Stored \cup Content
PROOF
<1>1. \A w, d \in Stored :
       /\ D!Ref(w) = D!Ref(d) => w = d
       /\ D!Meta(w) = D!Meta(d) => w = d
       /\ D!Marker(w) = D!Marker(d) => w = d
       /\ D!Ref(w) # D!Meta(d) /\ D!Ref(w) # D!Marker(d) /\ D!Meta(w) # D!Marker(d)
  BY DEF D!Ref, D!Meta, D!Marker
<1>2. \A w \in Stored : D!Ref(w) \in D!Refs /\ D!Meta(w) \in D!Metas /\ D!Marker(w) \in D!Markers
  BY DEF D!Refs, D!Metas, D!Markers
<1>3. D!Refs \cap D!Metas = {} /\ D!Refs \cap D!Markers = {} /\ D!Metas \cap D!Markers = {}
  BY <1>1 DEF D!Refs, D!Metas, D!Markers
<1>4. D!Object \cap D!Refs = {} /\ D!Object \cap D!Metas = {} /\ D!Object \cap D!Markers = {}
  BY DurabilityAssumption DEF D!ConstantsOK
<1> QED
  BY <1>1, <1>2, <1>3, <1>4, DurabilityAssumption DEF D!ConstantsOK, D!Object

\* What the constants say of a transaction and of a commit.
LEMMA OwnCommit ==
  /\ \A u \in D!Fetcher : Wants[u] \in Stored
  /\ \A u, v \in D!Fetcher : Wants[u] = Wants[v] => u = v
  /\ \A w \in Stored : Tree[w] \subseteq Content
  /\ Puller \subseteq D!Fetcher /\ Receiver \subseteq D!Fetcher /\ Puller \cap Receiver = {}
  /\ Dict \subseteq Stored
PROOF
  BY DurabilityAssumption DEF D!ConstantsOK, D!Fetcher

\* The files of a set with some left out.
LEMMA LessCard ==
  ASSUME NEW X, NEW Y, D!IsFiniteSet(X)
  PROVE  /\ D!IsFiniteSet(X \ Y) /\ D!Cardinality(X) \in Nat /\ D!Cardinality(X \ Y) \in Nat
         /\ D!Cardinality(X \ Y) <= D!Cardinality(X)
         /\ D!Cardinality(X \ Y) = D!Cardinality(X) => X \cap Y = {}
PROOF
<1>1. X \ Y \subseteq X
  OBVIOUS
<1>2. D!IsFiniteSet(X \ Y) /\ D!Cardinality(X \ Y) <= D!Cardinality(X)
      /\ (D!Cardinality(X \ Y) = D!Cardinality(X) => X \ Y = X)
  BY <1>1, DSubset
<1> QED
  BY <1>2, DCardinalityType

\* The store is empty.
LEMMA DurableInit == D!Init => D!Inv
PROOF
<1> SUFFICES ASSUME D!Init PROVE D!Inv
  OBVIOUS
<1> USE DEF D!Init
<1>1. D!TypeOK
  BY DEF D!TypeOK, D!Entry
<1>2. D!StageInv
  BY DEmptySet DEF D!StageInv, D!StageOf, D!Staging, D!Pending
<1>3. D!SoftInv
  BY DEF D!SoftInv, D!SoftOf, D!Tail
<1>4. D!FetchInv
  BY DEF D!FetchInv, D!FetchOf, D!Staging, D!Tail, D!Pending, D!Written
<1>5. D!RefInv /\ D!PullInv
  BY DEF D!RefInv, D!PullInv
<1>6. D!SweepInv
  BY DEF D!SweepInv, D!Open
<1> QED
  BY <1>1, <1>2, <1>3, <1>4, <1>5, <1>6 DEF D!Inv

\* A step of one transaction leaves what the others have, but for a sync of
\* their data.
OthersRest(u) ==
  \A v \in D!Fetcher \ {u} :
    /\ step'[v] = step[v] /\ left'[v] = left[v] /\ jobs'[v] = jobs[v] /\ staged'[v] = staged[v]
    /\ soft'[v] = soft[v] \/ soft'[v] = {}
    /\ presynced'[v] = presynced[v] /\ count'[v] = count[v]
    /\ synced'[v] = synced[v] /\ renamed'[v] = renamed[v]

\* What the others stage is theirs.
LEMMA StageFrame ==
  ASSUME D!StageInv, NEW u \in D!Fetcher, D!StageOf(u)', OthersRest(u)
  PROVE  D!StageInv'
PROOF
<1> SUFFICES ASSUME NEW v \in D!Fetcher \ {u} PROVE D!StageOf(v)'
  BY DEF D!StageInv
<1>1. D!StageOf(v)
  BY DEF D!StageInv
<1>2. D!Pending(v)' = D!Pending(v)
  BY DEF D!Pending, OthersRest
<1> QED
  BY <1>1, <1>2 DEF D!StageOf, OthersRest

\* What the others have unsynced, a step of one leaves or syncs.
LEMMA SoftFrame ==
  ASSUME D!TypeOK, D!StageInv, D!SoftInv, raw' = {},
         NEW u \in D!Fetcher, D!SoftOf(u)', OthersRest(u)
  PROVE  D!SoftInv'
PROOF
<1> SUFFICES ASSUME NEW v \in D!Fetcher \ {u} PROVE D!SoftOf(v)'
  BY DEF D!SoftInv
<1>1. D!SoftOf(v)
  BY DEF D!SoftInv
<1>2. CASE soft'[v] = soft[v]
  BY <1>1, <1>2 DEF D!SoftOf, OthersRest
<1>3. CASE soft'[v] = {}
  <2>1. D!IsFiniteSet(staged[v]) /\ staged[v] \ {} = staged[v]
    BY DEF D!StageInv, D!StageOf
  <2>2. /\ D!Cardinality(staged[v]) \in Nat /\ D!Cardinality(staged[v] \ soft[v]) \in Nat
        /\ D!Cardinality(staged[v] \ soft[v]) <= D!Cardinality(staged[v])
    BY <2>1, LessCard
  <2>3. count[v] \in Nat /\ presynced[v] \in Nat \cup {NoCount}
    BY DEF D!TypeOK
  <2> QED
    BY <1>1, <1>3, <2>1, <2>2, <2>3 DEF D!SoftOf, OthersRest
<1> QED
  BY <1>2, <1>3 DEF OthersRest

\* The names that the others rely on, a step of one leaves.
LEMMA FetchFrame ==
  ASSUME D!FetchInv, NEW u \in D!Fetcher, D!FetchOf(u)', OthersRest(u),
         \A v \in D!Fetcher \ {u} :
           LET w == Wants[v] IN
           /\ D!Kept(D!Objects(w)) => D!Kept(D!Objects(w))'
           /\ D!Kept(D!Whole(w)) => D!Kept(D!Whole(w))'
           /\ D!Back(w) => D!Back(w)'
           /\ D!Ref(w) \in may' \ revived' => D!Ref(w) \in may \ revived
           /\ \A o \in D!Objects(w) : o \in sure \cup borrowed => o \in sure' \cup borrowed'
           /\ \A e \in {D!Meta(w), D!Marker(w)} :
                (e \in vis => e \in vis') /\ (e \in sure => e \in sure')
           /\ renamed[v] \subseteq vis => renamed[v] \subseteq vis'
  PROVE  D!FetchInv'
PROOF
<1> SUFFICES ASSUME NEW v \in D!Fetcher \ {u} PROVE D!FetchOf(v)'
  BY DEF D!FetchInv
<1>1. D!FetchOf(v)
  BY DEF D!FetchInv
<1>2. D!Pending(v)' = D!Pending(v) /\ D!Written(v)' = D!Written(v)
  BY DEF D!Pending, D!Written, OthersRest
<1>3. step'[v] = step[v] /\ renamed'[v] = renamed[v]
  BY DEF OthersRest
<1> QED
  BY <1>1, <1>2, <1>3 DEF D!FetchOf

\* What the runs check follows from the invariant.
LEMMA DurableSafe == D!Inv => D!NoTornFile /\ D!RefNamesDurable /\ D!UnmarkedIsWhole
PROOF
<1> SUFFICES ASSUME D!Inv PROVE D!NoTornFile /\ D!RefNamesDurable /\ D!UnmarkedIsWhole
  OBVIOUS
<1>1. D!NoTornFile
  BY DEF D!Inv, D!SoftInv, D!NoTornFile
<1>2. D!RefNamesDurable
  BY DEF D!Inv, D!RefInv, D!RefNamesDurable, D!Back, D!Kept
<1>3. D!UnmarkedIsWhole
  BY DEF D!Inv, D!PullInv, D!UnmarkedIsWhole, D!Unmarked, D!Kept
<1> QED
  BY <1>1, <1>2, <1>3

\* While a sweep has the repository lock, no transaction has an object.
LEMMA SweepAlone ==
  ASSUME D!TypeOK, D!StageInv, D!SweepInv, sweep # "idle", NEW u \in D!Fetcher
  PROVE  step[u] \in {"idle", "unmark"} /\ D!Pending(u) = {} /\ D!Written(u) = {}
PROOF
<1>1. step[u] \in {"idle", "unmark"}
  BY DEF D!SweepInv, D!Open
<1>2. left[u] = {} /\ jobs[u] = {} /\ staged[u] = {}
  BY <1>1 DEF D!StageInv, D!StageOf, D!Staging
<1> QED
  BY <1>1, <1>2 DEF D!Pending, D!Written

\* A step of a sweep leaves what the transactions have.
LEMMA SweepFetch ==
  ASSUME D!TypeOK, D!StageInv, D!SweepInv, sweep # "idle", UNCHANGED <<step, left, jobs, staged>>
  PROVE  D!FetchInv'
PROOF
<1> SUFFICES ASSUME NEW u \in D!Fetcher PROVE D!FetchOf(u)'
  BY DEF D!FetchInv
<1>1. step[u] \in {"idle", "unmark"} /\ D!Pending(u) = {} /\ D!Written(u) = {}
  BY SweepAlone
<1>2. D!Pending(u)' = D!Pending(u) /\ D!Written(u)' = D!Written(u)
  BY DEF D!Pending, D!Written
<1> QED
  BY <1>1, <1>2 DEF D!FetchOf, D!Staging, D!Tail

\* A pull that plans nothing has a whole commit; each other one has its marker.
LEMMA BeginKeeps ==
  ASSUME D!Inv, NEW u \in D!Fetcher, D!Begin(u)
  PROVE  D!Inv'
PROOF
<1> USE DEF D!Inv, D!fs, D!txn, D!prune, D!bounds, D!history, D!Begin, D!Goes, D!Create
<1>a. /\ step'[u] = "stage"
      /\ left'[u] = IF u \in Receiver \/ ~D!Complete(Wants[u]) THEN D!Objects(Wants[u]) ELSE {}
      /\ jobs'[u] = jobs[u]
      /\ staged'[u] = staged[u]
      /\ soft'[u] = soft[u]
      /\ presynced'[u] = presynced[u]
      /\ count'[u] = count[u]
      /\ synced'[u] = synced[u]
      /\ renamed'[u] = renamed[u]
  BY DEF D!TypeOK, D!Objects
<1>b. OthersRest(u)
  BY DEF D!TypeOK, OthersRest
<1>c. u \in D!Fetcher /\ D!StageOf(u) /\ D!SoftOf(u) /\ D!FetchOf(u)
  BY DEF D!StageInv, D!SoftInv, D!FetchInv
<1>d. /\ touched = {} /\ left[u] = {} /\ jobs[u] = {} /\ staged[u] = {}
      /\ D!Pending(u) = {} /\ D!Written(u) = {}
  BY <1>c DEF D!SweepInv, D!StageOf, D!Staging, D!Pending, D!Written
<1>e. /\ D!Pending(u)' = left'[u] /\ D!Written(u)' = {}
  BY <1>a, <1>d DEF D!Pending, D!Written
<1>1. D!TypeOK'
  BY EntryNames, OwnCommit DEF D!TypeOK, D!Entry, D!Files, D!Job
<1>2. D!StageInv'
  <2>1. D!StageOf(u)'
    BY <1>a, <1>c, OwnCommit, <1>d, <1>e DEF D!StageOf, D!Pending, D!Staging, D!Objects
  <2> QED
    BY <2>1, <1>b, StageFrame
<1>3. D!SoftInv'
  <2>1. raw' = {}
    BY DEF D!SoftInv, D!SoftOf
  <2>2. D!SoftOf(u)'
    BY <1>a, <1>c DEF D!SoftOf, D!StageOf, D!Staging, D!Tail
  <2> QED
    BY <2>1, <2>2, <1>b, SoftFrame
<1>4. D!FetchInv'
  <2>1. D!FetchOf(u)'
    <3>1. CASE u \in Receiver \/ ~D!Complete(Wants[u])
      <4>1. D!Pending(u)' = D!Objects(Wants[u])
        BY <1>a, <1>e, <3>1
      <4>2. u \in Puller => D!Marker(Wants[u]) \in vis'
        BY <3>1
      <4> QED
        BY <1>a, <1>e, <4>1, <4>2 DEF D!FetchOf, D!Tail, D!Objects
    <3>2. CASE u \in Puller /\ D!Complete(Wants[u])
      <4>1. D!Pending(u)' = {}
        BY <1>a, <1>e, <3>2, OwnCommit
      <4>2. D!Back(Wants[u]) \/ D!Kept(D!Objects(Wants[u]))
        BY <3>2 DEF D!Complete, D!PullInv, D!Unmarked
      <4> QED
        BY <1>a, <1>e, <4>1, <4>2 DEF D!FetchOf, D!Tail, D!Objects, D!Kept, D!Back
    <3> QED
      BY <3>1, <3>2, OwnCommit DEF D!Fetcher
  <2>2. /\ vis \subseteq vis' /\ UNCHANGED <<sure, borrowed, revived>>
        /\ \A w \in Stored : D!Ref(w) \in may' => D!Ref(w) \in may
    BY EntryNames, OwnCommit
  <2> QED
    BY <1>b, <2>1, <2>2, OwnCommit, FetchFrame DEF D!Kept, D!Back
<1>5. D!RefInv'
  BY EntryNames, OwnCommit DEF D!RefInv, D!TypeOK, D!Kept, D!Back, D!Whole
<1>6. D!PullInv'
  <2>1. \A w \in Stored : w \in may \ revived => w \in vis
    BY <1>d DEF D!SweepInv
  <2>2. \A w \in Stored : (w \in vis' <=> w \in vis) /\ (w \in may' <=> w \in may)
    BY EntryNames, OwnCommit
  <2>3. \A v \in Puller \ {u} :
          /\ D!Unmarked(v)' = D!Unmarked(v)
          /\ D!Marker(Wants[v]) \in vis' <=> D!Marker(Wants[v]) \in vis
    BY <1>b, EntryNames, OwnCommit DEF OthersRest, D!Unmarked
  <2>4. u \in Puller => (D!Unmarked(u)' => D!Unmarked(u))
    BY <1>a DEF D!Unmarked
  <2>5. u \in Puller /\ Wants[u] \in vis /\ D!Marker(Wants[u]) \in vis'
          => D!Marker(Wants[u]) \in vis
    BY OwnCommit DEF D!Complete
  <2> QED
    BY <2>1, <2>2, <2>3, <2>4, <2>5, OwnCommit DEF D!PullInv, D!Kept, D!Back
<1>7. D!SweepInv'
  BY EntryNames, OwnCommit DEF D!SweepInv, D!TypeOK, D!Open, D!Whole
<1> QED
  BY <1>1, <1>2, <1>3, <1>4, <1>5, <1>6, <1>7 DEF D!Inv

\* A staging call moves an object to a job.
LEMMA OfferKeeps ==
  ASSUME D!Inv, NEW u \in D!Fetcher, NEW o \in D!Object, D!Offer(u, o)
  PROVE  D!Inv'
PROOF
<1> USE DEF D!Inv, D!fs, D!txn, D!prune, D!bounds, D!history, D!Offer
<1>a. /\ step'[u] = step[u]
      /\ left'[u] = left[u] \ {o}
      /\ jobs'[u] = jobs[u] \cup {[obj |-> o, synced |-> D!SyncsMetadata(u), written |-> FALSE]}
      /\ staged'[u] = staged[u]
      /\ soft'[u] = soft[u]
      /\ presynced'[u] = presynced[u]
      /\ count'[u] = count[u]
      /\ synced'[u] = synced[u]
      /\ renamed'[u] = renamed[u]
  BY DEF D!TypeOK
<1>b. OthersRest(u)
  BY DEF D!TypeOK, OthersRest
<1>c. u \in D!Fetcher /\ D!StageOf(u) /\ D!SoftOf(u) /\ D!FetchOf(u)
  BY DEF D!StageInv, D!SoftInv, D!FetchInv
<1> DEFINE k == [obj |-> o, synced |-> D!SyncsMetadata(u), written |-> FALSE]
<1>d. k.obj = o /\ k.written = FALSE /\ jobs'[u] = jobs[u] \cup {k} /\ o \in left[u]
  BY <1>a
<1> HIDE DEF k
<1>e. D!Pending(u)' = D!Pending(u) /\ D!Written(u)' = D!Written(u)
  <2>1. {i.obj : i \in jobs'[u]} = {i.obj : i \in jobs[u]} \cup {o}
    BY <1>d
  <2>2. {i \in jobs'[u] : i.written} = {i \in jobs[u] : i.written}
    BY <1>d
  <2> QED
    BY <1>a, <1>d, <2>1, <2>2 DEF D!Pending, D!Written
<1>1. D!TypeOK'
  <2>1. [obj |-> o, synced |-> D!SyncsMetadata(u), written |-> FALSE] \in D!Job
    BY DEF D!Job, D!SyncsMetadata
  <2>2. left' \in [D!Fetcher -> SUBSET D!Object] /\ jobs' \in [D!Fetcher -> SUBSET D!Job]
    BY <2>1 DEF D!TypeOK
  <2> QED
    BY <2>2 DEF D!TypeOK
<1>2. D!StageInv'
  <2>1. \A i, h \in jobs'[u] : i.obj = h.obj => i = h
    BY <1>c, <1>d DEF D!StageOf
  <2>2. \A i \in jobs'[u] : i.obj \notin left'[u] \cup staged'[u]
    BY <1>a, <1>c, <1>d DEF D!StageOf
  <2>3. step[u] \in D!Staging /\ renamed[u] = {}
    BY <1>c DEF D!StageOf, D!Staging
  <2>4. D!Pending(u)' \subseteq D!Objects(Wants[u])
    BY <1>c, <1>e DEF D!StageOf
  <2>5. D!StageOf(u)'
    BY <1>a, <1>c, <2>1, <2>2, <2>3, <2>4 DEF D!StageOf, D!Staging
  <2> QED
    BY <2>5, <1>b, StageFrame
<1>3. D!SoftInv'
  <2>1. raw' = {}
    BY DEF D!SoftInv, D!SoftOf
  <2>2. D!SoftOf(u)'
    BY <1>a, <1>c, <1>d DEF D!SoftOf, D!StageOf, D!Staging, D!Tail
  <2> QED
    BY <2>1, <2>2, <1>b, SoftFrame
<1>4. D!FetchInv'
  <2>1. D!FetchOf(u)'
    BY <1>a, <1>c, <1>e DEF D!FetchOf, D!Kept, D!Back
  <2> QED
    BY <1>b, <2>1, FetchFrame DEF D!Kept, D!Back
<1>5. D!RefInv'
  BY EntryNames, OwnCommit DEF D!RefInv, D!TypeOK, D!Kept, D!Back, D!Whole
<1>6. D!PullInv'
  BY EntryNames, OwnCommit DEF D!PullInv, D!TypeOK, D!Unmarked, D!Kept, D!Back, D!Objects
<1>7. D!SweepInv'
  BY EntryNames, OwnCommit DEF D!SweepInv, D!TypeOK, D!Open, D!Whole
<1> QED
  BY <1>1, <1>2, <1>3, <1>4, <1>5, <1>6, <1>7 DEF D!Inv

\* A job finds its object, which may not be durable, or writes it.
LEMMA RunJobKeeps ==
  ASSUME D!Inv, NEW u \in D!Fetcher, NEW j \in jobs[u], D!RunJob(u, j)
  PROVE  D!Inv'
PROOF
<1> USE DEF D!Inv, D!fs, D!txn, D!prune, D!bounds, D!history, D!RunJob
<1>a. /\ step'[u] = step[u]
      /\ left'[u] = left[u]
      /\ jobs'[u] = IF j.obj \in vis THEN jobs[u] \ {j}
                   ELSE (jobs[u] \ {j}) \cup {[j EXCEPT !.written = TRUE]}
      /\ staged'[u] = staged[u]
      /\ soft'[u] = IF j.obj \in vis \/ j.synced THEN soft[u] ELSE soft[u] \cup {j.obj}
      /\ presynced'[u] = presynced[u]
      /\ count'[u] = count[u]
      /\ synced'[u] = synced[u]
      /\ renamed'[u] = renamed[u]
  BY DEF D!TypeOK
<1>b. OthersRest(u)
  BY DEF D!TypeOK, OthersRest
<1>c. u \in D!Fetcher /\ D!StageOf(u) /\ D!SoftOf(u) /\ D!FetchOf(u)
  BY DEF D!StageInv, D!SoftInv, D!FetchInv
<1> DEFINE k == [j EXCEPT !.written = TRUE]
<1>d. /\ j \in D!Job /\ k \in D!Job /\ k.obj = j.obj /\ k.synced = j.synced /\ k.written = TRUE
      /\ j.written = FALSE /\ j \in jobs[u]
  <2>1. j \in jobs[u] /\ j \in D!Job /\ ~j.written
    BY DEF D!TypeOK
  <2>2. j.written = FALSE
    BY <2>1 DEF D!Job
  <2>3. k \in D!Job /\ k.obj = j.obj /\ k.synced = j.synced /\ k.written = TRUE
    BY <2>1 DEF D!Job
  <2> QED
    BY <2>1, <2>2, <2>3
<1>e. jobs'[u] = IF j.obj \in vis THEN jobs[u] \ {j} ELSE (jobs[u] \ {j}) \cup {k}
  BY <1>a
<1>k. jobs' = [jobs EXCEPT ![u] = jobs'[u]]
  BY <1>a DEF D!TypeOK
<1> HIDE DEF k
<1>f. step[u] \in D!Staging /\ renamed[u] = {}
  BY <1>c DEF D!StageOf, D!Staging
<1>g. \A i \in jobs[u] \ {j} : i.obj # j.obj
  BY <1>c, <1>d DEF D!StageOf
<1>h. j.obj \notin left[u] \cup staged[u]
  BY <1>c, <1>d DEF D!StageOf
<1>i. j.obj \in vis =>
        /\ D!Pending(u) = D!Pending(u)' \cup {j.obj} /\ D!Written(u)' = D!Written(u)
        /\ j.obj \in sure' \cup borrowed'
  <2> SUFFICES ASSUME j.obj \in vis
               PROVE  /\ D!Pending(u) = D!Pending(u)' \cup {j.obj} /\ D!Written(u)' = D!Written(u)
                      /\ j.obj \in sure' \cup borrowed'
    OBVIOUS
  <2>1. {i.obj : i \in jobs[u]} = {i.obj : i \in jobs'[u]} \cup {j.obj}
    BY <1>d, <1>e
  <2>2. {i \in jobs'[u] : i.written} = {i \in jobs[u] : i.written}
    BY <1>d, <1>e
  <2> QED
    BY <1>a, <2>1, <2>2 DEF D!Pending, D!Written
<1>j. j.obj \notin vis => D!Pending(u)' = D!Pending(u) /\ D!Written(u)' = D!Written(u) \cup {j.obj}
  <2> SUFFICES ASSUME j.obj \notin vis
               PROVE  D!Pending(u)' = D!Pending(u) /\ D!Written(u)' = D!Written(u) \cup {j.obj}
    OBVIOUS
  <2>1. {i.obj : i \in jobs'[u]} = {i.obj : i \in jobs[u]}
    BY <1>d, <1>e
  <2>2. {i \in jobs'[u] : i.written} = {i \in jobs[u] : i.written} \cup {k}
    BY <1>d, <1>e
  <2> QED
    BY <1>a, <1>d, <2>1, <2>2 DEF D!Pending, D!Written
<1>1. D!TypeOK'
  <2>1. jobs' \in [D!Fetcher -> SUBSET D!Job]
    <3>1. jobs'[u] \subseteq D!Job
      BY <1>d, <1>e DEF D!TypeOK
    <3> QED
      BY <1>k, <3>1 DEF D!TypeOK
  <2>2. soft' \in [D!Fetcher -> SUBSET D!Files]
    BY <1>d DEF D!TypeOK, D!Job, D!Files
  <2>3. borrowed' \subseteq D!Object
    BY <1>d DEF D!TypeOK, D!Job
  <2> QED
    BY <2>1, <2>2, <2>3 DEF D!TypeOK
<1>2. D!StageInv'
  <2>1. \A i, h \in jobs'[u] : i.obj = h.obj => i = h
    BY <1>c, <1>d, <1>e, <1>g DEF D!StageOf
  <2>2. \A i \in jobs'[u] : i.obj \notin left'[u] \cup staged'[u]
    BY <1>a, <1>c, <1>d, <1>e DEF D!StageOf
  <2>3. D!Pending(u)' \subseteq D!Objects(Wants[u])
    BY <1>c, <1>i, <1>j DEF D!StageOf
  <2>4. D!StageOf(u)'
    BY <1>a, <1>c, <1>f, <2>1, <2>2, <2>3 DEF D!StageOf, D!Staging
  <2> QED
    BY <2>4, <1>b, StageFrame
<1>3. D!SoftInv'
  <2>1. raw' = {}
    BY DEF D!SoftInv
  <2>2. staged[u] \ soft'[u] = staged[u] \ soft[u]
    BY <1>a, <1>h
  <2>3. \A i \in jobs'[u] : i.obj \in soft'[u] => i.written /\ ~i.synced
    BY <1>a, <1>c, <1>d, <1>e, <1>g DEF D!SoftOf
  <2>4. \A o \in left[u] : o \notin soft'[u]
    BY <1>a, <1>c, <1>h DEF D!SoftOf
  <2>5. ~synced[u] /\ step[u] \notin {"rename", "install"}
    BY <1>c, <1>f DEF D!SoftOf, D!Staging, D!Tail
  <2>6. D!SoftOf(u)'
    BY <1>a, <1>c, <2>2, <2>3, <2>4, <2>5 DEF D!SoftOf
  <2> QED
    BY <2>1, <2>6, <1>b, SoftFrame
<1>4. D!FetchInv'
  <2>1. sure' = sure /\ borrowed \subseteq borrowed' /\ UNCHANGED <<vis, may, revived>>
    OBVIOUS
  <2>2. j.obj \in D!Pending(u)
    BY <1>d DEF D!Pending
  <2>3. D!Objects(Wants[u]) \subseteq D!Pending(u) \cup sure \cup borrowed
    BY <1>c, <1>f, <2>2 DEF D!FetchOf
  <2>4. D!Objects(Wants[u]) \subseteq D!Pending(u)' \cup sure' \cup borrowed'
    BY <1>i, <1>j, <2>1, <2>3
  <2>5. Wants[u] \in D!Written(u)' /\ D!Ref(Wants[u]) \in may \ revived
          => D!Kept(D!Whole(Wants[u]))'
    <3>1. CASE Wants[u] \in D!Written(u)
      BY <3>1, <1>c, <1>f, <2>1 DEF D!FetchOf, D!Kept
    <3>2. CASE j.obj = Wants[u] /\ j.obj \notin vis
      <4>1. ~D!Back(Wants[u])
        BY <3>2 DEF D!Back, D!TypeOK
      <4> QED
        BY <4>1, <2>1, OwnCommit DEF D!RefInv, D!Kept
    <3> QED
      BY <3>1, <3>2, <1>i, <1>j
  <2>6. D!FetchOf(u)'
    <3>1. D!Pending(u)' \subseteq D!Pending(u)
      BY <1>i, <1>j
    <3>2. step'[u] = step[u] /\ step[u] \notin D!Tail \cup {"rename"}
      BY <1>a, <1>f DEF D!Staging, D!Tail
    <3> QED
      BY <1>c, <2>1, <2>4, <2>5, <3>1, <3>2 DEF D!FetchOf, D!Tail
  <2> QED
    BY <1>b, <2>1, <2>6, OwnCommit, FetchFrame DEF D!Kept, D!Back
<1>5. D!RefInv'
  BY EntryNames, OwnCommit DEF D!RefInv, D!TypeOK, D!Kept, D!Back, D!Whole
<1>6. D!PullInv'
  BY EntryNames, OwnCommit DEF D!PullInv, D!TypeOK, D!Unmarked, D!Kept, D!Back, D!Objects
<1>7. D!SweepInv'
  BY EntryNames, OwnCommit DEF D!SweepInv, D!TypeOK, D!Open, D!Whole
<1> QED
  BY <1>1, <1>2, <1>3, <1>4, <1>5, <1>6, <1>7 DEF D!Inv

\* A record adds to the count if, and only if, the job has synced its file.
LEMMA RecordKeeps ==
  ASSUME D!Inv, NEW u \in D!Fetcher, NEW j \in jobs[u], D!Record(u, j)
  PROVE  D!Inv'
PROOF
<1> USE DEF D!Inv, D!fs, D!txn, D!prune, D!bounds, D!history, D!Record, D!Recounted
<1>a. /\ step'[u] = step[u]
      /\ left'[u] = left[u]
      /\ jobs'[u] = jobs[u] \ {j}
      /\ staged'[u] = staged[u] \cup {j.obj}
      /\ soft'[u] = soft[u]
      /\ presynced'[u] = D!Recounted(u, j)
      /\ count'[u] = count[u]
      /\ synced'[u] = synced[u]
      /\ renamed'[u] = renamed[u]
  BY DEF D!TypeOK
<1>b. OthersRest(u)
  BY DEF D!TypeOK, OthersRest
<1>c. u \in D!Fetcher /\ D!StageOf(u) /\ D!SoftOf(u) /\ D!FetchOf(u)
  BY DEF D!StageInv, D!SoftInv, D!FetchInv
<1>d. /\ D!IsFiniteSet(staged[u]) /\ D!Cardinality(staged[u]) \in Nat
      /\ \A s : /\ D!Cardinality(staged[u] \ s) \in Nat
                /\ D!Cardinality(staged[u] \ s) <= D!Cardinality(staged[u])
                /\ D!Cardinality(staged[u] \ s) = D!Cardinality(staged[u]) => staged[u] \cap s = {}
  BY <1>c, LessCard DEF D!StageOf
<1>e. presynced[u] \in Nat \cup {NoCount} /\ count[u] \in Nat /\ NoCount \notin Nat
  BY DurabilityAssumption DEF D!TypeOK, D!ConstantsOK
<1>1. D!TypeOK'
  BY EntryNames, OwnCommit DEF D!TypeOK, D!Entry, D!Files, D!Job
<1>2. D!StageInv'
  <2>1. D!StageOf(u)'
    BY <1>a, <1>c, OwnCommit, DAddElement DEF D!StageOf, D!Pending, D!Staging
  <2> QED
    BY <2>1, <1>b, StageFrame
<1>3. D!SoftInv'
  <2>1. raw' = {}
    BY DEF D!SoftInv
  <2>2. j.obj \notin staged[u] /\ (j.obj \in soft[u] => ~j.synced)
    BY <1>c DEF D!StageOf, D!SoftOf
  <2>3. D!Cardinality(staged'[u]) = D!Cardinality(staged[u]) + 1
    <3>1. D!Cardinality(staged[u] \cup {j.obj}) = D!Cardinality(staged[u]) + 1
      BY <1>d, <2>2, DAddElement
    <3> QED
      BY <3>1, <1>a
  <2>4. j.obj \in soft[u] => staged'[u] \ soft[u] = staged[u] \ soft[u]
    BY <1>a
  <2>5. j.obj \notin soft[u] => staged'[u] \ soft[u] = (staged[u] \ soft[u]) \cup {j.obj}
    BY <1>a
  <2>6. D!IsFiniteSet(staged[u] \ soft[u])
    BY <1>d, LessCard
  <2>7. j.obj \notin soft[u]
          => D!Cardinality(staged'[u] \ soft[u]) = D!Cardinality(staged[u] \ soft[u]) + 1
    BY <2>2, <2>5, <2>6, DAddElement
  <2>8. D!Cardinality(staged[u] \ soft[u]) \in Nat
    BY <1>d
  <2>9. step[u] \in D!Staging
    BY <1>c DEF D!StageOf
  <2>10. D!SoftOf(u)'
    <3> DEFINE n == D!Cardinality(staged[u] \ soft[u])
               m == D!Cardinality(staged'[u] \ soft[u])
    <3>a. n \in Nat /\ (m = n \/ m = n + 1) /\ (j.synced => m = n + 1)
      BY <2>2, <2>4, <2>7, <2>8
    <3>b. /\ step[u] = "presync" => count[u] <= D!Cardinality(staged[u])
          /\ step[u] = "counted" => count[u] <= n
          /\ presynced[u] # NoCount => presynced[u] <= n
      BY <1>c DEF D!SoftOf
    <3> HIDE DEF n, m
    <3>1. /\ step[u] = "presync" => count[u] <= D!Cardinality(staged'[u])
          /\ step[u] = "counted" => count[u] <= m
      BY <1>d, <1>e, <2>3, <3>a, <3>b
    <3>c. presynced'[u] = IF j.synced /\ presynced[u] # NoCount
                          THEN presynced[u] + 1 ELSE presynced[u]
      BY <1>a
    <3>2. presynced'[u] # NoCount => presynced'[u] <= m
      BY <1>e, <3>a, <3>b, <3>c
    <3>3. (\A i \in jobs[u] : i.obj \in soft[u] => i.written /\ ~i.synced)'
      BY <1>a, <1>c DEF D!SoftOf
    <3>4. ~synced[u] /\ step[u] \notin {"rename", "install"}
      BY <1>c, <2>9 DEF D!SoftOf, D!Staging, D!Tail
    <3> QED
      BY <1>a, <1>c, <3>1, <3>2, <3>3, <3>4 DEF D!SoftOf, m
  <2> QED
    BY <2>1, <2>10, <1>b, SoftFrame
<1>4. D!FetchInv'
  BY EntryNames, OwnCommit DEF D!FetchInv, D!FetchOf, D!StageInv, D!StageOf, D!TypeOK, D!Staging,
     D!Tail, D!Pending, D!Written, D!Kept, D!Back, D!Objects, D!Whole
<1>5. D!RefInv'
  BY EntryNames, OwnCommit DEF D!RefInv, D!TypeOK, D!Kept, D!Back, D!Whole
<1>6. D!PullInv'
  BY EntryNames, OwnCommit DEF D!PullInv, D!TypeOK, D!Unmarked, D!Kept, D!Back, D!Objects
<1>7. D!SweepInv'
  BY EntryNames, OwnCommit DEF D!SweepInv, D!TypeOK, D!Open, D!Whole
<1> QED
  BY <1>1, <1>2, <1>3, <1>4, <1>5, <1>6, <1>7 DEF D!Inv

\* The count is of the recorded objects.
LEMMA PresyncCountKeeps ==
  ASSUME D!Inv, NEW u \in D!Fetcher, D!PresyncCount(u)
  PROVE  D!Inv'
PROOF
<1> USE DEF D!Inv, D!fs, D!txn, D!prune, D!bounds, D!history, D!PresyncCount, D!Goes
<1>a. /\ step'[u] = "presync"
      /\ left'[u] = left[u]
      /\ jobs'[u] = jobs[u]
      /\ staged'[u] = staged[u]
      /\ soft'[u] = soft[u]
      /\ presynced'[u] = presynced[u]
      /\ count'[u] = D!Cardinality(staged[u])
      /\ synced'[u] = synced[u]
      /\ renamed'[u] = renamed[u]
  BY DEF D!TypeOK
<1>b. OthersRest(u)
  BY DEF D!TypeOK, OthersRest
<1>c. u \in D!Fetcher /\ D!StageOf(u) /\ D!SoftOf(u) /\ D!FetchOf(u)
  BY DEF D!StageInv, D!SoftInv, D!FetchInv
<1>d. /\ D!IsFiniteSet(staged[u]) /\ D!Cardinality(staged[u]) \in Nat
      /\ \A s : /\ D!Cardinality(staged[u] \ s) \in Nat
                /\ D!Cardinality(staged[u] \ s) <= D!Cardinality(staged[u])
                /\ D!Cardinality(staged[u] \ s) = D!Cardinality(staged[u]) => staged[u] \cap s = {}
  BY <1>c, LessCard DEF D!StageOf
<1>e. presynced[u] \in Nat \cup {NoCount} /\ count[u] \in Nat /\ NoCount \notin Nat
  BY DurabilityAssumption DEF D!TypeOK, D!ConstantsOK
<1>1. D!TypeOK'
  BY EntryNames, OwnCommit, <1>d DEF D!TypeOK, D!Entry, D!Files, D!Job
<1>2. D!StageInv'
  <2>1. D!StageOf(u)'
    BY <1>a, <1>c, OwnCommit DEF D!StageOf, D!Pending, D!Staging
  <2> QED
    BY <2>1, <1>b, StageFrame
<1>3. D!SoftInv'
  <2>1. raw' = {}
    BY DEF D!SoftInv, D!SoftOf
  <2>2. D!SoftOf(u)'
    BY <1>a, <1>c, <1>d DEF D!SoftOf, D!StageOf, D!Staging, D!Tail
  <2> QED
    BY <2>1, <2>2, <1>b, SoftFrame
<1>4. D!FetchInv'
  BY EntryNames, OwnCommit, <1>d DEF D!FetchInv, D!FetchOf, D!StageInv, D!StageOf, D!TypeOK,
     D!Staging, D!Tail, D!Pending, D!Written, D!Kept, D!Back, D!Objects, D!Whole
<1>5. D!RefInv'
  BY EntryNames, OwnCommit, <1>d DEF D!RefInv, D!TypeOK, D!Kept, D!Back, D!Whole
<1>6. D!PullInv'
  BY EntryNames, OwnCommit, <1>d DEF D!PullInv, D!TypeOK, D!Unmarked, D!Kept, D!Back, D!Objects
<1>7. D!SweepInv'
  BY EntryNames, OwnCommit, <1>d DEF D!SweepInv, D!TypeOK, D!Open, D!Whole
<1> QED
  BY <1>1, <1>2, <1>3, <1>4, <1>5, <1>6, <1>7 DEF D!Inv

\* The syncfs of sync_staged covers what was counted.
LEMMA PresyncJobKeeps ==
  ASSUME D!Inv, NEW u \in D!Fetcher, D!PresyncJob(u)
  PROVE  D!Inv'
PROOF
<1> USE DEF D!Inv, D!fs, D!txn, D!prune, D!bounds, D!history, D!PresyncJob, D!Goes, D!Syncfs
<1>a. /\ step'[u] = "counted"
      /\ left'[u] = left[u]
      /\ jobs'[u] = jobs[u]
      /\ staged'[u] = staged[u]
      /\ soft'[u] = {}
      /\ presynced'[u] = presynced[u]
      /\ count'[u] = count[u]
      /\ synced'[u] = synced[u]
      /\ renamed'[u] = renamed[u]
  BY DEF D!TypeOK
<1>b. OthersRest(u)
  BY DEF D!TypeOK, OthersRest
<1>c. u \in D!Fetcher /\ D!StageOf(u) /\ D!SoftOf(u) /\ D!FetchOf(u)
  BY DEF D!StageInv, D!SoftInv, D!FetchInv
<1>d. /\ D!IsFiniteSet(staged[u]) /\ D!Cardinality(staged[u]) \in Nat
      /\ \A s : /\ D!Cardinality(staged[u] \ s) \in Nat
                /\ D!Cardinality(staged[u] \ s) <= D!Cardinality(staged[u])
                /\ D!Cardinality(staged[u] \ s) = D!Cardinality(staged[u]) => staged[u] \cap s = {}
  BY <1>c, LessCard DEF D!StageOf
<1>e. presynced[u] \in Nat \cup {NoCount} /\ count[u] \in Nat /\ NoCount \notin Nat
  BY DurabilityAssumption DEF D!TypeOK, D!ConstantsOK
<1>1. D!TypeOK'
  BY EntryNames, OwnCommit DEF D!TypeOK, D!Entry, D!Files, D!Job
<1>2. D!StageInv'
  <2>1. D!StageOf(u)'
    BY <1>a, <1>c, OwnCommit DEF D!StageOf, D!Pending, D!Staging
  <2> QED
    BY <2>1, <1>b, StageFrame
<1>3. D!SoftInv'
  <2>1. raw' = {}
    BY DEF D!SoftInv, D!SoftOf
  <2>2. D!SoftOf(u)'
    BY <1>a, <1>c, <1>d, <1>e DEF D!SoftOf, D!StageOf, D!Staging, D!Tail
  <2> QED
    BY <2>1, <2>2, <1>b, SoftFrame
<1>4. D!FetchInv'
  BY EntryNames, OwnCommit DEF D!FetchInv, D!FetchOf, D!StageInv, D!StageOf, D!TypeOK, D!Staging,
     D!Tail, D!Pending, D!Written, D!Kept, D!Back, D!Objects, D!Whole
<1>5. D!RefInv'
  BY EntryNames, OwnCommit DEF D!RefInv, D!TypeOK, D!Kept, D!Back, D!Whole
<1>6. D!PullInv'
  BY EntryNames, OwnCommit DEF D!PullInv, D!TypeOK, D!Unmarked, D!Kept, D!Back, D!Objects
<1>7. D!SweepInv'
  BY EntryNames, OwnCommit DEF D!SweepInv, D!TypeOK, D!Open, D!Whole
<1> QED
  BY <1>1, <1>2, <1>3, <1>4, <1>5, <1>6, <1>7 DEF D!Inv

\* The count is stored.
LEMMA PresyncStoreKeeps ==
  ASSUME D!Inv, NEW u \in D!Fetcher, D!PresyncStore(u)
  PROVE  D!Inv'
PROOF
<1> USE DEF D!Inv, D!fs, D!txn, D!prune, D!bounds, D!history, D!PresyncStore, D!Goes, D!Covered
<1>a. /\ step'[u] = "late"
      /\ left'[u] = left[u]
      /\ jobs'[u] = jobs[u]
      /\ staged'[u] = staged[u]
      /\ soft'[u] = soft[u]
      /\ presynced'[u] = count[u]
      /\ count'[u] = count[u]
      /\ synced'[u] = synced[u]
      /\ renamed'[u] = renamed[u]
  BY DEF D!TypeOK
<1>b. OthersRest(u)
  BY DEF D!TypeOK, OthersRest
<1>c. u \in D!Fetcher /\ D!StageOf(u) /\ D!SoftOf(u) /\ D!FetchOf(u)
  BY DEF D!StageInv, D!SoftInv, D!FetchInv
<1>1. D!TypeOK'
  BY EntryNames, OwnCommit DEF D!TypeOK, D!Entry, D!Files, D!Job
<1>2. D!StageInv'
  <2>1. D!StageOf(u)'
    BY <1>a, <1>c, OwnCommit DEF D!StageOf, D!Pending, D!Staging
  <2> QED
    BY <2>1, <1>b, StageFrame
<1>3. D!SoftInv'
  <2>1. raw' = {}
    BY DEF D!SoftInv, D!SoftOf
  <2>2. D!SoftOf(u)'
    BY <1>a, <1>c DEF D!SoftOf, D!StageOf, D!Staging, D!Tail
  <2> QED
    BY <2>1, <2>2, <1>b, SoftFrame
<1>4. D!FetchInv'
  BY EntryNames, OwnCommit DEF D!FetchInv, D!FetchOf, D!StageInv, D!StageOf, D!TypeOK, D!Staging,
     D!Tail, D!Pending, D!Written, D!Kept, D!Back, D!Objects, D!Whole
<1>5. D!RefInv'
  BY EntryNames, OwnCommit DEF D!RefInv, D!TypeOK, D!Kept, D!Back, D!Whole
<1>6. D!PullInv'
  BY EntryNames, OwnCommit DEF D!PullInv, D!TypeOK, D!Unmarked, D!Kept, D!Back, D!Objects
<1>7. D!SweepInv'
  BY EntryNames, OwnCommit DEF D!SweepInv, D!TypeOK, D!Open, D!Whole
<1> QED
  BY <1>1, <1>2, <1>3, <1>4, <1>5, <1>6, <1>7 DEF D!Inv

\* The dict is one more file that the count does not cover.
LEMMA StartCommitKeeps ==
  ASSUME D!Inv, NEW u \in D!Fetcher, D!StartCommit(u)
  PROVE  D!Inv'
PROOF
<1> USE DEF D!Inv, D!fs, D!txn, D!prune, D!bounds, D!history, D!StartCommit, D!Goes
<1>a. /\ step'[u] = "publish"
      /\ left'[u] = left[u]
      /\ jobs'[u] = jobs[u]
      /\ staged'[u] = staged[u]
      /\ soft'[u] = soft[u] \cup ({D!Meta(Wants[u])} \cap {D!Meta(w) : w \in Dict})
      /\ presynced'[u] = presynced[u]
      /\ count'[u] = count[u]
      /\ synced'[u] = synced[u]
      /\ renamed'[u] = renamed[u]
  BY DEF D!TypeOK
<1>b. OthersRest(u)
  BY DEF D!TypeOK, OthersRest
<1>c. u \in D!Fetcher /\ D!StageOf(u) /\ D!SoftOf(u) /\ D!FetchOf(u)
  BY DEF D!StageInv, D!SoftInv, D!FetchInv
<1>d. /\ D!IsFiniteSet(staged[u]) /\ D!Cardinality(staged[u]) \in Nat
      /\ \A s : /\ D!Cardinality(staged[u] \ s) \in Nat
                /\ D!Cardinality(staged[u] \ s) <= D!Cardinality(staged[u])
                /\ D!Cardinality(staged[u] \ s) = D!Cardinality(staged[u]) => staged[u] \cap s = {}
  BY <1>c, LessCard DEF D!StageOf
<1>e. presynced[u] \in Nat \cup {NoCount} /\ count[u] \in Nat /\ NoCount \notin Nat
  BY DurabilityAssumption DEF D!TypeOK, D!ConstantsOK
<1>f. staged[u] \ soft'[u] = staged[u] \ soft[u]
  BY <1>a, EntryNames, OwnCommit DEF D!TypeOK
<1>1. D!TypeOK'
  BY EntryNames, OwnCommit DEF D!TypeOK, D!Entry, D!Files, D!Job
<1>2. D!StageInv'
  <2>1. D!StageOf(u)'
    BY <1>a, <1>c, OwnCommit DEF D!StageOf, D!Pending, D!Staging
  <2> QED
    BY <2>1, <1>b, StageFrame
<1>3. D!SoftInv'
  <2>1. raw' = {}
    BY DEF D!SoftInv, D!SoftOf
  <2>2. D!SoftOf(u)'
    BY <1>a, <1>c, <1>f DEF D!SoftOf, D!StageOf, D!Staging, D!Tail
  <2> QED
    BY <2>1, <2>2, <1>b, SoftFrame
<1>4. D!FetchInv'
  BY EntryNames, OwnCommit DEF D!FetchInv, D!FetchOf, D!StageInv, D!StageOf, D!TypeOK, D!Staging,
     D!Tail, D!Pending, D!Written, D!Kept, D!Back, D!Objects, D!Whole
<1>5. D!RefInv'
  BY EntryNames, OwnCommit DEF D!RefInv, D!TypeOK, D!Kept, D!Back, D!Whole
<1>6. D!PullInv'
  BY EntryNames, OwnCommit DEF D!PullInv, D!TypeOK, D!Unmarked, D!Kept, D!Back, D!Objects
<1>7. D!SweepInv'
  BY EntryNames, OwnCommit DEF D!SweepInv, D!TypeOK, D!Open, D!Whole
<1> QED
  BY <1>1, <1>2, <1>3, <1>4, <1>5, <1>6, <1>7 DEF D!Inv

\* With nothing staged, the objects are durable, or found.
LEMMA PublishNothingKeeps ==
  ASSUME D!Inv, NEW u \in D!Fetcher, D!PublishNothing(u)
  PROVE  D!Inv'
PROOF
<1> USE DEF D!Inv, D!fs, D!txn, D!prune, D!bounds, D!history, D!PublishNothing, D!Goes
<1>a. /\ step'[u] = "detached"
      /\ left'[u] = left[u]
      /\ jobs'[u] = jobs[u]
      /\ staged'[u] = staged[u]
      /\ soft'[u] = soft[u]
      /\ presynced'[u] = presynced[u]
      /\ count'[u] = count[u]
      /\ synced'[u] = synced[u]
      /\ renamed'[u] = renamed[u]
  BY DEF D!TypeOK
<1>b. OthersRest(u)
  BY DEF D!TypeOK, OthersRest
<1>c. u \in D!Fetcher /\ D!StageOf(u) /\ D!SoftOf(u) /\ D!FetchOf(u)
  BY DEF D!StageInv, D!SoftInv, D!FetchInv
<1>1. D!TypeOK'
  BY EntryNames, OwnCommit DEF D!TypeOK, D!Entry, D!Files, D!Job
<1>2. D!StageInv'
  <2>1. D!StageOf(u)'
    BY <1>a, <1>c, OwnCommit DEF D!StageOf, D!Pending, D!Staging
  <2> QED
    BY <2>1, <1>b, StageFrame
<1>3. D!SoftInv'
  <2>1. raw' = {}
    BY DEF D!SoftInv, D!SoftOf
  <2>2. D!SoftOf(u)'
    BY <1>a, <1>c DEF D!SoftOf, D!StageOf, D!Staging, D!Tail
  <2> QED
    BY <2>1, <2>2, <1>b, SoftFrame
<1>4. D!FetchInv'
  BY EntryNames, OwnCommit DEF D!FetchInv, D!FetchOf, D!StageInv, D!StageOf, D!TypeOK, D!Staging,
     D!Tail, D!Pending, D!Written, D!Kept, D!Back, D!Objects, D!Whole
<1>5. D!RefInv'
  BY EntryNames, OwnCommit DEF D!RefInv, D!TypeOK, D!Kept, D!Back, D!Whole
<1>6. D!PullInv'
  BY EntryNames, OwnCommit DEF D!PullInv, D!TypeOK, D!Unmarked, D!Kept, D!Back, D!Objects
<1>7. D!SweepInv'
  BY EntryNames, OwnCommit DEF D!SweepInv, D!TypeOK, D!Open, D!Whole
<1> QED
  BY <1>1, <1>2, <1>3, <1>4, <1>5, <1>6, <1>7 DEF D!Inv

\* The syncfs, or the count that lets publish skip it, covers each staged object.
LEMMA PublishSyncKeeps ==
  ASSUME D!Inv, NEW u \in D!Fetcher, D!PublishSync(u)
  PROVE  D!Inv'
PROOF
<1> USE DEF D!Inv, D!fs, D!txn, D!prune, D!bounds, D!history, D!PublishSync, D!Goes, D!Syncfs,
        D!SyncfsAtPublish
<1>a. /\ step'[u] = "rename"
      /\ left'[u] = left[u]
      /\ jobs'[u] = jobs[u]
      /\ staged'[u] = staged[u]
      /\ soft'[u] = IF D!SyncfsAtPublish(u) THEN {} ELSE soft[u]
      /\ presynced'[u] = presynced[u]
      /\ count'[u] = count[u]
      /\ synced'[u] = D!SyncfsAtPublish(u)
      /\ renamed'[u] = renamed[u]
  BY DEF D!TypeOK
<1>b. OthersRest(u)
  BY DEF D!TypeOK, OthersRest
<1>c. u \in D!Fetcher /\ D!StageOf(u) /\ D!SoftOf(u) /\ D!FetchOf(u)
  BY DEF D!StageInv, D!SoftInv, D!FetchInv
<1>d. /\ D!IsFiniteSet(staged[u]) /\ D!Cardinality(staged[u]) \in Nat
      /\ \A s : /\ D!Cardinality(staged[u] \ s) \in Nat
                /\ D!Cardinality(staged[u] \ s) <= D!Cardinality(staged[u])
                /\ D!Cardinality(staged[u] \ s) = D!Cardinality(staged[u]) => staged[u] \cap s = {}
  BY <1>c, LessCard DEF D!StageOf
<1>e. presynced[u] \in Nat \cup {NoCount} /\ count[u] \in Nat /\ NoCount \notin Nat
  BY DurabilityAssumption DEF D!TypeOK, D!ConstantsOK
<1>f. ~D!SyncfsAtPublish(u) => staged[u] \cap soft[u] = {}
  BY <1>c, <1>d, <1>e DEF D!SoftOf, D!SyncfsAtPublish
<1>g. D!SyncfsAtPublish(u) => soft'[u] = {}
  BY <1>a
<1>h. ~D!SyncfsAtPublish(u) => soft'[u] = soft[u] /\ synced'[u] = FALSE
  BY <1>a
<1>1. D!TypeOK'
  BY EntryNames, OwnCommit DEF D!TypeOK, D!Entry, D!Files, D!Job
<1>2. D!StageInv'
  <2>1. D!StageOf(u)'
    BY <1>a, <1>c, OwnCommit DEF D!StageOf, D!Pending, D!Staging
  <2> QED
    BY <2>1, <1>b, StageFrame
<1>3. D!SoftInv'
  <2>1. raw' = {}
    BY DEF D!SoftInv
  <2>2. D!SoftOf(u)'
    <3>1. CASE D!SyncfsAtPublish(u)
      BY <3>1, <1>a, <1>c, <1>d, <1>e, <1>g DEF D!SoftOf, D!StageOf, D!Staging, D!Tail
    <3>2. CASE ~D!SyncfsAtPublish(u)
      BY <3>2, <1>a, <1>c, <1>f, <1>h DEF D!SoftOf, D!StageOf, D!Staging, D!Tail
    <3> QED
      BY <3>1, <3>2
  <2> QED
    BY <2>1, <2>2, <1>b, SoftFrame
<1>4. D!FetchInv'
  <2>1. u \in Puller => D!SyncfsAtPublish(u)
    BY <1>c, <1>d, <1>e, OwnCommit DEF D!StageOf
  <2>2. /\ vis' = vis /\ sure \subseteq sure' /\ (u \in Puller => sure' = vis)
        /\ \A w \in Stored : D!Ref(w) \in may' \ revived' => D!Ref(w) \in may \ revived
    BY <2>1 DEF D!TypeOK
  <2>3. \A w \in Stored : D!Back(w) => D!Back(w)'
    BY DEF D!Back, D!TypeOK
  <2>4. sure \cup borrowed \subseteq sure' \cup borrowed'
    BY DEF D!TypeOK
  <2>5. D!Pending(u)' = D!Pending(u) /\ D!Written(u)' = D!Written(u) /\ D!Pending(u) # {}
    BY <1>a DEF D!Pending, D!Written
  <2>6. D!FetchOf(u)'
    <3>1. u \in Puller => D!Marker(Wants[u]) \in sure'
      BY <1>c, <2>2, <2>5 DEF D!FetchOf
    <3>2. renamed'[u] = {}
      BY <1>a, <1>c DEF D!StageOf
    <3> QED
      BY <1>a, <1>c, <2>2, <2>3, <2>4, <2>5, <3>1, <3>2, OwnCommit DEF D!FetchOf, D!Tail, D!Kept
  <2> QED
    BY <1>b, <2>2, <2>3, <2>4, <2>6, OwnCommit, FetchFrame DEF D!Kept
<1>5. D!RefInv'
  BY EntryNames, OwnCommit DEF D!RefInv, D!TypeOK, D!Kept, D!Back, D!Whole
<1>6. D!PullInv'
  BY EntryNames, OwnCommit DEF D!PullInv, D!TypeOK, D!Unmarked, D!Kept, D!Back, D!Objects
<1>7. D!SweepInv'
  BY EntryNames, OwnCommit DEF D!SweepInv, D!TypeOK, D!Open, D!Whole
<1> QED
  BY <1>1, <1>2, <1>3, <1>4, <1>5, <1>6, <1>7 DEF D!Inv

\* A commit of a pull gets its name after its marker is durable.
LEMMA RenameObjectKeeps ==
  ASSUME D!Inv, NEW u \in D!Fetcher, NEW o \in D!Object, D!RenameObject(u, o)
  PROVE  D!Inv'
PROOF
<1> USE DEF D!Inv, D!fs, D!txn, D!prune, D!bounds, D!history, D!RenameObject, D!Rename, D!Create
<1>a. /\ step'[u] = step[u]
      /\ left'[u] = left[u]
      /\ jobs'[u] = jobs[u]
      /\ staged'[u] = staged[u]
      /\ soft'[u] = soft[u]
      /\ presynced'[u] = presynced[u]
      /\ count'[u] = count[u]
      /\ synced'[u] = synced[u]
      /\ renamed'[u] = renamed[u] \cup {o}
  BY DEF D!TypeOK
<1>b. OthersRest(u)
  BY DEF D!TypeOK, OthersRest
<1>c. u \in D!Fetcher /\ D!StageOf(u) /\ D!SoftOf(u) /\ D!FetchOf(u)
  BY DEF D!StageInv, D!SoftInv, D!FetchInv
<1>1. D!TypeOK'
  BY EntryNames, OwnCommit DEF D!TypeOK, D!Entry, D!Files, D!Job
<1>2. D!StageInv'
  <2>1. D!StageOf(u)'
    BY <1>a, <1>c, OwnCommit DEF D!StageOf, D!Pending, D!Staging
  <2> QED
    BY <2>1, <1>b, StageFrame
<1>3. D!SoftInv'
  <2>1. raw' = {}
    BY DEF D!SoftInv, D!SoftOf
  <2>2. D!SoftOf(u)'
    BY <1>a, <1>c DEF D!SoftOf, D!StageOf, D!Staging, D!Tail
  <2> QED
    BY <2>1, <2>2, <1>b, SoftFrame
<1>4. D!FetchInv'
  BY EntryNames, OwnCommit DEF D!FetchInv, D!FetchOf, D!StageInv, D!StageOf, D!TypeOK, D!Staging,
     D!Tail, D!Pending, D!Written, D!Kept, D!Back, D!Objects, D!Whole
<1>5. D!RefInv'
  BY EntryNames, OwnCommit DEF D!RefInv, D!TypeOK, D!Kept, D!Back, D!Whole
<1>6. D!PullInv'
  <2>1. o \in Stored => o = Wants[u]
    BY <1>c, EntryNames, OwnCommit DEF D!StageOf, D!Pending, D!Objects
  <2>2. u \in Puller => D!Marker(Wants[u]) \in sure
    BY <1>c DEF D!FetchOf
  <2> QED
    BY <2>1, <2>2, <1>a, EntryNames, OwnCommit DEF D!PullInv, D!TypeOK, D!Unmarked, D!Kept,
       D!Back, D!Objects
<1>7. D!SweepInv'
  BY EntryNames, OwnCommit DEF D!SweepInv, D!TypeOK, D!Open, D!Whole
<1> QED
  BY <1>1, <1>2, <1>3, <1>4, <1>5, <1>6, <1>7 DEF D!Inv

\* The names of the objects are durable when publish ends.
LEMMA SyncObjectsKeeps ==
  ASSUME D!Inv, NEW u \in D!Fetcher, D!SyncObjects(u)
  PROVE  D!Inv'
PROOF
<1> USE DEF D!Inv, D!fs, D!txn, D!prune, D!bounds, D!history, D!SyncObjects, D!SyncDirs,
        D!Fanouts, D!Goes
<1>a. /\ step'[u] = "detached"
      /\ left'[u] = left[u]
      /\ jobs'[u] = jobs[u]
      /\ staged'[u] = staged[u]
      /\ soft'[u] = soft[u]
      /\ presynced'[u] = presynced[u]
      /\ count'[u] = count[u]
      /\ synced'[u] = synced[u]
      /\ renamed'[u] = renamed[u]
  BY DEF D!TypeOK
<1>b. OthersRest(u)
  BY DEF D!TypeOK, OthersRest
<1>c. u \in D!Fetcher /\ D!StageOf(u) /\ D!SoftOf(u) /\ D!FetchOf(u)
  BY DEF D!StageInv, D!SoftInv, D!FetchInv
<1>1. D!TypeOK'
  BY EntryNames, OwnCommit DEF D!TypeOK, D!Entry, D!Files, D!Job
<1>2. D!StageInv'
  <2>1. D!StageOf(u)'
    BY <1>a, <1>c, OwnCommit DEF D!StageOf, D!Pending, D!Staging
  <2> QED
    BY <2>1, <1>b, StageFrame
<1>3. D!SoftInv'
  <2>1. raw' = {}
    BY DEF D!SoftInv, D!SoftOf
  <2>2. D!SoftOf(u)'
    BY <1>a, <1>c DEF D!SoftOf, D!StageOf, D!Staging, D!Tail
  <2> QED
    BY <2>1, <2>2, <1>b, SoftFrame
<1>4. D!FetchInv'
  BY EntryNames, OwnCommit DEF D!FetchInv, D!FetchOf, D!StageInv, D!StageOf, D!TypeOK, D!Staging,
     D!Tail, D!Pending, D!Written, D!Kept, D!Back, D!Objects, D!Whole
<1>5. D!RefInv'
  <2>1. \A w \in Stored \cap renamed[u] : w = Wants[u] /\ w \in D!Written(u)
    BY <1>c, EntryNames, OwnCommit DEF D!StageOf, D!Pending, D!Written, D!Objects
  <2>2. renamed[u] \subseteq vis /\ renamed[u] \subseteq D!Object
    BY <1>c DEF D!FetchOf, D!TypeOK
  <2>3. \A w \in Stored : D!Kept(D!Whole(w)) => D!Kept(D!Whole(w))'
    BY <2>2 DEF D!Kept
  <2>4. \A w \in Stored \ renamed[u] : D!Back(w) => D!Back(w)'
    BY DEF D!Back
  <2>5. \A w \in Stored : D!Ref(w) \in may' \ revived' => D!Ref(w) \in may \ revived
    BY <2>2, EntryNames
  <2>6. \A w \in Stored \cap renamed[u] : D!Ref(w) \in may \ revived => D!Kept(D!Whole(w))
    BY <2>1, <1>c DEF D!FetchOf
  <2> QED
    BY <2>3, <2>4, <2>5, <2>6 DEF D!RefInv
<1>6. D!PullInv'
  <2>1. \A w \in Stored \cap renamed[u] : w = Wants[u] /\ w \in D!Written(u)
    BY <1>c, EntryNames, OwnCommit DEF D!StageOf, D!Pending, D!Written, D!Objects
  <2>2. renamed[u] \subseteq vis /\ renamed[u] \subseteq D!Object
    BY <1>c DEF D!FetchOf, D!TypeOK
  <2>3. u \in Puller => D!Marker(Wants[u]) \in sure /\ ~D!Unmarked(u)
    BY <1>c DEF D!FetchOf, D!Unmarked, D!TypeOK
  <2>4. \A v \in Puller : D!Unmarked(v)' = D!Unmarked(v)
    BY <1>a, <1>b DEF OthersRest, D!Unmarked
  <2>5. \A s : D!Kept(s) => D!Kept(s)'
    BY <2>2 DEF D!Kept
  <2>6. \A w \in Stored \ renamed[u] :
          /\ D!Back(w) => D!Back(w)'
          /\ w \in may' \ revived' => w \in may \ revived
    BY DEF D!Back, D!TypeOK
  <2> QED
    BY <2>1, <2>3, <2>4, <2>5, <2>6, OwnCommit DEF D!PullInv
<1>7. D!SweepInv'
  BY EntryNames, OwnCommit DEF D!SweepInv, D!TypeOK, D!Open, D!Whole
<1> QED
  BY <1>1, <1>2, <1>3, <1>4, <1>5, <1>6, <1>7 DEF D!Inv

\* The data of the dict is durable before its rename.
LEMMA SyncDetachedKeeps ==
  ASSUME D!Inv, NEW u \in D!Fetcher, D!SyncDetached(u)
  PROVE  D!Inv'
PROOF
<1> USE DEF D!Inv, D!fs, D!txn, D!prune, D!bounds, D!history, D!SyncDetached, D!Syncfs,
        D!StagedDurable, D!Goes
<1>a. /\ step'[u] = "install"
      /\ left'[u] = left[u]
      /\ jobs'[u] = jobs[u]
      /\ staged'[u] = staged[u]
      /\ soft'[u] = IF synced[u] THEN soft[u] ELSE {}
      /\ presynced'[u] = presynced[u]
      /\ count'[u] = count[u]
      /\ synced'[u] = synced[u]
      /\ renamed'[u] = renamed[u]
  BY DEF D!TypeOK
<1>b. OthersRest(u)
  BY DEF D!TypeOK, OthersRest
<1>c. u \in D!Fetcher /\ D!StageOf(u) /\ D!SoftOf(u) /\ D!FetchOf(u)
  BY DEF D!StageInv, D!SoftInv, D!FetchInv
<1>d. /\ D!IsFiniteSet(staged[u]) /\ D!Cardinality(staged[u]) \in Nat
      /\ \A s : /\ D!Cardinality(staged[u] \ s) \in Nat
                /\ D!Cardinality(staged[u] \ s) <= D!Cardinality(staged[u])
                /\ D!Cardinality(staged[u] \ s) = D!Cardinality(staged[u]) => staged[u] \cap s = {}
  BY <1>c, LessCard DEF D!StageOf
<1>e. presynced[u] \in Nat \cup {NoCount} /\ count[u] \in Nat /\ NoCount \notin Nat
  BY DurabilityAssumption DEF D!TypeOK, D!ConstantsOK
<1>f. soft'[u] = {} /\ staged[u] \ {} = staged[u]
  BY <1>a, <1>c DEF D!SoftOf
<1>g. presynced[u] # NoCount => presynced[u] <= D!Cardinality(staged[u])
  BY <1>c, <1>d, <1>e DEF D!SoftOf
<1>h. (left[u] = {} /\ jobs[u] = {})'
  BY <1>a, <1>c DEF D!StageOf, D!Staging
<1>1. D!TypeOK'
  BY EntryNames, OwnCommit DEF D!TypeOK, D!Entry, D!Files, D!Job
<1>2. D!StageInv'
  <2>1. D!StageOf(u)'
    BY <1>a, <1>c, OwnCommit DEF D!StageOf, D!Pending, D!Staging
  <2> QED
    BY <2>1, <1>b, StageFrame
<1>3. D!SoftInv'
  <2>1. raw' = {}
    BY DEF D!SoftInv
  <2>2. D!SoftOf(u)'
    BY <1>a, <1>f, <1>g, <1>h DEF D!SoftOf, D!Tail
  <2> QED
    BY <2>1, <2>2, <1>b, SoftFrame
<1>4. D!FetchInv'
  BY EntryNames, OwnCommit DEF D!FetchInv, D!FetchOf, D!StageInv, D!StageOf, D!TypeOK, D!Staging,
     D!Tail, D!Pending, D!Written, D!Kept, D!Back, D!Objects, D!Whole
<1>5. D!RefInv'
  BY EntryNames, OwnCommit DEF D!RefInv, D!TypeOK, D!Kept, D!Back, D!Whole
<1>6. D!PullInv'
  BY EntryNames, OwnCommit DEF D!PullInv, D!TypeOK, D!Unmarked, D!Kept, D!Back, D!Objects
<1>7. D!SweepInv'
  BY EntryNames, OwnCommit DEF D!SweepInv, D!TypeOK, D!Open, D!Whole
<1> QED
  BY <1>1, <1>2, <1>3, <1>4, <1>5, <1>6, <1>7 DEF D!Inv

\* The dict gets its name.
LEMMA InstallDetachedKeeps ==
  ASSUME D!Inv, NEW u \in D!Fetcher, D!InstallDetached(u)
  PROVE  D!Inv'
PROOF
<1> USE DEF D!Inv, D!fs, D!txn, D!prune, D!bounds, D!history, D!InstallDetached, D!Rename,
        D!Create, D!Goes
<1>a. /\ step'[u] = "installed"
      /\ left'[u] = left[u]
      /\ jobs'[u] = jobs[u]
      /\ staged'[u] = staged[u]
      /\ soft'[u] = soft[u]
      /\ presynced'[u] = presynced[u]
      /\ count'[u] = count[u]
      /\ synced'[u] = synced[u]
      /\ renamed'[u] = renamed[u]
  BY DEF D!TypeOK
<1>b. OthersRest(u)
  BY DEF D!TypeOK, OthersRest
<1>c. u \in D!Fetcher /\ D!StageOf(u) /\ D!SoftOf(u) /\ D!FetchOf(u)
  BY DEF D!StageInv, D!SoftInv, D!FetchInv
<1>1. D!TypeOK'
  BY EntryNames, OwnCommit DEF D!TypeOK, D!Entry, D!Files, D!Job
<1>2. D!StageInv'
  <2>1. D!StageOf(u)'
    BY <1>a, <1>c, OwnCommit DEF D!StageOf, D!Pending, D!Staging
  <2> QED
    BY <2>1, <1>b, StageFrame
<1>3. D!SoftInv'
  <2>1. raw' = {}
    BY DEF D!SoftInv, D!SoftOf
  <2>2. D!SoftOf(u)'
    BY <1>a, <1>c DEF D!SoftOf, D!StageOf, D!Staging, D!Tail
  <2> QED
    BY <2>1, <2>2, <1>b, SoftFrame
<1>4. D!FetchInv'
  BY EntryNames, OwnCommit DEF D!FetchInv, D!FetchOf, D!StageInv, D!StageOf, D!TypeOK, D!Staging,
     D!Tail, D!Pending, D!Written, D!Kept, D!Back, D!Objects, D!Whole
<1>5. D!RefInv'
  BY EntryNames, OwnCommit DEF D!RefInv, D!TypeOK, D!Kept, D!Back, D!Whole
<1>6. D!PullInv'
  BY EntryNames, OwnCommit DEF D!PullInv, D!TypeOK, D!Unmarked, D!Kept, D!Back, D!Objects
<1>7. D!SweepInv'
  BY EntryNames, OwnCommit DEF D!SweepInv, D!TypeOK, D!Open, D!Whole
<1> QED
  BY <1>1, <1>2, <1>3, <1>4, <1>5, <1>6, <1>7 DEF D!Inv

\* The name of the dict is durable before the ref.
LEMMA SyncFanoutKeeps ==
  ASSUME D!Inv, NEW u \in D!Fetcher, D!SyncFanout(u)
  PROVE  D!Inv'
PROOF
<1> USE DEF D!Inv, D!fs, D!txn, D!prune, D!bounds, D!history, D!SyncFanout, D!SyncDirs, D!Goes
<1>a. /\ step'[u] = "refs"
      /\ left'[u] = left[u]
      /\ jobs'[u] = jobs[u]
      /\ staged'[u] = staged[u]
      /\ soft'[u] = soft[u]
      /\ presynced'[u] = presynced[u]
      /\ count'[u] = count[u]
      /\ synced'[u] = synced[u]
      /\ renamed'[u] = renamed[u]
  BY DEF D!TypeOK
<1>b. OthersRest(u)
  BY DEF D!TypeOK, OthersRest
<1>c. u \in D!Fetcher /\ D!StageOf(u) /\ D!SoftOf(u) /\ D!FetchOf(u)
  BY DEF D!StageInv, D!SoftInv, D!FetchInv
<1>1. D!TypeOK'
  BY EntryNames, OwnCommit DEF D!TypeOK, D!Entry, D!Files, D!Job
<1>2. D!StageInv'
  <2>1. D!StageOf(u)'
    BY <1>a, <1>c, OwnCommit DEF D!StageOf, D!Pending, D!Staging
  <2> QED
    BY <2>1, <1>b, StageFrame
<1>3. D!SoftInv'
  <2>1. raw' = {}
    BY DEF D!SoftInv, D!SoftOf
  <2>2. D!SoftOf(u)'
    BY <1>a, <1>c DEF D!SoftOf, D!StageOf, D!Staging, D!Tail
  <2> QED
    BY <2>1, <2>2, <1>b, SoftFrame
<1>4. D!FetchInv'
  BY EntryNames, OwnCommit DEF D!FetchInv, D!FetchOf, D!StageInv, D!StageOf, D!TypeOK, D!Staging,
     D!Tail, D!Pending, D!Written, D!Kept, D!Back, D!Objects, D!Whole
<1>5. D!RefInv'
  BY EntryNames, OwnCommit DEF D!RefInv, D!TypeOK, D!Kept, D!Back, D!Whole
<1>6. D!PullInv'
  BY EntryNames, OwnCommit DEF D!PullInv, D!TypeOK, D!Unmarked, D!Kept, D!Back, D!Objects
<1>7. D!SweepInv'
  BY EntryNames, OwnCommit DEF D!SweepInv, D!TypeOK, D!Open, D!Whole
<1> QED
  BY <1>1, <1>2, <1>3, <1>4, <1>5, <1>6, <1>7 DEF D!Inv

\* A ref is written when what it names is durable.
LEMMA WriteRefKeeps ==
  ASSUME D!Inv, NEW u \in D!Fetcher, D!WriteRef(u)
  PROVE  D!Inv'
PROOF
<1> USE DEF D!Inv, D!fs, D!txn, D!prune, D!bounds, D!history, D!WriteRef, D!Create, D!Goes
<1>a. /\ step'[u] = "refsync"
      /\ left'[u] = left[u]
      /\ jobs'[u] = jobs[u]
      /\ staged'[u] = staged[u]
      /\ soft'[u] = soft[u]
      /\ presynced'[u] = presynced[u]
      /\ count'[u] = count[u]
      /\ synced'[u] = synced[u]
      /\ renamed'[u] = renamed[u]
  BY DEF D!TypeOK
<1>b. OthersRest(u)
  BY DEF D!TypeOK, OthersRest
<1>c. u \in D!Fetcher /\ D!StageOf(u) /\ D!SoftOf(u) /\ D!FetchOf(u)
  BY DEF D!StageInv, D!SoftInv, D!FetchInv
<1>1. D!TypeOK'
  BY EntryNames, OwnCommit DEF D!TypeOK, D!Entry, D!Files, D!Job
<1>2. D!StageInv'
  <2>1. D!StageOf(u)'
    BY <1>a, <1>c, OwnCommit DEF D!StageOf, D!Pending, D!Staging
  <2> QED
    BY <2>1, <1>b, StageFrame
<1>3. D!SoftInv'
  <2>1. raw' = {}
    BY DEF D!SoftInv, D!SoftOf
  <2>2. D!SoftOf(u)'
    BY <1>a, <1>c DEF D!SoftOf, D!StageOf, D!Staging, D!Tail
  <2> QED
    BY <2>1, <2>2, <1>b, SoftFrame
<1>4. D!FetchInv'
  BY EntryNames, OwnCommit DEF D!FetchInv, D!FetchOf, D!StageInv, D!StageOf, D!TypeOK, D!Staging,
     D!Tail, D!Pending, D!Written, D!Kept, D!Back, D!Objects, D!Whole
<1>5. D!RefInv'
  <2>1. D!Kept(D!Objects(Wants[u])) \/ D!Back(Wants[u])
    BY <1>c DEF D!FetchOf, D!Tail
  <2>2. Wants[u] \in Dict => D!Meta(Wants[u]) \in sure
    BY <1>c DEF D!FetchOf
  <2>3. D!Kept(D!Whole(Wants[u])) \/ D!Back(Wants[u])
    BY <2>1, <2>2 DEF D!Whole, D!Objects, D!Kept
  <2> QED
    BY <2>3, EntryNames, OwnCommit DEF D!RefInv, D!Kept, D!Back
<1>6. D!PullInv'
  BY EntryNames, OwnCommit DEF D!PullInv, D!TypeOK, D!Unmarked, D!Kept, D!Back, D!Objects
<1>7. D!SweepInv'
  BY EntryNames, OwnCommit DEF D!SweepInv, D!TypeOK, D!Open, D!Whole
<1> QED
  BY <1>1, <1>2, <1>3, <1>4, <1>5, <1>6, <1>7 DEF D!Inv

\* The marker goes after the refs are durable.
LEMMA SyncRefsKeeps ==
  ASSUME D!Inv, NEW u \in D!Fetcher, D!SyncRefs(u)
  PROVE  D!Inv'
PROOF
<1> USE DEF D!Inv, D!fs, D!txn, D!prune, D!bounds, D!history, D!SyncRefs, D!SyncDirs, D!Ends, D!Goes
<1>a. /\ step'[u] = IF u \in Puller THEN "unmark" ELSE "idle"
      /\ left'[u] = {}
      /\ jobs'[u] = {}
      /\ staged'[u] = {}
      /\ soft'[u] = {}
      /\ presynced'[u] = NoCount
      /\ count'[u] = 0
      /\ synced'[u] = FALSE
      /\ renamed'[u] = {}
  BY DEF D!TypeOK
<1>b. OthersRest(u)
  BY DEF D!TypeOK, OthersRest
<1>c. u \in D!Fetcher /\ D!StageOf(u) /\ D!SoftOf(u) /\ D!FetchOf(u)
  BY DEF D!StageInv, D!SoftInv, D!FetchInv
<1>1. D!TypeOK'
  BY EntryNames, OwnCommit DEF D!TypeOK, D!Entry, D!Files, D!Job
<1>2. D!StageInv'
  <2>1. D!StageOf(u)'
    BY <1>a, <1>c, OwnCommit, DEmptySet DEF D!StageOf, D!Pending, D!Staging
  <2> QED
    BY <2>1, <1>b, StageFrame
<1>3. D!SoftInv'
  <2>1. raw' = {}
    BY DEF D!SoftInv, D!SoftOf
  <2>2. D!SoftOf(u)'
    BY <1>a, <1>c DEF D!SoftOf, D!StageOf, D!Staging, D!Tail
  <2> QED
    BY <2>1, <2>2, <1>b, SoftFrame
<1>4. D!FetchInv'
  BY EntryNames, OwnCommit DEF D!FetchInv, D!FetchOf, D!StageInv, D!StageOf, D!TypeOK, D!Staging,
     D!Tail, D!Pending, D!Written, D!Kept, D!Back, D!Objects, D!Whole
<1>5. D!RefInv'
  <2>1. D!Kept(D!Objects(Wants[u])) \/ D!Back(Wants[u])
    BY <1>c DEF D!FetchOf, D!Tail
  <2>2. Wants[u] \in Dict => D!Meta(Wants[u]) \in sure
    BY <1>c DEF D!FetchOf
  <2>3. D!Kept(D!Whole(Wants[u])) \/ D!Back(Wants[u])
    BY <2>1, <2>2 DEF D!Whole, D!Objects, D!Kept
  <2>4. D!Ref(Wants[u]) \notin D!Object \cup D!Metas
    BY EntryNames, OwnCommit
  <2>5. \A w \in Stored : (D!Kept(D!Whole(w)) => D!Kept(D!Whole(w))') /\ (D!Back(w) => D!Back(w)')
    BY <2>4, EntryNames, OwnCommit DEF D!Kept, D!Back, D!Whole
  <2>6. \A w \in Stored : w # Wants[u] /\ D!Ref(w) \in may' \ revived' => D!Ref(w) \in may \ revived
    BY EntryNames, OwnCommit DEF D!TypeOK
  <2> QED
    BY <2>3, <2>5, <2>6, OwnCommit DEF D!RefInv
<1>6. D!PullInv'
  <2>1. D!Kept(D!Objects(Wants[u])) \/ D!Back(Wants[u])
    BY <1>c DEF D!FetchOf, D!Tail
  <2>4. D!Ref(Wants[u]) \notin D!Object \cup D!Markers
    BY EntryNames, OwnCommit
  <2>5. \A w \in Stored : /\ D!Kept(D!Objects(w)) => D!Kept(D!Objects(w))'
                          /\ D!Kept(Tree[w]) => D!Kept(Tree[w])'
                          /\ D!Back(w) => D!Back(w)'
    BY <2>4, EntryNames, OwnCommit DEF D!Kept, D!Back, D!Objects
  <2>6. \A w \in Stored : w \in may' \ revived' => w \in may \ revived
    BY <2>4, EntryNames DEF D!TypeOK
  <2>7. D!Kept(D!Objects(Wants[u])) => D!Kept(Tree[Wants[u]])
    BY DEF D!Kept, D!Objects
  <2>8. \A v \in Puller \ {u} : D!Unmarked(v)' = D!Unmarked(v)
    BY <1>b, OwnCommit DEF OthersRest, D!Unmarked
  <2>9. \A w \in Stored : D!Marker(w) \in vis' <=> D!Marker(w) \in vis
    OBVIOUS
  <2> QED
    BY <2>1, <2>5, <2>6, <2>7, <2>8, <2>9, OwnCommit DEF D!PullInv, D!Back
<1>7. D!SweepInv'
  BY EntryNames, OwnCommit DEF D!SweepInv, D!TypeOK, D!Open, D!Whole
<1> QED
  BY <1>1, <1>2, <1>3, <1>4, <1>5, <1>6, <1>7 DEF D!Inv

\* A commit without its marker is whole.
LEMMA UnmarkKeeps ==
  ASSUME D!Inv, NEW u \in D!Fetcher, D!Unmark(u)
  PROVE  D!Inv'
PROOF
<1> USE DEF D!Inv, D!fs, D!txn, D!prune, D!bounds, D!history, D!Unmark, D!Unlink, D!Goes
<1>a. /\ step'[u] = "idle"
      /\ left'[u] = left[u]
      /\ jobs'[u] = jobs[u]
      /\ staged'[u] = staged[u]
      /\ soft'[u] = soft[u]
      /\ presynced'[u] = presynced[u]
      /\ count'[u] = count[u]
      /\ synced'[u] = synced[u]
      /\ renamed'[u] = renamed[u]
  BY DEF D!TypeOK
<1>b. OthersRest(u)
  BY DEF D!TypeOK, OthersRest
<1>c. u \in D!Fetcher /\ D!StageOf(u) /\ D!SoftOf(u) /\ D!FetchOf(u)
  BY DEF D!StageInv, D!SoftInv, D!FetchInv
<1>1. D!TypeOK'
  BY EntryNames, OwnCommit DEF D!TypeOK, D!Entry, D!Files, D!Job
<1>2. D!StageInv'
  <2>1. D!StageOf(u)'
    BY <1>a, <1>c, OwnCommit DEF D!StageOf, D!Pending, D!Staging
  <2> QED
    BY <2>1, <1>b, StageFrame
<1>3. D!SoftInv'
  <2>1. raw' = {}
    BY DEF D!SoftInv, D!SoftOf
  <2>2. D!SoftOf(u)'
    BY <1>a, <1>c DEF D!SoftOf, D!StageOf, D!Staging, D!Tail
  <2> QED
    BY <2>1, <2>2, <1>b, SoftFrame
<1>4. D!FetchInv'
  BY EntryNames, OwnCommit DEF D!FetchInv, D!FetchOf, D!StageInv, D!StageOf, D!TypeOK, D!Staging,
     D!Tail, D!Pending, D!Written, D!Kept, D!Back, D!Objects, D!Whole
<1>5. D!RefInv'
  BY EntryNames, OwnCommit DEF D!RefInv, D!TypeOK, D!Kept, D!Back, D!Whole
<1>6. D!PullInv'
  BY EntryNames, OwnCommit DEF D!PullInv, D!TypeOK, D!Unmarked, D!Kept, D!Back, D!Objects
<1>7. D!SweepInv'
  BY EntryNames, OwnCommit DEF D!SweepInv, D!TypeOK, D!Open, D!Whole
<1> QED
  BY <1>1, <1>2, <1>3, <1>4, <1>5, <1>6, <1>7 DEF D!Inv

\* A pull that fails takes its marker away only from a commit that is absent.
LEMMA StopKeeps ==
  ASSUME D!Inv, NEW u \in D!Fetcher, D!Stop(u)
  PROVE  D!Inv'
PROOF
<1> USE DEF D!Inv, D!fs, D!txn, D!prune, D!bounds, D!history, D!Stop, D!Unlink, D!Ends, D!Goes
<1>a. /\ step'[u] = "idle"
      /\ left'[u] = {}
      /\ jobs'[u] = {}
      /\ staged'[u] = {}
      /\ soft'[u] = {}
      /\ presynced'[u] = NoCount
      /\ count'[u] = 0
      /\ synced'[u] = FALSE
      /\ renamed'[u] = {}
  BY DEF D!TypeOK
<1>b. OthersRest(u)
  BY DEF D!TypeOK, OthersRest
<1>c. u \in D!Fetcher /\ D!StageOf(u) /\ D!SoftOf(u) /\ D!FetchOf(u)
  BY DEF D!StageInv, D!SoftInv, D!FetchInv
<1>1. D!TypeOK'
  BY EntryNames, OwnCommit DEF D!TypeOK, D!Entry, D!Files, D!Job
<1>2. D!StageInv'
  <2>1. D!StageOf(u)'
    BY <1>a, <1>c, OwnCommit, DEmptySet DEF D!StageOf, D!Pending, D!Staging
  <2> QED
    BY <2>1, <1>b, StageFrame
<1>3. D!SoftInv'
  <2>1. raw' = {}
    BY DEF D!SoftInv, D!SoftOf
  <2>2. D!SoftOf(u)'
    BY <1>a, <1>c DEF D!SoftOf, D!StageOf, D!Staging, D!Tail
  <2> QED
    BY <2>1, <2>2, <1>b, SoftFrame
<1>4. D!FetchInv'
  BY EntryNames, OwnCommit DEF D!FetchInv, D!FetchOf, D!StageInv, D!StageOf, D!TypeOK, D!Staging,
     D!Tail, D!Pending, D!Written, D!Kept, D!Back, D!Objects, D!Whole
<1>5. D!RefInv'
  BY EntryNames, OwnCommit DEF D!RefInv, D!TypeOK, D!Kept, D!Back, D!Whole
<1>6. D!PullInv'
  <2>1. \A v \in Puller \ {u} : D!Unmarked(v)' = D!Unmarked(v)
    BY <1>b, EntryNames, OwnCommit DEF OthersRest, D!Unmarked
  <2>2. \A w \in Stored : /\ D!Kept(D!Objects(w)) => D!Kept(D!Objects(w))'
                          /\ D!Kept(Tree[w]) => D!Kept(Tree[w])'
                          /\ D!Back(w) => D!Back(w)'
    BY EntryNames, OwnCommit DEF D!Kept, D!Back, D!Objects
  <2>3. step[u] # "unmark" => touched = {}
    BY DEF D!SweepInv, D!Open
  <2>4. step[u] # "unmark" /\ Wants[u] \in may \ revived => Wants[u] \in vis
    BY <2>3, OwnCommit DEF D!SweepInv
  <2>5. u \in Puller /\ D!Unmarked(u)'
          => D!Unmarked(u) \/ (Wants[u] \notin vis /\ step[u] # "unmark")
    BY <1>a, EntryNames, OwnCommit DEF D!Unmarked
  <2>6. may' = may /\ revived' = revived /\ \A w \in Stored : w \in vis' <=> w \in vis
    BY EntryNames, OwnCommit
  <2>7. \A v \in Puller : D!Marker(Wants[v]) \in vis' /\ D!Marker(Wants[v]) \in sure
                            => D!Marker(Wants[v]) \in sure'
    OBVIOUS
  <2>8. vis' \subseteq vis
    OBVIOUS
  <2> QED
    BY <2>1, <2>2, <2>4, <2>5, <2>6, <2>7, <2>8, OwnCommit DEF D!PullInv
<1>7. D!SweepInv'
  BY EntryNames, OwnCommit DEF D!SweepInv, D!TypeOK, D!Open, D!Whole
<1> QED
  BY <1>1, <1>2, <1>3, <1>4, <1>5, <1>6, <1>7 DEF D!Inv

\* What a kept ref or commit names is not doomed.
LEMMA PruneWalkKeeps ==
  ASSUME D!Inv, D!PruneWalk
  PROVE  D!Inv'
PROOF
<1> USE DEF D!Inv, D!fs, D!txn, D!prune, D!bounds, D!history, D!PruneWalk
<1>1. D!TypeOK'
  BY EntryNames, OwnCommit DEF D!TypeOK, D!Entry, D!Files, D!Job
<1>2. D!StageInv'
  BY EntryNames, OwnCommit DEF D!StageInv, D!StageOf, D!TypeOK, D!Staging, D!Pending
<1>3. D!SoftInv'
  BY EntryNames, OwnCommit DEF D!SoftInv, D!SoftOf, D!StageInv, D!StageOf, D!TypeOK, D!Staging,
     D!Tail
<1>4. D!FetchInv'
  BY EntryNames, OwnCommit DEF D!FetchInv, D!FetchOf, D!StageInv, D!StageOf, D!TypeOK, D!Staging,
     D!Tail, D!Pending, D!Written, D!Kept, D!Back, D!Objects, D!Whole
<1>5. D!RefInv'
  BY EntryNames, OwnCommit DEF D!RefInv, D!TypeOK, D!Kept, D!Back, D!Whole
<1>6. D!PullInv'
  BY EntryNames, OwnCommit DEF D!PullInv, D!TypeOK, D!Unmarked, D!Kept, D!Back, D!Objects
<1>7. D!SweepInv'
  <2>1. PICK weak \in SUBSET {w \in Stored : D!Ref(w) \in vis}, refsAlone \in BOOLEAN :
          LET roots == {w \in Stored \ weak : D!Ref(w) \in vis}
                         \cup IF refsAlone THEN {} ELSE Stored \cap vis
              keep  == UNION {D!Whole(w) : w \in roots}
          IN  doomed' = ((vis \cap D!Files) \ keep) \cup {D!Ref(w) : w \in weak \ keep}
    OBVIOUS
  <2> DEFINE roots == {w \in Stored \ weak : D!Ref(w) \in vis}
                        \cup IF refsAlone THEN {} ELSE Stored \cap vis
             keep  == UNION {D!Whole(w) : w \in roots}
  <2>2. doomed' = ((vis \cap D!Files) \ keep) \cup {D!Ref(w) : w \in weak \ keep}
    BY <2>1
  <2>3. \A w \in roots : D!Whole(w) \subseteq keep /\ w \in Stored
    OBVIOUS
  <2>4. \A w \in Stored : w \in keep => w \in roots
    BY EntryNames, OwnCommit DEF D!Whole
  <2>5. \A w \in Stored \ weak : D!Ref(w) \in vis => w \in roots
    OBVIOUS
  <2>6. weak \subseteq Stored
    OBVIOUS
  <2> HIDE DEF roots, keep
  <2>7. \A w \in roots : D!Whole(w) \cap doomed' = {}
    BY <2>2, <2>3, <2>6, EntryNames, OwnCommit DEF D!Whole
  <2>8. touched = {} /\ touched' = {} /\ D!Open' = {}
    BY DEF D!SweepInv, D!Open
  <2>9. \A w \in Stored : D!Ref(w) \in may \ revived => D!Ref(w) \in vis
    BY <2>8, EntryNames DEF D!SweepInv
  <2>10. \A w \in Stored : D!Ref(w) \in vis => w \in roots \/ D!Ref(w) \in doomed'
    BY <2>2, <2>4, <2>5
  <2>11. \A w \in Stored : w \in vis \ doomed' => w \in roots
    BY <2>2, <2>4, EntryNames DEF D!Files
  <2>12. \A w \in roots : Tree[w] \subseteq D!Whole(w)
    BY DEF D!Whole
  <2>13. \A w \in Stored : w \in vis \ doomed' => Tree[w] \cap doomed' = {}
    BY <2>7, <2>11, <2>12
  <2>14. \A w \in Stored : D!Ref(w) \in may \ revived
                            => D!Whole(w) \cap doomed' = {} \/ D!Ref(w) \in doomed'
    BY <2>7, <2>9, <2>10
  <2> QED
    BY <2>8, <2>13, <2>14 DEF D!SweepInv
<1> QED
  BY <1>1, <1>2, <1>3, <1>4, <1>5, <1>6, <1>7 DEF D!Inv

\* An entry goes after what names it has gone, durably.
LEMMA RemoveKeeps ==
  ASSUME D!Inv, NEW e \in D!Files \cup D!Refs, D!Remove(e)
  PROVE  D!Inv'
PROOF
<1> USE DEF D!Inv, D!fs, D!txn, D!prune, D!bounds, D!history, D!Remove, D!Unlink, D!Phase
<1>1. D!TypeOK'
  BY EntryNames, OwnCommit DEF D!TypeOK, D!Entry, D!Files, D!Job
<1>2. D!StageInv'
  BY EntryNames, OwnCommit DEF D!StageInv, D!StageOf, D!TypeOK, D!Staging, D!Pending
<1>3. D!SoftInv'
  BY EntryNames, OwnCommit DEF D!SoftInv, D!SoftOf, D!StageInv, D!StageOf, D!TypeOK, D!Staging,
     D!Tail
<1>4. D!FetchInv'
  BY SweepFetch
<1>5. D!RefInv'
  <2>1. \A w \in Stored : D!Ref(w) \in may \ revived => e \notin D!Whole(w)
    BY EntryNames, OwnCommit DEF D!SweepInv, D!Whole
  <2>2. \A w \in Stored :
          /\ e \notin D!Whole(w) /\ D!Kept(D!Whole(w)) => D!Kept(D!Whole(w))'
          /\ e \notin D!Whole(w) /\ D!Back(w) => D!Back(w)'
    BY DEF D!Kept, D!Back, D!Whole
  <2> QED
    BY <2>1, <2>2 DEF D!RefInv
<1>6. D!PullInv'
  <2>1. \A w \in Stored : e \notin Tree[w] => (D!Kept(Tree[w]) => D!Kept(Tree[w])')
    BY DEF D!Kept
  <2>2. \A w \in Stored :
          /\ e \notin D!Objects(w) /\ D!Kept(D!Objects(w)) => D!Kept(D!Objects(w))'
          /\ e \notin D!Objects(w) /\ D!Back(w) => D!Back(w)'
    BY DEF D!Kept, D!Back, D!Objects
  <2>3. \A w \in Stored : D!Marker(w) # e
    BY EntryNames DEF D!Files
  <2>4. ASSUME NEW w \in Stored, e \in Tree[w], w \in vis \/ w \in may \ revived
        PROVE  FALSE
    <3>1. sweep = "content" /\ e \in Content
      BY <2>4, EntryNames, OwnCommit
    <3>2. w \in vis \ doomed
      BY <3>1, <2>4, EntryNames DEF D!SweepInv
    <3> QED
      BY <3>2, <2>4 DEF D!SweepInv
  <2>5. \A w \in Stored : w \in vis' => w # e /\ w \in vis
    BY DEF D!TypeOK
  <2> QED
    BY <2>1, <2>2, <2>3, <2>4, <2>5, OwnCommit DEF D!PullInv, D!Unmarked, D!Objects
<1>7. D!SweepInv'
  BY EntryNames, OwnCommit DEF D!SweepInv, D!TypeOK, D!Open, D!Whole
<1> QED
  BY <1>1, <1>2, <1>3, <1>4, <1>5, <1>6, <1>7 DEF D!Inv

\* The removed refs are gone for good before the commits go.
LEMMA EndRefsKeeps ==
  ASSUME D!Inv, D!EndPhase("refs", "commits")
  PROVE  D!Inv'
PROOF
<1> USE DEF D!Inv, D!fs, D!txn, D!prune, D!bounds, D!history, D!EndPhase, D!Barrier, D!SyncDirs,
        D!Phase
<1>a. touched \cap vis = {} /\ touched \cap sure = {} /\ touched \cap Content = {}
  BY EntryNames DEF D!SweepInv, D!TypeOK
<1>b. /\ sure' = sure /\ vis' = vis /\ may' = may \ touched
      /\ borrowed' = borrowed \ touched /\ revived' = revived \ touched
  BY <1>a DEF D!TypeOK
<1>c. \A w \in Stored : /\ D!Kept(Tree[w]) => D!Kept(Tree[w])'
                        /\ D!Back(w) => D!Back(w)'
                        /\ w \in vis /\ D!Kept(D!Objects(w)) => D!Kept(D!Objects(w))'
  BY <1>a, <1>b, OwnCommit DEF D!Kept, D!Back, D!Objects
<1>1. D!TypeOK'
  BY EntryNames, OwnCommit DEF D!TypeOK, D!Entry, D!Files, D!Job
<1>2. D!StageInv'
  BY EntryNames, OwnCommit DEF D!StageInv, D!StageOf, D!TypeOK, D!Staging, D!Pending
<1>3. D!SoftInv'
  BY EntryNames, OwnCommit DEF D!SoftInv, D!SoftOf, D!StageInv, D!StageOf, D!TypeOK, D!Staging,
     D!Tail
<1>4. D!FetchInv'
  BY SweepFetch
<1>5. D!RefInv'
  <2>1. \A w \in Stored : D!Whole(w) \cap touched = {}
    BY EntryNames, OwnCommit DEF D!SweepInv, D!Whole
  <2>2. \A w \in Stored : D!Kept(D!Whole(w)) => D!Kept(D!Whole(w))'
    BY <1>b, <2>1 DEF D!Kept
  <2> QED
    BY <1>b, <1>c, <2>2 DEF D!RefInv
<1>6. D!PullInv'
  BY <1>b, <1>c, OwnCommit DEF D!PullInv, D!Unmarked
<1>7. D!SweepInv'
  BY EntryNames, OwnCommit DEF D!SweepInv, D!TypeOK, D!Open, D!Whole
<1> QED
  BY <1>1, <1>2, <1>3, <1>4, <1>5, <1>6, <1>7 DEF D!Inv

\* The removed commits are gone for good before their trees go.
LEMMA EndCommitsKeeps ==
  ASSUME D!Inv, D!EndPhase("commits", "content")
  PROVE  D!Inv'
PROOF
<1> USE DEF D!Inv, D!fs, D!txn, D!prune, D!bounds, D!history, D!EndPhase, D!Barrier, D!SyncDirs,
        D!Phase
<1>a. touched \cap vis = {} /\ touched \cap sure = {} /\ touched \cap Content = {}
  BY EntryNames DEF D!SweepInv, D!TypeOK
<1>b. /\ sure' = sure /\ vis' = vis /\ may' = may \ touched
      /\ borrowed' = borrowed \ touched /\ revived' = revived \ touched
  BY <1>a DEF D!TypeOK
<1>c. \A w \in Stored : /\ D!Kept(Tree[w]) => D!Kept(Tree[w])'
                        /\ D!Back(w) => D!Back(w)'
                        /\ w \in vis /\ D!Kept(D!Objects(w)) => D!Kept(D!Objects(w))'
  BY <1>a, <1>b, OwnCommit DEF D!Kept, D!Back, D!Objects
<1>1. D!TypeOK'
  BY EntryNames, OwnCommit DEF D!TypeOK, D!Entry, D!Files, D!Job
<1>2. D!StageInv'
  BY EntryNames, OwnCommit DEF D!StageInv, D!StageOf, D!TypeOK, D!Staging, D!Pending
<1>3. D!SoftInv'
  BY EntryNames, OwnCommit DEF D!SoftInv, D!SoftOf, D!StageInv, D!StageOf, D!TypeOK, D!Staging,
     D!Tail
<1>4. D!FetchInv'
  BY SweepFetch
<1>5. D!RefInv'
  <2>1. \A w \in Stored : D!Ref(w) \in may' \ revived'
                           => D!Ref(w) \in may \ revived /\ D!Whole(w) \cap touched = {}
    BY <1>b DEF D!SweepInv
  <2>2. \A w \in Stored : D!Whole(w) \cap touched = {} /\ D!Kept(D!Whole(w)) => D!Kept(D!Whole(w))'
    BY <1>b DEF D!Kept
  <2> QED
    BY <1>c, <2>1, <2>2 DEF D!RefInv
<1>6. D!PullInv'
  BY <1>b, <1>c, OwnCommit DEF D!PullInv, D!Unmarked
<1>7. D!SweepInv'
  <2>1. doomed' \subseteq Content
    BY EntryNames DEF D!SweepInv, D!TypeOK, D!Files
  <2>2. D!Open' = D!Open
    BY DEF D!Open
  <2>3. \A w \in Stored : D!Ref(w) \in may' \ revived' => D!Whole(w) \cap doomed = {}
    BY <1>b DEF D!SweepInv
  <2> QED
    BY <1>b, <2>1, <2>2, <2>3 DEF D!SweepInv
<1> QED
  BY <1>1, <1>2, <1>3, <1>4, <1>5, <1>6, <1>7 DEF D!Inv

\* The markers that go are of absent commits.
LEMMA EndPruneKeeps ==
  ASSUME D!Inv, D!EndPrune
  PROVE  D!Inv'
PROOF
<1> USE DEF D!Inv, D!fs, D!txn, D!prune, D!bounds, D!history, D!EndPrune, D!Unlink
<1>1. D!TypeOK'
  BY EntryNames, OwnCommit DEF D!TypeOK, D!Entry, D!Files, D!Job
<1>2. D!StageInv'
  BY EntryNames, OwnCommit DEF D!StageInv, D!StageOf, D!TypeOK, D!Staging, D!Pending
<1>3. D!SoftInv'
  BY EntryNames, OwnCommit DEF D!SoftInv, D!SoftOf, D!StageInv, D!StageOf, D!TypeOK, D!Staging,
     D!Tail
<1>4. D!FetchInv'
  BY SweepFetch
<1>5. D!RefInv'
  BY EntryNames, OwnCommit DEF D!RefInv, D!TypeOK, D!Kept, D!Back, D!Whole
<1>6. D!PullInv'
  <2>1. touched \subseteq Content
    BY DEF D!SweepInv
  <2>2. \A w \in Stored : w \in may \ revived => w \in vis
    BY <2>1, EntryNames DEF D!SweepInv
  <2>3. \A w \in Stored : (w \in vis' <=> w \in vis) /\ (w \in sure' <=> w \in sure)
    BY EntryNames
  <2>4. \A w \in Stored \cap vis :
          /\ D!Marker(w) \in vis' <=> D!Marker(w) \in vis
          /\ D!Marker(w) \in sure' <=> D!Marker(w) \in sure
    OBVIOUS
  <2>5. \A w \in Stored : /\ D!Kept(Tree[w]) => D!Kept(Tree[w])'
                          /\ D!Kept(D!Objects(w)) => D!Kept(D!Objects(w))'
                          /\ D!Back(w) => D!Back(w)'
    BY <2>3, EntryNames, OwnCommit DEF D!Kept, D!Back, D!Objects
  <2> QED
    BY <2>2, <2>3, <2>4, <2>5, OwnCommit DEF D!PullInv, D!Unmarked
<1>7. D!SweepInv'
  BY EntryNames, OwnCommit DEF D!SweepInv, D!TypeOK, D!Open, D!Whole
<1> QED
  BY <1>1, <1>2, <1>3, <1>4, <1>5, <1>6, <1>7 DEF D!Inv

\* A sweep that stops may leave what it removed.
LEMMA StopPruneKeeps ==
  ASSUME D!Inv, D!StopPrune
  PROVE  D!Inv'
PROOF
<1> USE DEF D!Inv, D!fs, D!txn, D!prune, D!bounds, D!history, D!StopPrune
<1>1. D!TypeOK'
  BY EntryNames, OwnCommit DEF D!TypeOK, D!Entry, D!Files, D!Job
<1>2. D!StageInv'
  BY EntryNames, OwnCommit DEF D!StageInv, D!StageOf, D!TypeOK, D!Staging, D!Pending
<1>3. D!SoftInv'
  BY EntryNames, OwnCommit DEF D!SoftInv, D!SoftOf, D!StageInv, D!StageOf, D!TypeOK, D!Staging,
     D!Tail
<1>4. D!FetchInv'
  BY SweepFetch
<1>5. D!RefInv'
  BY EntryNames, OwnCommit DEF D!RefInv, D!TypeOK, D!Kept, D!Back, D!Whole
<1>6. D!PullInv'
  BY EntryNames, OwnCommit DEF D!PullInv, D!TypeOK, D!Unmarked, D!Kept, D!Back, D!Objects
<1>7. D!SweepInv'
  BY EntryNames, OwnCommit DEF D!SweepInv, D!TypeOK, D!Open, D!Whole
<1> QED
  BY <1>1, <1>2, <1>3, <1>4, <1>5, <1>6, <1>7 DEF D!Inv

\* A power loss leaves what was surely there, and maybe more.
LEMMA PowerLossKeeps ==
  ASSUME D!Inv, D!PowerLoss
  PROVE  D!Inv'
PROOF
<1> USE DEF D!Inv, D!fs, D!txn, D!prune, D!bounds, D!history, D!PowerLoss
<1>1. D!TypeOK'
  BY EntryNames, OwnCommit DEF D!TypeOK, D!Entry, D!Files, D!Job
<1>2. D!StageInv'
  BY DEmptySet, OwnCommit DEF D!StageInv, D!StageOf, D!TypeOK, D!Staging, D!Pending
<1>3. D!SoftInv'
  BY EntryNames, OwnCommit DEF D!SoftInv, D!SoftOf, D!StageInv, D!StageOf, D!TypeOK, D!Staging,
     D!Tail
<1>4. D!FetchInv'
  BY EntryNames, OwnCommit DEF D!FetchInv, D!FetchOf, D!StageInv, D!StageOf, D!TypeOK, D!Staging,
     D!Tail, D!Pending, D!Written, D!Kept, D!Back, D!Objects, D!Whole
<1>5. D!RefInv'
  BY EntryNames, OwnCommit DEF D!RefInv, D!TypeOK, D!Kept, D!Back, D!Whole
<1>6. D!PullInv'
  BY EntryNames, OwnCommit DEF D!PullInv, D!TypeOK, D!Unmarked, D!Kept, D!Back, D!Objects
<1>7. D!SweepInv'
  BY EntryNames, OwnCommit DEF D!SweepInv, D!TypeOK, D!Open, D!Whole
<1> QED
  BY <1>1, <1>2, <1>3, <1>4, <1>5, <1>6, <1>7 DEF D!Inv

\* Each step keeps the invariant.
LEMMA DurableStep ==
  ASSUME D!Inv, [D!Next]_(D!vars)
  PROVE  D!Inv'
PROOF
<1>1. CASE UNCHANGED D!vars
  <2> USE <1>1 DEF D!vars, D!fs, D!txn, D!prune, D!bounds, D!history, D!Inv
  <2>1. D!TypeOK' /\ D!StageInv' /\ D!SoftInv'
    BY DEF D!TypeOK, D!StageInv, D!StageOf, D!Pending, D!SoftInv, D!SoftOf
  <2>2. D!FetchInv'
    BY DEF D!FetchInv, D!FetchOf, D!Pending, D!Written, D!Kept, D!Back
  <2>3. D!RefInv' /\ D!PullInv' /\ D!SweepInv'
    BY DEF D!RefInv, D!PullInv, D!SweepInv, D!Unmarked, D!Open, D!Kept, D!Back
  <2> QED
    BY <2>1, <2>2, <2>3
<1>2. ASSUME NEW u \in D!Fetcher, D!FetcherNext(u)
      PROVE  D!Inv'
  BY <1>2, BeginKeeps, OfferKeeps, RunJobKeeps, RecordKeeps, PresyncCountKeeps, PresyncJobKeeps,
     PresyncStoreKeeps, StartCommitKeeps, PublishNothingKeeps, PublishSyncKeeps,
     RenameObjectKeeps, SyncObjectsKeeps, SyncDetachedKeeps, InstallDetachedKeeps,
     SyncFanoutKeeps, WriteRefKeeps, SyncRefsKeeps, UnmarkKeeps, StopKeeps DEF D!FetcherNext
<1>3. CASE D!PruneNext
  BY <1>3, PruneWalkKeeps, RemoveKeeps, EndRefsKeeps, EndCommitsKeeps, EndPruneKeeps,
     StopPruneKeeps DEF D!PruneNext
<1> QED
  BY <1>1, <1>2, <1>3, PowerLossKeeps DEF D!Next

-----------------------------------------------------------------------------
(* The composition.                                                        *)

\* A step of the composition is a step of each part, or leaves it alone.
LEMMA PartSteps ==
  ASSUME [MCNext]_<<side, vars, objectVars, fileVars>>
  PROVE  [D!Next]_(D!vars) /\ [S!Next]_(S!vars)
PROOF
<1>1. [D!Next]_objectVars /\ [S!Next]_fileVars
  BY DEF MCNext
<1>2. UNCHANGED objectVars => UNCHANGED D!vars
  BY DEF objectVars, D!vars, D!fs, D!txn, D!prune, D!bounds, D!history
<1>3. UNCHANGED fileVars => UNCHANGED S!vars
  BY DEF fileVars, S!vars, S!runVars, S!readVars
<1> QED
  BY <1>1, <1>2, <1>3

\* In every state the objects of a ref, and of a commit with no marker,
\* survive a power loss, but for those of the two exceptions (D!Inv).
THEOREM StoreIsInvariant == MCSpec => []D!Inv
PROOF
<1>1. MCInit => D!Inv
  BY DurableInit DEF MCInit
<1>2. D!Inv /\ [MCNext]_<<side, vars, objectVars, fileVars>> => D!Inv'
  BY PartSteps, DurableStep
<1> QED
  BY <1>1, <1>2, PTL DEF MCSpec

\* No file has a name in the store before its data is on the disk, whichever
\* syncfs sync_staged and publish run or skip (transaction.rs, write.rs).
THEOREM NoTornFileEver == MCSpec => []NoTornFile
PROOF
<1>1. D!Inv => NoTornFile
  BY DurableSafe DEF NoTornFile
<1> QED
  BY <1>1, StoreIsInvariant, PTL

\* A ref that a power loss leaves names what it leaves, but for objects that a
\* transaction found before they were durable and for commits that a stopped
\* sweep was removing (write_tail, publish, sweep_blocking).
THEOREM RefsSurviveWhole == MCSpec => []RefNamesDurable
PROOF
<1>1. D!Inv => RefNamesDurable
  BY DurableSafe DEF RefNamesDurable
<1> QED
  BY <1>1, StoreIsInvariant, PTL

\* With the same exceptions, a commit of a pull that a power loss leaves with
\* no marker has its tree (pull.rs, sweep_blocking).
THEOREM UnmarkedSurvivesWhole == MCSpec => []UnmarkedIsWhole
PROOF
<1>1. D!Inv => UnmarkedIsWhole
  BY DurableSafe DEF UnmarkedIsWhole
<1> QED
  BY <1>1, StoreIsInvariant, PTL

\* In every state with no power loss, or no stop, the .access file pairs with
\* the files next to it, and with what each reader has checked (S!Inv).
THEOREM SummaryIsInvariant == MCSpec => []S!Inv
PROOF
<1>1. MCInit => S!Inv
  BY SummaryInit DEF MCInit
<1>2. S!Inv /\ [MCNext]_<<side, vars, objectVars, fileVars>> => S!Inv'
  BY PartSteps, SummaryStep
<1> QED
  BY <1>1, <1>2, PTL DEF MCSpec

\* A request is answered with a file of its own access digest, whatever the
\* runs write meanwhile (ArchiveView::summary, put_item_summary_blocking).
THEOREM ServedIsOwn == MCSpec => []ServedMatches
PROOF
<1>1. S!Inv => ServedMatches
  BY SummarySafe DEF ServedMatches
<1> QED
  BY <1>1, SummaryIsInvariant, PTL

-----------------------------------------------------------------------------
(* The staging directories.                                                *)

\* The initial state satisfies the invariant.
LEMMA InitInv == Init => Inv
PROOF
  BY NoneAssumption DEF Init, Inv, TypeOK, ClaimInv, DeadInv, EntryInv, ReaperInv, LiveHoldsRecord, PC,
     Handles, Unmade, Reaping, Creating, Undoing, Dropping

\* The listing of a begin preserves the invariant.
LEMMA ListStepInv ==
  ASSUME Inv, NEW t \in Txn, List(t)
  PROVE  Inv'
PROOF
<1> USE ProcOfAssumption, NoneAssumption DEF Inv, TypeOK, List, Goes, PC, Reaping, Creating,
        Undoing, Dropping
<1>1. TypeOK'
  OBVIOUS
<1>2. ClaimInv'
  BY DEF ClaimInv
<1>3. EntryInv'
  BY DEF EntryInv, Unmade, ReaperInv, Handles
<1>4. ReaperInv'
  BY DEF ReaperInv, Handles, Unmade, EntryInv, ClaimInv
<1>5. LiveHoldsRecord'
  BY DEF LiveHoldsRecord, ReaperInv, Handles
<1>6. DeadInv'
  BY DEF DeadInv, Ended
<1> QED
  BY <1>1, <1>2, <1>3, <1>4, <1>5, <1>6

\* The check of the map preserves the invariant.
LEMMA PickStepInv ==
  ASSUME Inv, NEW t \in Txn, NEW m \in todo[t], Pick(t, m)
  PROVE  Inv'
PROOF
<1> USE ProcOfAssumption, NoneAssumption DEF Inv, TypeOK, Pick, Goes, Owned, PC, Reaping,
        Creating, Undoing, Dropping
<1>1. TypeOK'
  OBVIOUS
<1>2. ClaimInv'
  BY DEF ClaimInv
<1>3. EntryInv'
  <2>1. CASE Owned(t, m)
    BY <2>1 DEF EntryInv, Unmade
  <2>2. CASE ~Owned(t, m)
    BY <2>2 DEF EntryInv, Unmade
  <2> QED
    BY <2>1, <2>2
<1>4. ReaperInv'
  <2>1. CASE Owned(t, m)
    BY <2>1 DEF ReaperInv, Handles, Unmade
  <2>2. CASE ~Owned(t, m)
    <3>1. ~Unmade(m)
      BY DEF ReaperInv
    <3>2. ProcOf[t] = ProcOf[m] /\ ProcOf[m] \notin exiting =>
            pc[m] \in {"dropClose", "done", "failed", "undoRmtree"}
      BY <2>2, <3>1 DEF ClaimInv, DeadInv, Ended, Unmade
    <3> QED
      BY <2>2, <3>1, <3>2 DEF ReaperInv, Handles, Unmade
  <2> QED
    BY <2>1, <2>2
<1>5. LiveHoldsRecord'
  BY DEF LiveHoldsRecord, ReaperInv, Handles
<1>6. DeadInv'
  BY DEF DeadInv, Ended
<1> QED
  BY <1>1, <1>2, <1>3, <1>4, <1>5, <1>6

\* The open of a lock file by a reaper preserves the invariant.
LEMMA OpenStepInv ==
  ASSUME Inv, NEW t \in Txn, Open(t)
  PROVE  Inv'
PROOF
<1> USE ProcOfAssumption, NoneAssumption DEF Inv, TypeOK, Open, Goes, Handled, RemoveTree, PC,
        Reaping, Creating, Undoing, Dropping
<1>1. TypeOK'
  OBVIOUS
<1>2. ClaimInv'
  BY DEF ClaimInv
<1>3. EntryInv'
  BY DEF EntryInv, Unmade, ReaperInv, Handles
<1>4. ReaperInv'
  BY DEF ReaperInv, Handles, Unmade, EntryInv, ClaimInv
<1>5. LiveHoldsRecord'
  BY DEF LiveHoldsRecord, ReaperInv, Handles
<1>6. DeadInv'
  BY DEF DeadInv, Ended
<1> QED
  BY <1>1, <1>2, <1>3, <1>4, <1>5, <1>6

\* The lock by a reaper preserves the invariant.
LEMMA TryStepInv ==
  ASSUME Inv, NEW t \in Txn, Try(t)
  PROVE  Inv'
PROOF
<1> USE ProcOfAssumption, NoneAssumption DEF Inv, TypeOK, Try, Goes, Handled, Close, LockFree,
        PC, Reaping, Creating, Undoing, Dropping
<1>1. TypeOK'
  OBVIOUS
<1>2. ClaimInv'
  BY DEF ClaimInv
<1>3. EntryInv'
  BY DEF EntryInv, Unmade, ReaperInv, Handles
<1>4. ReaperInv'
  BY DEF ReaperInv, Handles, Unmade, EntryInv, ClaimInv
<1>5. LiveHoldsRecord'
  BY DEF LiveHoldsRecord, ReaperInv, Handles
<1>6. DeadInv'
  BY DEF DeadInv, Ended
<1> QED
  BY <1>1, <1>2, <1>3, <1>4, <1>5, <1>6

\* The removal of a tree by a reaper preserves the invariant.
LEMMA ReapTreeStepInv ==
  ASSUME Inv, NEW t \in Txn, ReapTree(t)
  PROVE  Inv'
PROOF
<1> USE ProcOfAssumption, NoneAssumption DEF Inv, TypeOK, ReapTree, Goes, RemoveTree, PC,
        Reaping, Creating, Undoing, Dropping
<1>1. TypeOK'
  OBVIOUS
<1>2. ClaimInv'
  BY DEF ClaimInv
<1>3. EntryInv'
  BY DEF EntryInv, Unmade, ReaperInv, Handles
<1>4. ReaperInv'
  BY DEF ReaperInv, Handles, Unmade, EntryInv, ClaimInv
<1>5. LiveHoldsRecord'
  BY DEF LiveHoldsRecord, ReaperInv, Handles
<1>6. DeadInv'
  BY DEF DeadInv, Ended
<1> QED
  BY <1>1, <1>2, <1>3, <1>4, <1>5, <1>6

\* The removal of a lock file by a reaper preserves the invariant.
LEMMA ReapUnlinkStepInv ==
  ASSUME Inv, NEW t \in Txn, ReapUnlink(t)
  PROVE  Inv'
PROOF
<1> USE ProcOfAssumption, NoneAssumption DEF Inv, TypeOK, ReapUnlink, Goes, Unlink, PC,
        Reaping, Creating, Undoing, Dropping
<1>1. TypeOK'
  OBVIOUS
<1>2. ClaimInv'
  BY DEF ClaimInv
<1>3. EntryInv'
  BY DEF EntryInv, Unmade, ReaperInv, Handles
<1>4. ReaperInv'
  BY DEF ReaperInv, Handles, Unmade, EntryInv, ClaimInv
<1>5. LiveHoldsRecord'
  BY DEF LiveHoldsRecord, ReaperInv, Handles
<1>6. DeadInv'
  BY DEF DeadInv, Ended
<1> QED
  BY <1>1, <1>2, <1>3, <1>4, <1>5, <1>6

\* The close by a reaper preserves the invariant.
LEMMA ReapCloseStepInv ==
  ASSUME Inv, NEW t \in Txn, ReapClose(t)
  PROVE  Inv'
PROOF
<1> USE ProcOfAssumption, NoneAssumption DEF Inv, TypeOK, ReapClose, Handled, Close, Goes, PC,
        Reaping, Creating, Undoing, Dropping
<1>1. TypeOK'
  OBVIOUS
<1>2. ClaimInv'
  BY DEF ClaimInv
<1>3. EntryInv'
  BY DEF EntryInv, Unmade, ReaperInv, Handles
<1>4. ReaperInv'
  BY DEF ReaperInv, Handles, Unmade, EntryInv, ClaimInv
<1>5. LiveHoldsRecord'
  BY DEF LiveHoldsRecord, ReaperInv, Handles
<1>6. DeadInv'
  BY DEF DeadInv, Ended
<1> QED
  BY <1>1, <1>2, <1>3, <1>4, <1>5, <1>6

\* The end of the reaper preserves the invariant.
LEMMA ReapedStepInv ==
  ASSUME Inv, NEW t \in Txn, Reaped(t)
  PROVE  Inv'
PROOF
<1> USE ProcOfAssumption, NoneAssumption DEF Inv, TypeOK, Reaped, Goes, PC, Reaping, Creating,
        Undoing, Dropping
<1>1. TypeOK'
  OBVIOUS
<1>2. ClaimInv'
  BY DEF ClaimInv
<1>3. EntryInv'
  BY DEF EntryInv, Unmade, ReaperInv, Handles
<1>4. ReaperInv'
  BY DEF ReaperInv, Handles, Unmade, EntryInv, ClaimInv
<1>5. LiveHoldsRecord'
  BY DEF LiveHoldsRecord, ReaperInv, Handles
<1>6. DeadInv'
  BY DEF DeadInv, Ended
<1> QED
  BY <1>1, <1>2, <1>3, <1>4, <1>5, <1>6

\* The claim preserves the invariant.
LEMMA ClaimStepInv ==
  ASSUME Inv, NEW t \in Txn, Claim(t)
  PROVE  Inv'
PROOF
<1> USE ProcOfAssumption, NoneAssumption DEF Inv, TypeOK, Claim, Goes, PC, Reaping, Creating,
        Undoing, Dropping
<1>1. TypeOK'
  OBVIOUS
<1>2. ClaimInv'
  BY DEF ClaimInv
<1>3. EntryInv'
  BY DEF EntryInv, Unmade, ReaperInv, Handles
<1>4. ReaperInv'
  BY DEF ReaperInv, Handles, Unmade, EntryInv, ClaimInv
<1>5. LiveHoldsRecord'
  BY DEF LiveHoldsRecord, ReaperInv, Handles
<1>6. DeadInv'
  BY DEF DeadInv, Ended
<1> QED
  BY <1>1, <1>2, <1>3, <1>4, <1>5, <1>6

\* The mkdirat preserves the invariant.
LEMMA MkdirStepInv ==
  ASSUME Inv, NEW t \in Txn, Mkdir(t)
  PROVE  Inv'
PROOF
<1> USE ProcOfAssumption, NoneAssumption DEF Inv, TypeOK, Mkdir, Goes, PC, Reaping, Creating,
        Undoing, Dropping
<1>1. TypeOK'
  OBVIOUS
<1>2. ClaimInv'
  BY DEF ClaimInv
<1>3. EntryInv'
  BY DEF EntryInv, Unmade, ReaperInv, Handles
<1>4. ReaperInv'
  BY DEF ReaperInv, Handles, Unmade, EntryInv, ClaimInv
<1>5. LiveHoldsRecord'
  BY DEF LiveHoldsRecord, ReaperInv, Handles
<1>6. DeadInv'
  BY DEF DeadInv, Ended
<1> QED
  BY <1>1, <1>2, <1>3, <1>4, <1>5, <1>6

\* The create of the lock file preserves the invariant.
LEMMA OpenLockStepInv ==
  ASSUME Inv, NEW t \in Txn, OpenLock(t)
  PROVE  Inv'
PROOF
<1> USE ProcOfAssumption, NoneAssumption DEF Inv, TypeOK, OpenLock, Goes, PC, Reaping,
        Creating, Undoing, Dropping
<1>1. TypeOK'
  OBVIOUS
<1>2. ClaimInv'
  BY DEF ClaimInv
<1>3. EntryInv'
  BY DEF EntryInv, Unmade, ReaperInv, Handles
<1>4. ReaperInv'
  BY DEF ReaperInv, Handles, Unmade, EntryInv, ClaimInv
<1>5. LiveHoldsRecord'
  BY DEF LiveHoldsRecord, ReaperInv, Handles
<1>6. DeadInv'
  BY DEF DeadInv, Ended
<1> QED
  BY <1>1, <1>2, <1>3, <1>4, <1>5, <1>6

\* The lock of the owner preserves the invariant.
LEMMA AcquireStepInv ==
  ASSUME Inv, NEW t \in Txn, Acquire(t)
  PROVE  Inv'
PROOF
<1> USE ProcOfAssumption, NoneAssumption DEF Inv, TypeOK, Acquire, Goes, LockFree, PC, Reaping,
        Creating, Undoing, Dropping
<1>1. TypeOK'
  OBVIOUS
<1>2. ClaimInv'
  BY DEF ClaimInv
<1>3. EntryInv'
  BY DEF EntryInv, Unmade, ReaperInv, Handles
<1>4. ReaperInv'
  BY DEF ReaperInv, Handles, Unmade, EntryInv, ClaimInv
<1>5. LiveHoldsRecord'
  BY DEF LiveHoldsRecord, ReaperInv, Handles
<1>6. DeadInv'
  BY DEF DeadInv, Ended
<1> QED
  BY <1>1, <1>2, <1>3, <1>4, <1>5, <1>6

\* The removal of the lock file of a failed creation preserves the invariant.
LEMMA UndoUnlinkStepInv ==
  ASSUME Inv, NEW t \in Txn, UndoUnlink(t)
  PROVE  Inv'
PROOF
<1> USE ProcOfAssumption, NoneAssumption DEF Inv, TypeOK, UndoUnlink, Goes, Unlink, Close, PC,
        Reaping, Creating, Undoing, Dropping
<1>1. TypeOK'
  OBVIOUS
<1>2. ClaimInv'
  BY DEF ClaimInv
<1>3. EntryInv'
  BY DEF EntryInv, Unmade, ReaperInv, Handles
<1>4. ReaperInv'
  BY DEF ReaperInv, Handles, Unmade, EntryInv, ClaimInv
<1>5. LiveHoldsRecord'
  BY DEF LiveHoldsRecord, ReaperInv, Handles
<1>6. DeadInv'
  BY DEF DeadInv, Ended
<1> QED
  BY <1>1, <1>2, <1>3, <1>4, <1>5, <1>6

\* The release of the claim of a failed creation preserves the invariant.
LEMMA UndoClaimStepInv ==
  ASSUME Inv, NEW t \in Txn, UndoClaim(t)
  PROVE  Inv'
PROOF
<1> USE ProcOfAssumption, NoneAssumption DEF Inv, TypeOK, UndoClaim, Goes, PC, Reaping,
        Creating, Undoing, Dropping
<1>1. TypeOK'
  OBVIOUS
<1>2. ClaimInv'
  BY DEF ClaimInv
<1>3. EntryInv'
  BY DEF EntryInv, Unmade, ReaperInv, Handles
<1>4. ReaperInv'
  BY DEF ReaperInv, Handles, Unmade, EntryInv, ClaimInv
<1>5. LiveHoldsRecord'
  BY DEF LiveHoldsRecord, ReaperInv, Handles
<1>6. DeadInv'
  BY DEF DeadInv, Ended
<1> QED
  BY <1>1, <1>2, <1>3, <1>4, <1>5, <1>6

\* The removal of the tree of a failed creation preserves the invariant.
LEMMA UndoRmtreeStepInv ==
  ASSUME Inv, NEW t \in Txn, UndoRmtree(t)
  PROVE  Inv'
PROOF
<1> USE ProcOfAssumption, NoneAssumption DEF Inv, TypeOK, UndoRmtree, Goes, RemoveTree, PC,
        Reaping, Creating, Undoing, Dropping
<1>1. TypeOK'
  OBVIOUS
<1>2. ClaimInv'
  BY DEF ClaimInv
<1>3. EntryInv'
  BY DEF EntryInv, Unmade, ReaperInv, Handles
<1>4. ReaperInv'
  BY DEF ReaperInv, Handles, Unmade, EntryInv, ClaimInv
<1>5. LiveHoldsRecord'
  BY DEF LiveHoldsRecord, ReaperInv, Handles
<1>6. DeadInv'
  BY DEF DeadInv, Ended
<1> QED
  BY <1>1, <1>2, <1>3, <1>4, <1>5, <1>6

\* The removal of the tree at the end preserves the invariant.
LEMMA DropRmtreeStepInv ==
  ASSUME Inv, NEW t \in Txn, DropRmtree(t)
  PROVE  Inv'
PROOF
<1> USE ProcOfAssumption, NoneAssumption DEF Inv, TypeOK, DropRmtree, Goes, RemoveTree, PC,
        Reaping, Creating, Undoing, Dropping
<1>1. TypeOK'
  OBVIOUS
<1>2. ClaimInv'
  BY DEF ClaimInv
<1>3. EntryInv'
  BY DEF EntryInv, Unmade, ReaperInv, Handles
<1>4. ReaperInv'
  BY DEF ReaperInv, Handles, Unmade, EntryInv, ClaimInv
<1>5. LiveHoldsRecord'
  BY DEF LiveHoldsRecord, ReaperInv, Handles
<1>6. DeadInv'
  BY DEF DeadInv, Ended
<1> QED
  BY <1>1, <1>2, <1>3, <1>4, <1>5, <1>6

\* The removal of the lock file at the end preserves the invariant.
LEMMA DropUnlinkStepInv ==
  ASSUME Inv, NEW t \in Txn, DropUnlink(t)
  PROVE  Inv'
PROOF
<1> USE ProcOfAssumption, NoneAssumption DEF Inv, TypeOK, DropUnlink, Goes, Unlink, PC,
        Reaping, Creating, Undoing, Dropping
<1>1. TypeOK'
  OBVIOUS
<1>2. ClaimInv'
  BY DEF ClaimInv
<1>3. EntryInv'
  BY DEF EntryInv, Unmade, ReaperInv, Handles
<1>4. ReaperInv'
  BY DEF ReaperInv, Handles, Unmade, EntryInv, ClaimInv
<1>5. LiveHoldsRecord'
  BY DEF LiveHoldsRecord, ReaperInv, Handles
<1>6. DeadInv'
  BY DEF DeadInv, Ended
<1> QED
  BY <1>1, <1>2, <1>3, <1>4, <1>5, <1>6

\* The release of the claim at the end preserves the invariant.
LEMMA DropClaimStepInv ==
  ASSUME Inv, NEW t \in Txn, DropClaim(t)
  PROVE  Inv'
PROOF
<1> USE ProcOfAssumption, NoneAssumption DEF Inv, TypeOK, DropClaim, Goes, PC, Reaping,
        Creating, Undoing, Dropping
<1>1. TypeOK'
  OBVIOUS
<1>2. ClaimInv'
  BY DEF ClaimInv
<1>3. EntryInv'
  BY DEF EntryInv, Unmade, ReaperInv, Handles
<1>4. ReaperInv'
  BY DEF ReaperInv, Handles, Unmade, EntryInv, ClaimInv
<1>5. LiveHoldsRecord'
  BY DEF LiveHoldsRecord, ReaperInv, Handles
<1>6. DeadInv'
  BY DEF DeadInv, Ended
<1> QED
  BY <1>1, <1>2, <1>3, <1>4, <1>5, <1>6

\* The close at the end preserves the invariant.
LEMMA DropCloseStepInv ==
  ASSUME Inv, NEW t \in Txn, DropClose(t)
  PROVE  Inv'
PROOF
<1> USE ProcOfAssumption, NoneAssumption DEF Inv, TypeOK, DropClose, Goes, Close, PC, Reaping,
        Creating, Undoing, Dropping
<1>1. TypeOK'
  OBVIOUS
<1>2. ClaimInv'
  BY DEF ClaimInv
<1>3. EntryInv'
  BY DEF EntryInv, Unmade, ReaperInv, Handles
<1>4. ReaperInv'
  BY DEF ReaperInv, Handles, Unmade, EntryInv, ClaimInv
<1>5. LiveHoldsRecord'
  BY DEF LiveHoldsRecord, ReaperInv, Handles
<1>6. DeadInv'
  BY DEF DeadInv, Ended
<1> QED
  BY <1>1, <1>2, <1>3, <1>4, <1>5, <1>6

\* The early removal of what an exiting process owns preserves the
\* invariant.
LEMMA ReapOwnedStepInv ==
  ASSUME Inv, NEW p \in Process, ReapOwned(p)
  PROVE  Inv'
PROOF
<1> USE ProcOfAssumption, NoneAssumption DEF Inv, TypeOK, ReapOwned, ClaimsOf, PC, Reaping, Creating,
        Undoing, Dropping
<1>1. TypeOK'
  OBVIOUS
<1>2. ClaimInv'
  BY DEF ClaimInv
<1>3. EntryInv'
  BY DEF EntryInv, Unmade
<1>4. ReaperInv'
  BY DEF ReaperInv, Handles, Unmade
<1>5. LiveHoldsRecord'
  BY DEF LiveHoldsRecord
<1>6. DeadInv'
  BY DEF DeadInv, Ended
<1> QED
  BY <1>1, <1>2, <1>3, <1>4, <1>5, <1>6

\* The end of a process preserves the invariant.
LEMMA CrashStepInv ==
  ASSUME Inv, NEW p \in Process, Crash(p)
  PROVE  Inv'
PROOF
<1> USE ProcOfAssumption, NoneAssumption DEF Inv, TypeOK, Crash, ClaimsOf, Ended, PC, Reaping, Creating,
        Undoing, Dropping
<1>1. TypeOK'
  OBVIOUS
<1>2. ClaimInv'
  BY DEF ClaimInv
<1>3. EntryInv'
  BY DEF EntryInv, Unmade
<1>4. ReaperInv'
  BY DEF ReaperInv, Handles, Unmade
<1>5. LiveHoldsRecord'
  BY DEF LiveHoldsRecord
<1>6. DeadInv'
  BY DEF DeadInv, Ended
<1> QED
  BY <1>1, <1>2, <1>3, <1>4, <1>5, <1>6

\* The passing of time preserves the invariant.
LEMMA AgeStepInv ==
  ASSUME Inv, NEW n \in Txn, Age(n)
  PROVE  Inv'
PROOF
  BY DEF Inv, TypeOK, ClaimInv, DeadInv, EntryInv, ReaperInv, LiveHoldsRecord, Handles, Unmade, Age

\* Every step preserves the invariant.
LEMMA NextInv == Inv /\ [Next]_vars => Inv'
PROOF
<1> SUFFICES ASSUME Inv, [Next]_vars PROVE Inv'
  OBVIOUS
<1>1. ASSUME NEW t \in Txn, TxnNext(t) PROVE Inv'
  BY <1>1, ListStepInv, PickStepInv, OpenStepInv, TryStepInv, ReapTreeStepInv, ReapUnlinkStepInv,
     ReapCloseStepInv, ReapedStepInv, ClaimStepInv, MkdirStepInv, OpenLockStepInv, AcquireStepInv,
     UndoUnlinkStepInv, UndoClaimStepInv, UndoRmtreeStepInv, DropRmtreeStepInv, DropUnlinkStepInv,
     DropClaimStepInv, DropCloseStepInv
     DEF TxnNext
<1>2. ASSUME NEW p \in Process, ReapOwned(p) \/ Crash(p) PROVE Inv'
  BY <1>2, ReapOwnedStepInv, CrashStepInv
<1>3. ASSUME NEW n \in Txn, Age(n) PROVE Inv'
  BY <1>3, AgeStepInv
<1>4. CASE UNCHANGED vars
  BY <1>4 DEF vars, Inv, TypeOK, ClaimInv, DeadInv, EntryInv, ReaperInv, LiveHoldsRecord, Handles, Unmade
<1> QED
  BY <1>1, <1>2, <1>3, <1>4 DEF Next

\* Inv is an invariant of the staging directories.
THEOREM Invariance == Spec => []Inv
PROOF
<1>1. Init => Inv
  BY InitInv
<1>2. Inv /\ [Next]_vars => Inv'
  BY NextInv
<1> QED
  BY <1>1, <1>2, PTL DEF Spec

\* A live transaction keeps the record lock of its lock file, for every
\* number of processes and transactions (reap_one, StagingDir).
THEOREM OwnersKeepRecord == Spec => []LiveHoldsRecord
PROOF
<1>1. Inv => LiveHoldsRecord
  BY DEF Inv
<1> QED
  BY <1>1, Invariance, PTL

\* The claim in the map active keeps the reapers of a process off the
\* directories of its own transactions (mkdtemp, StagingDir::drop, reap_one).
THEOREM ClaimsProtect == Spec => []OwnReaperSkips
PROOF
<1>1. Inv => OwnReaperSkips
  <2> SUFFICES ASSUME Inv, NEW t \in Txn, NEW n \in Txn, Handles(t, n), ProcOf[t] = ProcOf[n],
                      ProcOf[n] \notin exiting, pc[n] \notin {"undoRmtree", "failed"}
               PROVE  ~dir[n] /\ ~linked[n]
    BY DEF OwnReaperSkips
  <2>1. pc[n] \in {"dropClose", "done"}
    BY DEF Inv, ReaperInv
  <2> QED
    BY <2>1 DEF Inv, EntryInv, Dropping
<1> QED
  BY <1>1, Invariance, PTL

\* No reaper and no crash takes the staging directory of a live transaction
\* away (reap_one, acquire_staging_lock).
THEOREM LiveDirectoriesStay == Spec => LiveDirKept
PROOF
<1> DEFINE A == \A t \in Txn :
      pc[t] = "live" /\ pc'[t] = "live" /\ dir[t] /\ ProcOf[t] \notin exiting' => dir'[t]
<1>1. Inv /\ [Next]_vars => [A]_vars
  <2> SUFFICES ASSUME Inv, Next, NEW u \in Txn, pc[u] = "live", pc'[u] = "live", dir[u],
                      ProcOf[u] \notin exiting'
               PROVE  dir'[u]
    OBVIOUS
  <2>0. ProcOf[u] \notin exiting /\ linked[u] /\ record[u] = ProcOf[u] /\ u \in active
    <3>1. exiting \subseteq exiting'
      BY DEF Next, TxnNext, List, Pick, Open, Try, ReapTree, ReapUnlink, ReapClose, Reaped, Claim,
         Mkdir, OpenLock, Acquire, UndoUnlink, UndoClaim, UndoRmtree, DropRmtree, DropUnlink,
         DropClaim, DropClose, Age, ReapOwned, Crash
    <3> QED
      BY <3>1 DEF Inv, EntryInv, LiveHoldsRecord, ClaimInv
  <2>1. ASSUME NEW t \in Txn, Open(t) PROVE dir'[u]
    BY <2>0, <2>1 DEF Open, RemoveTree, Inv, TypeOK
  <2>2. ASSUME NEW t \in Txn, ReapTree(t) PROVE dir'[u]
    <3>1. CASE cur[t] = u
      <4>1. Handles(t, u)
        BY <2>2, <3>1 DEF ReapTree, Handles, Reaping
      <4>2. ProcOf[t] # ProcOf[u]
        BY <4>1, <2>0 DEF Inv, ReaperInv
      <4> QED
        BY <2>0, <2>2, <4>1, <4>2 DEF Inv, ReaperInv, ReapTree
    <3>2. CASE cur[t] # u
      BY <2>2, <3>2 DEF ReapTree, RemoveTree, Inv, TypeOK
    <3> QED
      BY <3>1, <3>2
  <2>3. ASSUME NEW t \in Txn, UndoRmtree(t) \/ DropRmtree(t) \/ Mkdir(t) PROVE dir'[u]
    BY <2>3 DEF UndoRmtree, DropRmtree, Mkdir, Goes, RemoveTree, Inv, TypeOK
  <2>4. ASSUME NEW p \in Process, ReapOwned(p) PROVE dir'[u]
    BY <2>0, <2>4 DEF ReapOwned, ClaimsOf, Inv, TypeOK
  <2>5. CASE UNCHANGED dir
    BY <2>5
  <2> QED
    BY <2>1, <2>2, <2>3, <2>4, <2>5
       DEF Next, TxnNext, List, Pick, Try, ReapUnlink, ReapClose, Reaped, Claim, OpenLock, Acquire,
           UndoUnlink, UndoClaim, DropUnlink, DropClaim, DropClose, Age, Crash
<1> QED
  BY <1>1, Invariance, PTL DEF Spec, LiveDirKept
=============================================================================
