---------------------------- MODULE SummaryFiles ----------------------------
(***************************************************************************)
(* The files of the summary of one auth item (crates/ostrya/src/           *)
(* summary.rs), and the view that serves them with no lock (archive.rs).   *)
(* The summary of an item holds what its access digest lets it read, so    *)
(* the summary of one digest must not be served under another.  The        *)
(* .access file says which digest the summary next to it is of.            *)
(*                                                                         *)
(* vis is what the names of the directory name, may what a power loss can  *)
(* leave of each: a rename or an unlink is durable after a sync of the     *)
(* directory.  The bytes of a file are synced before its rename.           *)
(* The update lock, which the caller holds, lets one run write at a time.  *)
(***************************************************************************)
EXTENDS Naturals

CONSTANTS
  Digest,
  Reader,
  None,
  SUMMARY_TRIES,
  MaxWrites, MaxStops, MaxLosses   \* bounds of the runs, stops and losses

Name == {"access", "summary", "sig"}

VARIABLES
  vis,
  may,
  pc,      \* the next step of the run that writes
  job,     \* its files: the digest and the number of the write
  held,    \* held: the .access file holds the digest; None if there is none
  writes, stops, losses,
  at,      \* the next step of each reader
  want,    \* the digest of its item
  file,    \* the file that it has open
  tries,
  answer   \* the file that it served, or None

runVars == <<vis, may, pc, job, held, writes, stops, losses>>
readVars == <<at, want, file, tries, answer>>
vars == <<runVars, readVars>>

Write == [digest : Digest, n : 1..MaxWrites]
Held == {TRUE, FALSE, None}
File == [name : {"summary", "sig"}, is : Write \cup {None}]   \* an open file

\* What the module takes for granted of its constants.
ConstantsOK ==
  /\ None \notin Digest \cup Write \cup BOOLEAN \cup File
  /\ SUMMARY_TRIES \in Nat \ {0} /\ MaxWrites \in Nat

TypeOK ==
  /\ vis \in [Name -> Digest \cup Write \cup {None}]
  /\ may \in [Name -> SUBSET (Digest \cup Write \cup {None})]
  /\ may["access"] \subseteq Digest \cup {None}
  /\ may["summary"] \subseteq Write \cup {None} /\ may["sig"] \subseteq Write \cup {None}
  /\ \A name \in Name : vis[name] \in may[name]
  /\ pc \in {"idle", "removeAccess", "syncRemoval", "removeSig", "putSummary", "putSig", "sync",
             "putAccess", "syncAccess", "dropAccess", "dropFiles"}
  /\ job \in Write \cup {None} /\ held \in Held
  /\ writes \in 0..MaxWrites /\ stops \in Nat /\ losses \in Nat
  /\ at \in [Reader -> {"idle", "open", "access", "check", "done"}]
  /\ want \in [Reader -> Digest \cup {None}]
  /\ file \in [Reader -> File \cup {None}]
  /\ tries \in [Reader -> Nat] /\ answer \in [Reader -> Write \cup {None}]

Init ==
  /\ vis = [name \in Name |-> None] /\ may = [name \in Name |-> {None}]
  /\ pc = "idle" /\ job = None /\ held = None
  /\ writes = 0 /\ stops = 0 /\ losses = 0
  /\ at = [r \in Reader |-> "idle"] /\ want = [r \in Reader |-> None]
  /\ file = [r \in Reader |-> None] /\ tries = [r \in Reader |-> 0]
  /\ answer = [r \in Reader |-> None]

-----------------------------------------------------------------------------
\* put_root_file_blocking and remove_root_file_blocking: the rename or the unlink.
Set(name, v) ==
  /\ vis' = [vis EXCEPT ![name] = v]
  /\ may' = [may EXCEPT ![name] = @ \cup {v}]

Sync == may' = [name \in Name |-> {vis[name]}] /\ UNCHANGED vis

Step(from, to) ==
  /\ pc = from /\ pc' = to
  /\ UNCHANGED <<job, held, writes, stops, losses, readVars>>

\* put_item_summary_blocking opens the directory and reads the .access file.
Begin(d) ==
  /\ pc = "idle" /\ writes < MaxWrites
  /\ writes' = writes + 1
  /\ job' = [digest |-> d, n |-> writes + 1]
  /\ held' = IF vis["access"] = None THEN None ELSE vis["access"] = d
  /\ pc' = IF held' = FALSE THEN "removeAccess" ELSE "removeSig"
  /\ UNCHANGED <<vis, may, stops, losses, readVars>>

RemoveAccess == Step("removeAccess", "syncRemoval") /\ Set("access", None)
SyncRemoval == Step("syncRemoval", "removeSig") /\ Sync

\* put_summary_files_blocking.  A summary without keys has no signature file.
RemoveSig == Step("removeSig", "putSummary") /\ Set("sig", None)
PutSummary ==
  /\ \E next \in {"putSig", "sync"} : Step("putSummary", next)
  /\ Set("summary", job)
PutSig == Step("putSig", "sync") /\ Set("sig", job)
SyncSummary ==
  /\ Step("sync", IF held = TRUE THEN "idle" ELSE "putAccess")
  /\ Sync

PutAccess == Step("putAccess", "syncAccess") /\ Set("access", job.digest)
SyncAccess == Step("syncAccess", "idle") /\ Sync

\* remove_other_summaries_blocking, of an item that has no summary any more.
BeginRemoval ==
  /\ \E name \in Name : vis[name] # None
  /\ Step("idle", "dropAccess") /\ UNCHANGED <<vis, may>>
DropAccess == Step("dropAccess", "dropFiles") /\ Set("access", None)
DropFile(name) ==
  /\ vis[name] # None
  /\ Step("dropFiles", "dropFiles") /\ Set(name, None)
SyncDrop ==
  /\ vis["summary"] = None /\ vis["sig"] = None
  /\ Step("dropFiles", "idle") /\ Sync

\* A step fails, or the process ends: the run stops where it is.
Stop ==
  /\ pc # "idle" /\ stops < MaxStops
  /\ stops' = stops + 1 /\ pc' = "idle"
  /\ UNCHANGED <<vis, may, job, held, writes, losses, readVars>>

\* Each name comes back as one of the files that it may name.
PowerLoss ==
  /\ losses < MaxLosses
  /\ losses' = losses + 1 /\ pc' = "idle"
  /\ vis' \in {v \in [Name -> UNION {may[name] : name \in Name}] :
                 \A name \in Name : v[name] \in may[name]}
  /\ may' = [name \in Name |-> {vis'[name]}]
  /\ at' = [r \in Reader |-> "idle"] /\ file' = [r \in Reader |-> None]
  /\ want' = [r \in Reader |-> None] /\ tries' = [r \in Reader |-> 0]
  /\ answer' = [r \in Reader |-> None]
  /\ UNCHANGED <<job, held, writes, stops>>

-----------------------------------------------------------------------------
(***************************************************************************)
(* ArchiveView::summary, of a request for the summary, or for its          *)
(* signature file, of an item that has the digest d.                       *)
(***************************************************************************)
Ask(r, name, d) ==
  /\ at[r] = "idle" /\ want[r] = None
  /\ want' = [want EXCEPT ![r] = d] /\ at' = [at EXCEPT ![r] = "open"]
  /\ file' = [file EXCEPT ![r] = [name |-> name, is |-> None]]
  /\ UNCHANGED <<runVars, tries, answer>>

Open(r) ==
  /\ at[r] = "open"
  /\ file' = [file EXCEPT ![r].is = vis[file[r].name]]
  /\ at' = [at EXCEPT ![r] = "access"]
  /\ UNCHANGED <<runVars, want, tries, answer>>

\* A mutant of ReadAccess: what the matching .access file covers was open before.
ServeAtOnce(r) ==
  /\ at[r] = "access"
  /\ at' = [at EXCEPT ![r] = "done"]
  /\ answer' = [answer EXCEPT ![r] = IF vis["access"] = want[r] THEN file[r].is ELSE None]
  /\ UNCHANGED <<runVars, want, file, tries>>

\* Stale, or not found, unless the .access file holds the digest and the file is there.
ReadAccess(r) ==
  /\ at[r] = "access"
  /\ at' = [at EXCEPT ![r] = IF vis["access"] = want[r] /\ file[r].is # None
                             THEN "check" ELSE "done"]
  /\ UNCHANGED <<runVars, want, file, tries, answer>>

\* names_file: another file under the name starts the request again.
Check(r) ==
  LET same == vis[file[r].name] = file[r].is IN
  /\ at[r] = "check"
  /\ tries' = [tries EXCEPT ![r] = @ + 1]
  /\ at' = [at EXCEPT ![r] = IF same \/ tries'[r] = SUMMARY_TRIES THEN "done" ELSE "open"]
  /\ answer' = [answer EXCEPT ![r] = IF same THEN file[r].is ELSE None]
  /\ UNCHANGED <<runVars, want, file>>

-----------------------------------------------------------------------------
Writes ==
  \/ \E d \in Digest : Begin(d)
  \/ RemoveAccess \/ SyncRemoval \/ RemoveSig \/ PutSummary \/ PutSig \/ SyncSummary
  \/ PutAccess \/ SyncAccess
  \/ BeginRemoval \/ DropAccess \/ (\E name \in {"summary", "sig"} : DropFile(name))
  \/ SyncDrop

Reads ==
  \E r \in Reader :
    \/ \E name \in {"summary", "sig"}, d \in Digest : Ask(r, name, d)
    \/ Open(r) \/ ReadAccess(r) \/ Check(r)

Next == Writes \/ Stop \/ PowerLoss \/ Reads

Spec == Init /\ [][Next]_vars

-----------------------------------------------------------------------------
(* What a run and a reader keep between two steps.                         *)

\* The steps of a run before it puts the file of a name.
Before(name) ==
  {"removeAccess", "syncRemoval", "removeSig", "putSummary"}
    \cup IF name = "sig" THEN {"putSig"} ELSE {}

\* What a run has done to the names.
RunInv ==
  /\ pc \notin {"idle", "dropAccess", "dropFiles"} => job # None /\ job.n = writes
  /\ pc \in {"removeSig", "putSummary", "putSig", "sync"} =>
       vis["access"] = IF held = TRUE THEN job.digest ELSE None
  /\ pc \in {"syncRemoval", "putAccess", "dropFiles"} => vis["access"] = None
  /\ pc = "removeAccess" => held = FALSE
  /\ pc = "syncRemoval" => held = FALSE
  /\ pc = "putSummary" => vis["sig"] = None
  /\ pc \in {"putSig", "sync", "putAccess"} => vis["summary"] = job /\ vis["sig"] \in {None, job}

\* The file of a run is no file that a name had, or that a reader has open,
\* before the run puts it.
FreshInv ==
  \A name \in {"summary", "sig"} :
    \A w \in may[name] \cup {file[r].is : r \in {q \in Reader : file[q] # None /\ file[q].name = name}} :
      w # None => w.n <= writes /\ (pc \in Before(name) => w.n < writes)

\* The files under two names are of one digest.
Pairs(access, w) == access # None /\ w # None => w.digest = access

\* With no stop, a power loss finds a pair too.
MayInv ==
  stops = 0 =>
    /\ \A d \in may["access"], name \in {"summary", "sig"} : \A w \in may[name] : Pairs(d, w)
    /\ pc \in {"idle", "removeAccess", "putAccess", "dropAccess"} =>
         \A name \in Name : may[name] = {vis[name]}
    /\ pc \in {"removeSig", "putSummary", "putSig", "sync"} => may["access"] = {vis["access"]}

VisInv ==
  stops = 0 \/ losses = 0 =>
    \A name \in {"summary", "sig"} : Pairs(vis["access"], vis[name])

\* A file that is still in place when a reader checks its name was in place
\* when the reader read the .access file.
ReadInv ==
  \A r \in Reader :
    /\ at[r] = "idle" => want[r] = None /\ answer[r] = None
    /\ at[r] \in {"open", "access", "check"} =>
         file[r] # None /\ want[r] # None /\ answer[r] = None
    /\ stops = 0 \/ losses = 0 =>
         /\ at[r] = "check" /\ vis[file[r].name] = file[r].is => Pairs(want[r], file[r].is)
         /\ answer[r] # None => answer[r].digest = want[r]
    /\ at[r] = "check" => file[r].is # None

Inv == TypeOK /\ RunInv /\ FreshInv /\ MayInv /\ VisInv /\ ReadInv

-----------------------------------------------------------------------------
(***************************************************************************)
(* "So while the .access file holds a digest, the summary next to it is a  *)
(* summary of that digest ... So after a crash too, an .access file never  *)
(* pairs with a summary of another digest" (put_item_summary_blocking).    *)
(***************************************************************************)
AccessPairs ==
  vis["access"] # None /\ vis["summary"] # None => vis["summary"].digest = vis["access"]

(***************************************************************************)
(* A request is answered with a file of its own access digest, whatever    *)
(* the runs write between the open of the file, the read of the .access    *)
(* file and the check of the name: with stops of runs, or with power       *)
(* losses.  (AccessPairs fails where a power loss follows a stop.)         *)
(***************************************************************************)
ServedMatches ==
  stops = 0 \/ losses = 0 =>
    \A r \in Reader : answer[r] # None => answer[r].digest = want[r]
=============================================================================
