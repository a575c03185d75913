------------------------------- MODULE MCCrash -------------------------------
(***************************************************************************)
(* What the stop of a run, or a power loss, leaves of a local repository.  *)
(* A behaviour is one of three, as side says; the other two rest in their  *)
(* initial states:                                                         *)
(*   "staging"   the staging directories of MCStaging                      *)
(*   "objects"   a pull and a receive session whose trees share a file,    *)
(*               and prune (Durability)                                    *)
(*   "summary"   the files of the summary of an item and a reader          *)
(***************************************************************************)
EXTENDS MCStaging, Naturals

CONSTANTS
  x1, x2, f,                       \* the commits and the file of "objects"
  Puller, Receiver, Stored, Content, Wants, Tree, Dict, NoCount,
  Digest, Reader, None, SUMMARY_TRIES,
  MaxWrites, MaxStops, MaxLosses

MCWants == [x \in Puller \cup Receiver |-> IF x \in Puller THEN x1 ELSE x2]
MCTree == [x \in Stored |-> IF x = x1 THEN {f} ELSE Content]

VARIABLES side

VARIABLES
  vis, sure, may, raw, step, left, jobs, staged, soft, presynced, count, synced,
  renamed, sweep, doomed, touched, stops, losses, borrowed, revived

objectVars ==
  <<vis, sure, may, raw, step, left, jobs, staged, soft, presynced, count, synced,
    renamed, sweep, doomed, touched, stops, losses, borrowed, revived>>

D == INSTANCE Durability WITH
       Commit <- Stored, pc <- step, todo <- left

ASSUME DurabilityAssumption == D!ConstantsOK

VARIABLES
  named, survives, writer, job, held, writes, runStops, runLosses,
  at, want, file, tries, answer

fileVars ==
  <<named, survives, writer, job, held, writes, runStops, runLosses,
    at, want, file, tries, answer>>

S == INSTANCE SummaryFiles WITH
       vis <- named, may <- survives, pc <- writer,
       stops <- runStops, losses <- runLosses

ASSUME SummaryAssumption == S!ConstantsOK

MCInit ==
  /\ side \in {"staging", "objects", "summary"}
  /\ Init /\ D!Init /\ S!Init

MCNext ==
  \/ side = "staging" /\ Next /\ UNCHANGED <<side, objectVars, fileVars>>
  \/ side = "objects" /\ D!Next /\ UNCHANGED <<side, vars, fileVars>>
  \/ side = "summary" /\ S!Next /\ UNCHANGED <<side, vars, objectVars>>

MCSpec == MCInit /\ [][MCNext]_<<side, vars, objectVars, fileVars>>

\* transaction.rs: no file under a name of the store lost its data.
NoTornFile == D!NoTornFile

\* transaction.rs: a ref that survives names a commit object that survives.
RefNamesDurable == D!RefNamesDurable

\* pull.rs: a commit without a marker has its tree, also after a power loss.
UnmarkedIsWhole == D!UnmarkedIsWhole

\* archive.rs: a request is answered with a file of its own access digest.
ServedMatches == S!ServedMatches
=============================================================================
