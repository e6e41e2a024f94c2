---------------------------- MODULE HistoryReaders ----------------------------
(***************************************************************************)
(* The readers of src/history that work in batches.  A query is answered   *)
(* by one of them (the dispatch of src/engine.rs): it runs, the others     *)
(* rest where they start.                                                  *)
(***************************************************************************)
EXTENDS ParallelBatch

CONSTANTS
  Repos, Targets, HashChunk,                      \* of FollowedBatch
  FollowJobs,                                     \* its --jobs
  Histories, Queries, PerJob, LeastBatch          \* of GixBatch

VARIABLES
  reader,                                                          \* the one that runs
  repo, followWork, histories, hashes, shown, asked, results, followAnswer,
  history, query, pc, scanned, batch, gixCommits

followVars == <<repo, followWork, histories, hashes, shown, asked, results, followAnswer>>
gixVars == <<history, query, pc, scanned, batch, gixCommits>>
allVars == <<reader, vars, followVars, gixVars>>

Followed == INSTANCE FollowedBatch WITH
              Jobs <- FollowJobs, work <- followWork, answer <- followAnswer
Gix == INSTANCE GixBatch WITH commits <- gixCommits

ASSUME ReadersAssumption == Gix!GixAssumption /\ Followed!FollowedAssumption

-----------------------------------------------------------------------------
(* Where a reader that does not run rests: anywhere it may start.          *)
FollowedRests == repo = CHOOSE r \in Repos : TRUE
GixRests == history = (CHOOSE h \in Histories : TRUE) /\ query = CHOOSE q \in Queries : TRUE

ReadersInit ==
  /\ \/ reader = "parallel" /\ FollowedRests /\ GixRests
     \/ reader = "followed" /\ repo \in Repos /\ GixRests
     \/ reader = "gix" /\ FollowedRests /\ history \in Histories /\ query \in Queries
  /\ Init /\ Followed!Init /\ Gix!Init

ReadersNext ==
  \/ reader = "parallel" /\ Next /\ UNCHANGED <<reader, followVars, gixVars>>
  \/ reader = "followed" /\ Followed!Next /\ UNCHANGED <<reader, vars, gixVars>>
  \/ reader = "gix" /\ Gix!Next /\ UNCHANGED <<reader, vars, followVars>>

(* The threads of a pool take the items, git_utils ends every git process, *)
(* and the caller goes on when both are through.                           *)
ReadersSpec == ReadersInit /\ [][ReadersNext]_allVars /\ WF_allVars(ReadersNext)

-----------------------------------------------------------------------------
(* Sharing the reads of several targets does not show: each is given what  *)
(* a query for it alone would give, under one name, and no commit is read  *)
(* from git twice.                                                         *)
FollowedIsEach == reader = "followed" => Followed!BatchInv /\ Followed!FollowedIsEach

(* Batches do not show: the walk returns the newest commits that changed   *)
(* the target within its bounds and looks no further than one batch past   *)
(* them; of the commits git selected none that can be read is missing.     *)
GixIsReference == reader = "gix" => Gix!ReaderInv /\ Gix!GixIsReference

(* Every reader comes to an answer, whatever fails and whoever is slow.    *)
EveryReaderAnswers ==
  <>(CASE reader = "parallel" -> answer # "none"
       [] reader = "followed" -> followAnswer # "none"
       [] reader = "gix"      -> pc \in {"ok", "err"})
=============================================================================
