------------------------------ MODULE InstallSkill ------------------------------
(***************************************************************************)
(* installSkill of npm/bin/install-skill.js: a skill directory is built    *)
(* next to its destination and put in place with renames, the version      *)
(* there before being set aside first.  Any file operation may fail, a     *)
(* process may be killed between two of them, and another installer may    *)
(* be at work on the same destination.                                     *)
(*                                                                         *)
(* A directory is "none", "partial" (empty, being copied, not yet pinned   *)
(* or being removed) or holds one complete version.  The temporary names   *)
(* are random and belong to one process.                                   *)
(***************************************************************************)
EXTENDS Naturals

CONSTANTS
  Installers,   \* the processes
  Versions,     \* complete skill directories
  Source,       \* the version each process installs
  Alone,        \* one installer runs at a time (the next may follow a crash)
  RemoveFails   \* removing a file may fail

ASSUME InstallAssumption ==
  /\ Source \in [Installers -> Versions]
  /\ "none" \notin Versions /\ "partial" \notin Versions
  /\ Alone \in BOOLEAN /\ RemoveFails \in BOOLEAN

VARIABLES
  dest,         \* the destination
  tmp,          \* the temporary directory of each process
  backup,       \* the directory each process set the old version aside in
  hasBackup,    \* backup # ""
  installed,
  pc,           \* where each process is
  before        \* the destination as each process found it when it started

vars == <<dest, tmp, backup, hasBackup, installed, pc, before>>

Content == Versions \cup {"none", "partial"}
Ended == {"idle", "ok", "error", "errorAside", "crashed"}
Steps == {"copy", "look", "backup", "rmdir", "aside", "rename", "clean", "cleaning",
          "catch", "restore", "finally", "finallyError", "finallyAside"} \cup Ended
Active(p) == pc[p] \notin Ended

-----------------------------------------------------------------------------
Init ==
  /\ dest \in Versions \cup {"none"}
  /\ tmp = [p \in Installers |-> "none"]
  /\ backup = [p \in Installers |-> "none"]
  /\ hasBackup = [p \in Installers |-> FALSE]
  /\ installed = [p \in Installers |-> FALSE]
  /\ pc = [p \in Installers |-> "idle"]
  /\ before = [p \in Installers |-> "none"]

Goto(p, step) == pc' = [pc EXCEPT ![p] = step]

(* Mutant of AfterTmp: the copy is not waited for.                         *)
AfterTmp_NoWait == "look"
AfterTmp == "copy"

(* fs.mkdtempSync: before the try, a failure leaves nothing behind.        *)
Begin(p) ==
  /\ pc[p] = "idle"
  /\ Alone => \A q \in Installers : ~Active(q)
  /\ before' = [before EXCEPT ![p] = dest]
  /\ \/ Goto(p, AfterTmp) /\ tmp' = [tmp EXCEPT ![p] = "partial"]
     \/ Goto(p, "error") /\ UNCHANGED tmp
  /\ UNCHANGED <<dest, backup, hasBackup, installed>>

(* copyDir and pinRuntimeVersion                                           *)
Copy(p) ==
  /\ pc[p] = "copy"
  /\ tmp' = [tmp EXCEPT ![p] = Source[p]]
  /\ Goto(p, "look")
  /\ UNCHANGED <<dest, backup, hasBackup, installed, before>>

Look(p) ==
  /\ pc[p] = "look"
  /\ Goto(p, IF dest # "none" THEN "backup" ELSE "rename")
  /\ UNCHANGED <<dest, tmp, backup, hasBackup, installed, before>>

MakeBackup(p) ==
  /\ pc[p] = "backup"
  /\ backup' = [backup EXCEPT ![p] = "partial"]
  /\ hasBackup' = [hasBackup EXCEPT ![p] = TRUE]
  /\ Goto(p, "rmdir")
  /\ UNCHANGED <<dest, tmp, installed, before>>

FreeBackup(p) ==
  /\ pc[p] = "rmdir"
  /\ backup' = [backup EXCEPT ![p] = "none"]
  /\ Goto(p, "aside")
  /\ UNCHANGED <<dest, tmp, hasBackup, installed, before>>

SetAside(p) ==
  /\ pc[p] = "aside" /\ dest # "none"
  /\ backup' = [backup EXCEPT ![p] = dest]
  /\ dest' = "none"
  /\ Goto(p, "rename")
  /\ UNCHANGED <<tmp, hasBackup, installed, before>>

(* rename(2) replaces an empty directory, never one with files in it.      *)
CanTake == dest \in {"none", "partial"}

PutInPlace(p) ==
  /\ pc[p] = "rename" /\ CanTake
  /\ dest' = tmp[p]
  /\ tmp' = [tmp EXCEPT ![p] = "none"]
  /\ installed' = [installed EXCEPT ![p] = TRUE]
  /\ Goto(p, IF hasBackup[p] THEN "clean" ELSE "finally")
  /\ UNCHANGED <<backup, hasBackup, before>>

(* removePath(backup), not atomic.                                         *)
Clean(p) ==
  /\ pc[p] = "clean"
  /\ backup' = [backup EXCEPT ![p] = "partial"]
  /\ Goto(p, "cleaning")
  /\ UNCHANGED <<dest, tmp, hasBackup, installed, before>>

Cleaned(p) ==
  /\ pc[p] = "cleaning"
  /\ backup' = [backup EXCEPT ![p] = "none"]
  /\ hasBackup' = [hasBackup EXCEPT ![p] = FALSE]
  /\ Goto(p, "finally")
  /\ UNCHANGED <<dest, tmp, installed, before>>

(* An exception inside the try.                                            *)
Throw(p) ==
  /\ \/ pc[p] \in {"copy", "backup", "aside", "rename"}
     \/ pc[p] \in {"rmdir", "cleaning"} /\ RemoveFails
  /\ Goto(p, "catch")
  /\ UNCHANGED <<dest, tmp, backup, hasBackup, installed, before>>

(* Mutant of MustRestore: only an installation that was completed.         *)
MustRestore_Installed(p) == installed[p] /\ hasBackup[p] /\ dest = "none"
MustRestore(p) == hasBackup[p] /\ backup[p] # "none" /\ dest = "none"

Catch(p) ==
  /\ pc[p] = "catch"
  /\ Goto(p, IF MustRestore(p) THEN "restore" ELSE "finallyError")
  /\ UNCHANGED <<dest, tmp, backup, hasBackup, installed, before>>

Restore(p) ==
  /\ pc[p] = "restore"
  /\ \/ /\ CanTake
        /\ dest' = backup[p]
        /\ backup' = [backup EXCEPT ![p] = "none"]
        /\ hasBackup' = [hasBackup EXCEPT ![p] = FALSE]
        /\ Goto(p, "finallyError")
     \/ UNCHANGED <<dest, backup, hasBackup>> /\ Goto(p, "finallyAside")
  /\ UNCHANGED <<tmp, installed, before>>

(* Mutant of RemovesBackup: the backup is removed whether installed or not.*)
RemovesBackup_Always(p) == hasBackup[p]
RemovesBackup(p) == installed[p] /\ hasBackup[p]

Outcome(p) ==
  CASE pc[p] = "finally"      -> "ok"
    [] pc[p] = "finallyError" -> "error"
    [] OTHER                  -> "errorAside"

(* The finally block; a removal that fails leaves its directory behind and *)
(* its exception is the one that is reported.                              *)
Finally(p) ==
  /\ pc[p] \in {"finally", "finallyError", "finallyAside"}
  /\ \/ /\ tmp' = [tmp EXCEPT ![p] = "none"]
        /\ backup' = [backup EXCEPT ![p] = IF RemovesBackup(p) THEN "none" ELSE @]
        /\ Goto(p, Outcome(p))
     \/ /\ RemoveFails /\ tmp[p] # "none"
        /\ tmp' = [tmp EXCEPT ![p] = "partial"]
        /\ Goto(p, Outcome(p))
        /\ UNCHANGED backup
     \/ /\ RemoveFails /\ RemovesBackup(p) /\ backup[p] # "none"
        /\ tmp' = [tmp EXCEPT ![p] = "none"]
        /\ backup' = [backup EXCEPT ![p] = "partial"]
        /\ Goto(p, Outcome(p))
  /\ UNCHANGED <<dest, hasBackup, installed, before>>

(* The process is killed.                                                  *)
Crash(p) ==
  /\ Active(p)
  /\ Goto(p, "crashed")
  /\ UNCHANGED <<dest, tmp, backup, hasBackup, installed, before>>

Work(p) ==
  \/ Begin(p) \/ Copy(p) \/ Look(p) \/ MakeBackup(p) \/ FreeBackup(p) \/ SetAside(p)
  \/ PutInPlace(p) \/ Clean(p) \/ Cleaned(p) \/ Throw(p) \/ Catch(p) \/ Restore(p)
  \/ Finally(p)

Next == \E p \in Installers : Work(p) \/ Crash(p)

Spec == Init /\ [][Next]_vars

-----------------------------------------------------------------------------
Whole(c) == c \in Versions

(* Types of the variables.                                                 *)
TypeOK ==
  /\ dest \in Content
  /\ tmp \in [Installers -> Content]
  /\ backup \in [Installers -> Content]
  /\ hasBackup \in [Installers -> BOOLEAN]
  /\ installed \in [Installers -> BOOLEAN]
  /\ pc \in [Installers -> Steps]
  /\ before \in [Installers -> Content]

(* What an agent finds at the destination is one complete version, or      *)
(* nothing: whatever fails, whoever is killed, whoever installs as well.   *)
DestWhole == dest \in Versions \cup {"none"}

(* Once there is a complete version it never goes: it is at the            *)
(* destination, or set aside by an installer that did not finish.          *)
SomewhereWhole ==
  Whole(dest) \/ \E p \in Installers : ~installed[p] /\ Whole(backup[p])
NeverLost == [][SomewhereWhole => SomewhereWhole']_vars

(* How an installer that works alone ends: with its version in place and   *)
(* nothing else left; or with the old one back where it was; or, if the    *)
(* rename that brings it back failed as well, with the old one aside.      *)
Ending ==
  \A p \in Installers :
    /\ Active(p) /\ pc'[p] = "ok" => dest' = Source[p] /\ (~RemoveFails => tmp'[p] = "none")
    /\ Active(p) /\ pc'[p] = "error" /\ ~installed[p] => dest' = before[p]
    /\ Active(p) /\ pc'[p] = "errorAside" => backup'[p] = before[p]

(* What each process knows from where it is.                               *)
LocalState ==
  \A p \in Installers :
    /\ pc[p] \in {"look", "backup", "rmdir", "aside", "rename"} => tmp[p] = Source[p]
    /\ pc[p] \in {"idle", "copy", "look", "backup", "aside"} => backup[p] = "none"
    /\ pc[p] = "rmdir" => backup[p] = "partial"
    /\ pc[p] \in {"idle", "copy", "look", "backup", "rmdir", "aside", "rename"} => ~installed[p]
    /\ pc[p] \in {"clean", "cleaning", "finally"} => installed[p]

OneAtWork == Alone => \A p, q \in Installers : Active(p) /\ Active(q) => p = q

(* A directory that is not complete could only be put back if its removal  *)
(* failed, and then an installer that is alone still has its destination.  *)
SafeToRestore ==
  \A p \in Installers :
    /\ pc[p] \in {"rename", "catch", "restore"} /\ backup[p] = "partial" =>
         RemoveFails /\ dest # "none"
    /\ pc[p] \in {"backup", "rmdir", "clean", "cleaning"} /\ Alone => dest # "none"

(* The inductive invariant behind DestWhole.                               *)
IInv == TypeOK /\ LocalState /\ OneAtWork /\ DestWhole /\ SafeToRestore
=============================================================================
