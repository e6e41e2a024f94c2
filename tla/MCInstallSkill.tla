----------------------------- MODULE MCInstallSkill -----------------------------
(***************************************************************************)
(* Three runs of the installer: an old version, a new one, and the new one *)
(* again.  Either they overlap as they like and removals do not fail (the  *)
(* module extended), or each starts when the one before has ended or was   *)
(* killed, and removals may fail (Reruns).                                 *)
(***************************************************************************)
EXTENDS InstallSkill

VARIABLE overlap

MCSource == [p \in Installers |-> IF p = 1 THEN "old" ELSE "new"]

Reruns == INSTANCE InstallSkill WITH Alone <- TRUE, RemoveFails <- TRUE

MCInit == overlap \in BOOLEAN /\ Init
MCNext ==
  \/ overlap /\ Next /\ UNCHANGED overlap
  \/ ~overlap /\ Reruns!Next /\ UNCHANGED overlap
MCSpec == MCInit /\ [][MCNext]_<<vars, overlap>>

(* How an installer that works alone ends: with its version in place and   *)
(* nothing else left; or with the old one back where it was; or, if the    *)
(* rename that brings it back failed as well, with the old one aside.      *)
RerunsEndWell == [][~overlap => Reruns!Ending]_vars
=============================================================================
