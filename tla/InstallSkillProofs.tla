-------------------------- MODULE InstallSkillProofs --------------------------
(***************************************************************************)
(* What an installer may leave behind, for any number of installers.       *)
(***************************************************************************)
EXTENDS InstallSkill, TLAPS

(* Where a process is tells what it has built, set aside and put in place: *)
(* true whatever fails and however many installers run.                    *)
LEMMA LocalInit == Init => TypeOK /\ LocalState
  BY InstallAssumption DEF InstallAssumption, Init, TypeOK, LocalState, Content, Steps, Ended

LEMMA LocalNext == TypeOK /\ LocalState /\ [Next]_vars => TypeOK' /\ LocalState'
<1> SUFFICES ASSUME TypeOK, LocalState, [Next]_vars PROVE TypeOK' /\ LocalState'
  OBVIOUS
<1> USE InstallAssumption DEF InstallAssumption, TypeOK, LocalState, Content, Steps, Ended
<1>1. ASSUME NEW p \in Installers, Begin(p) PROVE TypeOK' /\ LocalState'
  BY <1>1 DEF Begin, AfterTmp, Goto
<1>2. ASSUME NEW p \in Installers, Copy(p) PROVE TypeOK' /\ LocalState'
  BY <1>2 DEF Copy, Goto
<1>3. ASSUME NEW p \in Installers, Look(p) PROVE TypeOK' /\ LocalState'
  BY <1>3 DEF Look, Goto
<1>4. ASSUME NEW p \in Installers, MakeBackup(p) PROVE TypeOK' /\ LocalState'
  BY <1>4 DEF MakeBackup, Goto
<1>5. ASSUME NEW p \in Installers, FreeBackup(p) PROVE TypeOK' /\ LocalState'
  BY <1>5 DEF FreeBackup, Goto
<1>6. ASSUME NEW p \in Installers, SetAside(p) PROVE TypeOK' /\ LocalState'
  BY <1>6 DEF SetAside, Goto
<1>7. ASSUME NEW p \in Installers, PutInPlace(p) PROVE TypeOK' /\ LocalState'
  BY <1>7 DEF PutInPlace, CanTake, Goto
<1>8. ASSUME NEW p \in Installers, Clean(p) PROVE TypeOK' /\ LocalState'
  BY <1>8 DEF Clean, Goto
<1>9. ASSUME NEW p \in Installers, Cleaned(p) PROVE TypeOK' /\ LocalState'
  BY <1>9 DEF Cleaned, Goto
<1>10. ASSUME NEW p \in Installers, Throw(p) PROVE TypeOK' /\ LocalState'
  BY <1>10 DEF Throw, Goto
<1>11. ASSUME NEW p \in Installers, Catch(p) PROVE TypeOK' /\ LocalState'
  BY <1>11 DEF Catch, MustRestore, Goto
<1>12. ASSUME NEW p \in Installers, Restore(p) PROVE TypeOK' /\ LocalState'
  <2>1. pc[p] = "restore" /\ UNCHANGED <<tmp, installed, before>>
    BY <1>12 DEF Restore
  <2>2. \/ pc' = [pc EXCEPT ![p] = "finallyError"]
        \/ pc' = [pc EXCEPT ![p] = "finallyAside"]
    BY <1>12 DEF Restore, Goto
  <2>3. backup' = backup \/ backup' = [backup EXCEPT ![p] = "none"]
    BY <1>12 DEF Restore
  <2>4. (dest' = dest \/ dest' = backup[p])
        /\ (hasBackup' = hasBackup \/ hasBackup' = [hasBackup EXCEPT ![p] = FALSE])
    BY <1>12 DEF Restore
  <2>5. TypeOK'
    <3>1. dest' \in Content /\ backup' \in [Installers -> Content]
      BY <2>3, <2>4
    <3>2. hasBackup' \in [Installers -> BOOLEAN]
      BY <2>4
    <3>3. pc' \in [Installers -> Steps]
      BY <2>2
    <3> QED BY <2>1, <3>1, <3>2, <3>3
  <2>6. LocalState'
    BY <2>1, <2>2, <2>3
  <2> QED BY <2>5, <2>6
<1>13. ASSUME NEW p \in Installers, Finally(p) PROVE TypeOK' /\ LocalState'
  BY <1>13 DEF Finally, Outcome, RemovesBackup, Goto
<1>14. ASSUME NEW p \in Installers, Crash(p) PROVE TypeOK' /\ LocalState'
  BY <1>14 DEF Crash, Goto
<1>15. CASE UNCHANGED vars
  BY <1>15 DEF vars
<1> QED BY <1>1, <1>2, <1>3, <1>4, <1>5, <1>6, <1>7, <1>8, <1>9, <1>10, <1>11, <1>12, <1>13, <1>14, <1>15 DEF Next, Work

(* What each process knows of its own directories from where it is, whoever *)
(* else is at work.                                                        *)
THEOREM LocalHolds == Spec => [](TypeOK /\ LocalState)
<1> QED BY LocalInit, LocalNext, PTL DEF Spec

(* A step from a state with a complete version leads to one.               *)
LEMMA WholeStays == TypeOK /\ LocalState /\ [Next]_vars => (SomewhereWhole => SomewhereWhole')
<1> SUFFICES ASSUME TypeOK, LocalState, [Next]_vars, SomewhereWhole PROVE SomewhereWhole'
  OBVIOUS
<1> USE InstallAssumption DEF InstallAssumption, TypeOK, LocalState, SomewhereWhole, Whole
<1>1. ASSUME NEW p \in Installers, Begin(p) PROVE SomewhereWhole'
  BY <1>1 DEF Begin, AfterTmp, Goto
<1>2. ASSUME NEW p \in Installers, Copy(p) PROVE SomewhereWhole'
  BY <1>2 DEF Copy, Goto
<1>3. ASSUME NEW p \in Installers, Look(p) PROVE SomewhereWhole'
  BY <1>3 DEF Look, Goto
<1>4. ASSUME NEW p \in Installers, MakeBackup(p) PROVE SomewhereWhole'
  BY <1>4 DEF MakeBackup, Goto
<1>5. ASSUME NEW p \in Installers, FreeBackup(p) PROVE SomewhereWhole'
  BY <1>5 DEF FreeBackup, Goto
<1>6. ASSUME NEW p \in Installers, SetAside(p) PROVE SomewhereWhole'
  BY <1>6 DEF SetAside, Goto
<1>7. ASSUME NEW p \in Installers, PutInPlace(p) PROVE SomewhereWhole'
  BY <1>7 DEF PutInPlace, CanTake, Goto
<1>8. ASSUME NEW p \in Installers, Clean(p) PROVE SomewhereWhole'
  BY <1>8 DEF Clean, Goto
<1>9. ASSUME NEW p \in Installers, Cleaned(p) PROVE SomewhereWhole'
  BY <1>9 DEF Cleaned, Goto
<1>10. ASSUME NEW p \in Installers, Throw(p) PROVE SomewhereWhole'
  BY <1>10 DEF Throw, Goto
<1>11. ASSUME NEW p \in Installers, Catch(p) PROVE SomewhereWhole'
  BY <1>11 DEF Catch, MustRestore, Goto
<1>12. ASSUME NEW p \in Installers, Restore(p) PROVE SomewhereWhole'
  BY <1>12 DEF Restore, CanTake, Goto
<1>13. ASSUME NEW p \in Installers, Finally(p) PROVE SomewhereWhole'
  BY <1>13 DEF Finally, Outcome, RemovesBackup, Goto
<1>14. ASSUME NEW p \in Installers, Crash(p) PROVE SomewhereWhole'
  BY <1>14 DEF Crash, Goto
<1>15. CASE UNCHANGED vars
  BY <1>15 DEF vars
<1> QED BY <1>1, <1>2, <1>3, <1>4, <1>5, <1>6, <1>7, <1>8, <1>9, <1>10, <1>11, <1>12, <1>13, <1>14, <1>15 DEF Next, Work

(* No installer, failing or killed anywhere, with others at work or not,   *)
(* loses the last complete version of the skill.                           *)
THEOREM NothingIsLost == Spec => NeverLost
<1> QED BY LocalHolds, WholeStays, PTL DEF Spec, NeverLost

-----------------------------------------------------------------------------
LEMMA InvariantInit == Init => IInv
<1> SUFFICES ASSUME Init PROVE IInv
  OBVIOUS
<1>1. TypeOK /\ LocalState
  BY LocalInit
<1>2. OneAtWork /\ DestWhole /\ SafeToRestore
  BY DEF Init, OneAtWork, DestWhole, SafeToRestore, Active, Ended
<1> QED BY <1>1, <1>2 DEF IInv

LEMMA InvariantNext ==
  ASSUME RemoveFails => Alone
  PROVE  IInv /\ [Next]_vars => IInv'
<1> SUFFICES ASSUME IInv, [Next]_vars PROVE OneAtWork' /\ DestWhole' /\ SafeToRestore'
  BY LocalNext DEF IInv
<1> USE InstallAssumption DEF InstallAssumption, IInv, TypeOK, LocalState, Content, Steps, Ended,
                              OneAtWork, DestWhole, SafeToRestore, Active
<1>1. ASSUME NEW p \in Installers, Begin(p) PROVE OneAtWork' /\ DestWhole' /\ SafeToRestore'
  BY <1>1 DEF Begin, AfterTmp, Goto
<1>2. ASSUME NEW p \in Installers, Copy(p) PROVE OneAtWork' /\ DestWhole' /\ SafeToRestore'
  BY <1>2 DEF Copy, Goto
<1>3. ASSUME NEW p \in Installers, Look(p) PROVE OneAtWork' /\ DestWhole' /\ SafeToRestore'
  BY <1>3 DEF Look, Goto
<1>4. ASSUME NEW p \in Installers, MakeBackup(p) PROVE OneAtWork' /\ DestWhole' /\ SafeToRestore'
  BY <1>4 DEF MakeBackup, Goto
<1>5. ASSUME NEW p \in Installers, FreeBackup(p) PROVE OneAtWork' /\ DestWhole' /\ SafeToRestore'
  BY <1>5 DEF FreeBackup, Goto
<1>6. ASSUME NEW p \in Installers, SetAside(p) PROVE OneAtWork' /\ DestWhole' /\ SafeToRestore'
  BY <1>6 DEF SetAside, Goto
<1>7. ASSUME NEW p \in Installers, PutInPlace(p) PROVE OneAtWork' /\ DestWhole' /\ SafeToRestore'
  BY <1>7 DEF PutInPlace, CanTake, Goto
<1>8. ASSUME NEW p \in Installers, Clean(p) PROVE OneAtWork' /\ DestWhole' /\ SafeToRestore'
  BY <1>8 DEF Clean, Goto
<1>9. ASSUME NEW p \in Installers, Cleaned(p) PROVE OneAtWork' /\ DestWhole' /\ SafeToRestore'
  BY <1>9 DEF Cleaned, Goto
<1>10. ASSUME NEW p \in Installers, Throw(p) PROVE OneAtWork' /\ DestWhole' /\ SafeToRestore'
  BY <1>10 DEF Throw, Goto
<1>11. ASSUME NEW p \in Installers, Catch(p) PROVE OneAtWork' /\ DestWhole' /\ SafeToRestore'
  BY <1>11 DEF Catch, MustRestore, Goto
<1>12. ASSUME NEW p \in Installers, Restore(p) PROVE OneAtWork' /\ DestWhole' /\ SafeToRestore'
  BY <1>12 DEF Restore, CanTake, Goto
<1>13. ASSUME NEW p \in Installers, Finally(p) PROVE OneAtWork' /\ DestWhole' /\ SafeToRestore'
  BY <1>13 DEF Finally, Outcome, RemovesBackup, Goto
<1>14. ASSUME NEW p \in Installers, Crash(p) PROVE OneAtWork' /\ DestWhole' /\ SafeToRestore'
  BY <1>14 DEF Crash, Goto
<1>15. CASE UNCHANGED vars
  BY <1>15 DEF vars
<1> QED BY <1>1, <1>2, <1>3, <1>4, <1>5, <1>6, <1>7, <1>8, <1>9, <1>10, <1>11, <1>12, <1>13, <1>14, <1>15 DEF Next, Work

(* Either removals do not fail or installers do not overlap: then the      *)
(* inductive invariant holds ...                                           *)
THEOREM InvariantHolds ==
  ASSUME RemoveFails => Alone
  PROVE  Spec => []IInv
<1> QED BY InvariantInit, InvariantNext, PTL DEF Spec

(* ... and what is at the destination is always complete, or nothing.      *)
THEOREM DestinationIsWhole ==
  ASSUME RemoveFails => Alone
  PROVE  Spec => []DestWhole
<1>1. IInv => DestWhole
  BY DEF IInv
<1> QED BY <1>1, InvariantHolds, PTL

-----------------------------------------------------------------------------
(* The destination is as an installer that works alone found it, and there *)
(* is no backup to put back; or what was there is set aside.               *)
Untouched(p) == dest = before[p] /\ (hasBackup[p] => dest # "none")
IsAside(p) == dest = "none" /\ hasBackup[p] /\ backup[p] = before[p] /\ before[p] # "none"

LoneState ==
  \A p \in Installers :
    /\ pc[p] \in {"idle", "copy", "look", "backup"} => ~hasBackup[p]
    /\ pc[p] \in {"rmdir", "aside"} => hasBackup[p]
    /\ pc[p] \in {"backup", "rmdir", "aside"} => dest # "none"
    /\ pc[p] \in {"copy", "look", "backup", "rmdir", "aside"} => Untouched(p)
    /\ pc[p] \in {"rename", "catch"} /\ ~installed[p] => Untouched(p) \/ IsAside(p)
    /\ pc[p] \in {"restore", "finallyAside"} => ~installed[p] /\ IsAside(p)
    /\ pc[p] = "finallyError" /\ ~installed[p] => dest = before[p]
    /\ pc[p] \in {"clean", "cleaning", "finally", "catch", "finallyError"} /\ installed[p] =>
         dest = Source[p]

LoneInv == IInv /\ LoneState

LEMMA LoneInit == Init => LoneState
  BY InstallAssumption DEF InstallAssumption, Init, LoneState

LEMMA LoneNext ==
  ASSUME Alone
  PROVE  LoneInv /\ [Next]_vars => LoneState'
<1> SUFFICES ASSUME LoneInv, [Next]_vars PROVE LoneState'
  OBVIOUS
<1> USE InstallAssumption DEF InstallAssumption, LoneInv, IInv, TypeOK, LocalState, Steps, Ended,
                              OneAtWork, Active, LoneState, Untouched, IsAside
<1>1. ASSUME NEW p \in Installers, Begin(p) PROVE LoneState'
  BY <1>1 DEF Begin, AfterTmp, Goto
<1>2. ASSUME NEW p \in Installers, Copy(p) PROVE LoneState'
  BY <1>2 DEF Copy, Goto
<1>3. ASSUME NEW p \in Installers, Look(p) PROVE LoneState'
  BY <1>3 DEF Look, Goto
<1>4. ASSUME NEW p \in Installers, MakeBackup(p) PROVE LoneState'
  BY <1>4 DEF MakeBackup, Goto
<1>5. ASSUME NEW p \in Installers, FreeBackup(p) PROVE LoneState'
  BY <1>5 DEF FreeBackup, Goto
<1>6. ASSUME NEW p \in Installers, SetAside(p) PROVE LoneState'
  BY <1>6 DEF SetAside, Goto
<1>7. ASSUME NEW p \in Installers, PutInPlace(p) PROVE LoneState'
  BY <1>7 DEF PutInPlace, CanTake, Goto
<1>8. ASSUME NEW p \in Installers, Clean(p) PROVE LoneState'
  BY <1>8 DEF Clean, Goto
<1>9. ASSUME NEW p \in Installers, Cleaned(p) PROVE LoneState'
  BY <1>9 DEF Cleaned, Goto
<1>10. ASSUME NEW p \in Installers, Throw(p) PROVE LoneState'
  BY <1>10 DEF Throw, Goto
<1>11. ASSUME NEW p \in Installers, Catch(p) PROVE LoneState'
  BY <1>11 DEF Catch, MustRestore, Goto
<1>12. ASSUME NEW p \in Installers, Restore(p) PROVE LoneState'
  BY <1>12 DEF Restore, CanTake, Goto
<1>13. ASSUME NEW p \in Installers, Finally(p) PROVE LoneState'
  BY <1>13 DEF Finally, Outcome, RemovesBackup, Goto
<1>14. ASSUME NEW p \in Installers, Crash(p) PROVE LoneState'
  BY <1>14 DEF Crash, Goto
<1>15. CASE UNCHANGED vars
  BY <1>15 DEF vars
<1> QED BY <1>1, <1>2, <1>3, <1>4, <1>5, <1>6, <1>7, <1>8, <1>9, <1>10, <1>11, <1>12, <1>13, <1>14, <1>15 DEF Next, Work

(* Only the finally block ends a process that is neither killed nor fails  *)
(* before it has anything to clean up.                                     *)
LEMMA EndsInFinally ==
  ASSUME TypeOK, Next, NEW p \in Installers, Active(p), pc'[p] \in {"ok", "error", "errorAside"}
  PROVE  Finally(p)
<1>1. PICK q \in Installers : Work(q) \/ Crash(q)
  BY DEF Next
<1>2. pc \in [Installers -> Steps] /\ pc[p] \notin Ended
  BY DEF TypeOK, Active
<1> USE <1>2 DEF Goto, Ended
<1>3. CASE Begin(q)
  BY <1>3 DEF Begin, AfterTmp
<1>4. CASE Copy(q) \/ Look(q) \/ MakeBackup(q) \/ FreeBackup(q) \/ SetAside(q)
  BY <1>4 DEF Copy, Look, MakeBackup, FreeBackup, SetAside
<1>5. CASE PutInPlace(q) \/ Clean(q) \/ Cleaned(q) \/ Throw(q)
  BY <1>5 DEF PutInPlace, Clean, Cleaned, Throw
<1>6. CASE Catch(q) \/ Restore(q)
  BY <1>6 DEF Catch, Restore
<1>7. CASE Crash(q)
  BY <1>7 DEF Crash
<1>8. CASE Finally(q)
  <2>1. CASE q = p
    BY <1>8, <2>1
  <2>2. CASE q # p
    BY <1>8, <2>2 DEF Finally
  <2> QED BY <2>1, <2>2
<1> QED BY <1>1, <1>3, <1>4, <1>5, <1>6, <1>7, <1>8 DEF Work

(* An installer that works alone ends with its version in place; or, where *)
(* it failed before that, with the destination as it found it; or, if even *)
(* the rename that brings the old version back failed, with that version   *)
(* set aside: whatever fails, and whatever killed installers left behind.  *)
THEOREM LoneInstallerEndsWell ==
  ASSUME Alone
  PROVE  Spec => [][Ending]_vars
<1>1. LoneInv /\ [Next]_vars => LoneInv'
  BY InvariantNext, LoneNext DEF LoneInv
<1>2. Init => LoneInv
  BY InvariantInit, LoneInit DEF LoneInv
<1>3. LoneInv /\ Next => Ending
  <2> SUFFICES ASSUME LoneInv, Next, NEW p \in Installers, Active(p),
                      pc'[p] \in {"ok", "error", "errorAside"}
               PROVE  /\ pc'[p] = "ok" => dest' = Source[p] /\ (~RemoveFails => tmp'[p] = "none")
                      /\ pc'[p] = "error" /\ ~installed[p] => dest' = before[p]
                      /\ pc'[p] = "errorAside" => backup'[p] = before[p]
    BY DEF Ending
  <2>1. Finally(p) /\ TypeOK /\ LocalState /\ LoneState
    BY EndsInFinally DEF LoneInv, IInv
  <2>2. pc'[p] = Outcome(p) /\ dest' = dest
    BY <2>1 DEF Finally, Goto, TypeOK
  <2>3. pc[p] \in {"finally", "finallyError", "finallyAside"}
    BY <2>1 DEF Finally
  <2>4. CASE pc[p] = "finally"
    <3>1. dest = Source[p] /\ pc'[p] = "ok"
      BY <2>1, <2>2, <2>4 DEF Outcome, LocalState, LoneState
    <3>2. ~RemoveFails => tmp'[p] = "none"
      BY <2>1 DEF Finally, TypeOK
    <3> QED BY <2>2, <3>1, <3>2
  <2>5. CASE pc[p] = "finallyError"
    BY <2>1, <2>2, <2>5 DEF Outcome, LoneState
  <2>6. CASE pc[p] = "finallyAside"
    <3>1. ~RemovesBackup(p) /\ backup[p] = before[p] /\ pc'[p] = "errorAside"
      BY <2>1, <2>2, <2>6 DEF Outcome, LoneState, RemovesBackup, IsAside
    <3>2. backup'[p] = backup[p]
      BY <2>1, <3>1 DEF Finally, TypeOK
    <3> QED BY <3>1, <3>2
  <2> QED BY <2>3, <2>4, <2>5, <2>6
<1> QED BY <1>1, <1>2, <1>3, PTL DEF Spec
=============================================================================
