-------------------------- MODULE FirstBootProofs ---------------------------
(***************************************************************************)
(* Proofs about the first boots, for every set of faults and any number of *)
(* them.                                                                   *)
(***************************************************************************)
EXTENDS FirstBoot, TLAPS

(* What keeps mkfs away from the owner's files: they are only put on a     *)
(* mounted partition; a partition is mounted from /etc/fstab at every boot *)
(* from the first mount on; and the script formats only what is not.       *)
DataInv ==
  /\ mounted \/ user \/ pc \in {"mount", "tar"} => fstab /\ fs # "none"
  /\ user /\ pc # "off" => mounted
  /\ pc \in {"mkfs", "fstab", "mount"} => ~mounted
  /\ pc = "fstab" => fs # "none"

(* A card as flashed holds no files of the owner.                          *)
LEMMA DataInvInitially == Init => DataInv
BY DEF Init, DataInv

(* No command, fault or boot breaks the invariant.                         *)
LEMMA DataInvKept == DataInv /\ [Next]_vars => DataInv'
<1> SUFFICES ASSUME DataInv, [Next]_vars PROVE DataInv'
  OBVIOUS
<1> USE DEF DataInv, At, SimpleInit
<1>1. CASE PowerOn
  BY <1>1 DEF PowerOn
<1>2. CASE Check
  BY <1>2 DEF Check
<1>3. CASE Fdisk \/ SetType \/ Reboot
  BY <1>3 DEF Fdisk, SetType, Reboot
<1>4. CASE Mkfs \/ MkfsFails
  BY <1>4 DEF Mkfs, MkfsFails
<1>5. CASE Fstab \/ Mount
  BY <1>5 DEF Fstab, Mount
<1>6. CASE Unpack \/ Unpacked
  BY <1>6 DEF Unpack, Unpacked
<1>7. CASE Cleanup
  <2>1. /\ pc' \in {"mv info", "rm", "running"}
        /\ pc \in {"mv", "mv info", "rm"}
        /\ UNCHANGED <<fs, user, fstab, mounted>>
    BY <1>7 DEF Cleanup, Drop
  <2> QED
    BY <2>1
<1>8. CASE UserWrites \/ PowerOff
  BY <1>8 DEF UserWrites, PowerOff
<1>9. CASE Crash
  BY <1>9 DEF Crash
<1>10. CASE Kill
  BY <1>10 DEF Kill
<1>11. CASE UNCHANGED vars
  BY <1>11 DEF vars
<1> QED
  BY <1>1, <1>2, <1>3, <1>4, <1>5, <1>6, <1>7, <1>8, <1>9, <1>10, <1>11
  DEF Next, Script

(* The owner's files survive every boot, whatever fails and however often. *)
THEOREM UserDataAlwaysKept == Spec => UserDataKept
<1>1. DataInv /\ [Next]_vars => [user => user']_vars
  <2> SUFFICES ASSUME DataInv, Next, user PROVE user'
    BY DEF vars
  <2>1. pc # "mkfs"
    BY DEF DataInv
  <2> QED
    BY <2>1 DEF Next, Script, PowerOn, Check, Fdisk, SetType, Reboot, Mkfs,
       MkfsFails, Fstab, Mount, Unpack, Unpacked, Cleanup, Drop, UserWrites,
       PowerOff, Crash, Kill, At
<1> QED
  BY <1>1, DataInvInitially, DataInvKept, PTL DEF Spec, UserDataKept

(* The clean-up goes from the script that would run again to the archive   *)
(* it would need.                                                          *)
Unfinished == {"check", "fdisk", "type", "reboot", "mkfs", "fstab", "mount", "tar", "mv"}
CleanupInv ==
  /\ "firstboot" \in files => "info" \in files /\ "archive" \in files
  /\ pc \in Unfinished => "firstboot" \in files
  /\ pc \in {"mv info", "rm"} => "firstboot" \notin files
  /\ "firstboot" \notin files \/ pc = "mv" => fs = "full"

(* No command, fault or boot takes the files in another order.             *)
LEMMA CleanupInvKept == CleanupInv /\ [Next]_vars => CleanupInv'
<1> SUFFICES ASSUME CleanupInv, [Next]_vars PROVE CleanupInv'
  OBVIOUS
<1> USE DEF CleanupInv, Unfinished, At, SimpleInit
<1>1. CASE PowerOn \/ Check
  BY <1>1 DEF PowerOn, Check
<1>2. CASE Fdisk \/ SetType \/ Reboot
  BY <1>2 DEF Fdisk, SetType, Reboot
<1>3. CASE Mkfs \/ MkfsFails
  BY <1>3 DEF Mkfs, MkfsFails
<1>4. CASE Fstab \/ Mount
  BY <1>4 DEF Fstab, Mount
<1>5. CASE Unpack \/ Unpacked
  BY <1>5 DEF Unpack, Unpacked
<1>6. CASE Cleanup
  BY <1>6 DEF Cleanup, Drop
<1>7. CASE UserWrites \/ PowerOff
  BY <1>7 DEF UserWrites, PowerOff
<1>8. CASE Crash
  BY <1>8 DEF Crash
<1>9. CASE Kill
  BY <1>9 DEF Kill
<1>10. CASE UNCHANGED vars
  BY <1>10 DEF vars
<1> QED
  BY <1>1, <1>2, <1>3, <1>4, <1>5, <1>6, <1>7, <1>8, <1>9, <1>10 DEF Next, Script

(* The invariant holds throughout.                                         *)
LEMMA CleanupInvAlways == Spec => []CleanupInv
<1>1. Init => CleanupInv
  BY DEF Init, Flashed, CleanupInv, Unfinished
<1> QED
  BY <1>1, CleanupInvKept, PTL DEF Spec

(* The archive goes last, and only once its contents are on the partition. *)
THEOREM ArchiveAlwaysUntilUnpacked == Spec => []ArchiveUntilUnpacked
<1>1. CleanupInv => ArchiveUntilUnpacked
  BY DEF CleanupInv, ArchiveUntilUnpacked
<1> QED
  BY <1>1, CleanupInvAlways, PTL

(* firstboot.sh is never left without the variables it sources.            *)
THEOREM ScriptAlwaysFindsVariables == Spec => []ScriptFindsVariables
<1>1. CleanupInv => ScriptFindsVariables
  BY DEF CleanupInv, ScriptFindsVariables
<1> QED
  BY <1>1, CleanupInvAlways, PTL

-----------------------------------------------------------------------------
(* Type correctness, for any number of faults.                             *)
THEOREM FirstBootAlwaysTyped == Spec => []FirstBootTypeOK
<1>1. Init => FirstBootTypeOK
  <2>1. Init => faults \in Nat
    BY DEF Init
  <2> QED
    BY <2>1, Zenon DEF Init, FirstBootTypeOK
<1>2. FirstBootTypeOK /\ [Next]_vars => FirstBootTypeOK'
  <2> SUFFICES ASSUME FirstBootTypeOK, [Next]_vars PROVE FirstBootTypeOK'
    OBVIOUS
  <2>0. faults' \in Nat
    <3>1. faults' = faults \/ faults' = faults + 1
      BY Zenon DEF Next, Script, PowerOn, Check, Fdisk, SetType, Reboot, Mkfs,
         MkfsFails, Fstab, Mount, Unpack, Unpacked, Cleanup, Drop, UserWrites,
         PowerOff, Crash, Kill, At, Fault, vars
    <3>2. faults \in Nat
      BY DEF FirstBootTypeOK
    <3> QED
      BY <3>1, <3>2
  <2> USE DEF FirstBootTypeOK, At, SimpleInit
  <2>1. CASE PowerOn
    BY <2>1 DEF PowerOn
  <2>2. CASE Check \/ Fdisk \/ SetType \/ Reboot
    BY <2>2 DEF Check, Fdisk, SetType, Reboot
  <2>3. CASE Mkfs \/ MkfsFails
    BY <2>0, <2>3, Zenon DEF Mkfs, MkfsFails
  <2>4. CASE Fstab \/ Mount
    BY <2>4 DEF Fstab, Mount
  <2>5. CASE Unpack \/ Unpacked
    BY <2>5 DEF Unpack, Unpacked
  <2>6. CASE Cleanup
    BY <2>6 DEF Cleanup, Drop
  <2>7. CASE UserWrites \/ PowerOff
    BY <2>7 DEF UserWrites, PowerOff
  <2>8. CASE Crash \/ Kill
    BY <2>0, <2>8, Zenon DEF Crash, Kill
  <2>9. CASE UNCHANGED vars
    BY <2>9 DEF vars
  <2> QED
    BY <2>1, <2>2, <2>3, <2>4, <2>5, <2>6, <2>7, <2>8, <2>9 DEF Next, Script
<1> QED
  BY <1>1, <1>2, PTL DEF Spec
=============================================================================
