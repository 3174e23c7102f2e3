----------------------------- MODULE FirstBoot ------------------------------
(***************************************************************************)
(* Setting the card up on the first boots: simple-init.sh runs             *)
(* firstboot.sh for as long as that file exists.  The first run adds a     *)
(* third partition and reboots; the second one formats it, mounts it on    *)
(* /roms, unpacks the archive there and puts itself out of the way.        *)
(*                                                                         *)
(* A command's effect is on the card when the command returns.  Power may  *)
(* fail between any two, inside mkfs and inside tar; the service may be    *)
(* killed and is then restarted by systemd; the owner puts files on /roms. *)
(***************************************************************************)
EXTENDS Naturals

CONSTANTS
  Faults,    \* what may go wrong, among "crash", "kill" and "mkfs"
  MaxFaults  \* bound on how often

VARIABLES
  part,     \* the third partition: "none", type "linux" or type "exfat"
  fs,       \* what it holds: "none", "empty", "partial" or "full"
  user,     \* the owner has files there
  fstab,    \* /etc/fstab has a line for it
  mounted,  \* it is in /proc/mounts
  files,    \* which of firstboot.sh, partition-info.sh, roms.tar.xz /root has
  pc,       \* the next command of firstboot.sh, "off" or "running"
  faults    \* how often something went wrong

vars == <<part, fs, user, fstab, mounted, files, pc, faults>>

Flashed == {"firstboot", "info", "archive"}

(* A card as mk-flashable-img.sh writes it.                                *)
Init ==
  /\ part = "none" /\ fs = "none" /\ user = FALSE /\ fstab = FALSE
  /\ mounted = FALSE /\ files = Flashed /\ pc = "off" /\ faults = 0

Fault(f) == f \in Faults /\ faults < MaxFaults /\ faults' = faults + 1
At(here, next) == pc = here /\ pc' = next /\ UNCHANGED faults

(* simple-init.sh, at boot and when systemd restarts it.                   *)
SimpleInit == IF "firstboot" \in files THEN "check" ELSE "running"

PowerOn ==
  /\ At("off", SimpleInit)
  /\ mounted' = (fstab /\ fs # "none")
  /\ UNCHANGED <<part, fs, user, fstab, files>>

CheckIgnoresMounts ==
  /\ At("check", IF part = "none" THEN "fdisk" ELSE "mkfs")
  /\ UNCHANGED <<part, fs, user, fstab, mounted, files>>

Check ==
  /\ At("check", IF part = "none" THEN "fdisk"
                 ELSE IF mounted THEN "running" ELSE "mkfs")
  /\ UNCHANGED <<part, fs, user, fstab, mounted, files>>

FdiskFails ==
  /\ At("fdisk", "type")
  /\ UNCHANGED <<part, fs, user, fstab, mounted, files>>

Fdisk ==
  /\ At("fdisk", "type")
  /\ part' = "linux"
  /\ UNCHANGED <<fs, user, fstab, mounted, files>>

SetType ==
  /\ At("type", "reboot")
  /\ part' = IF part = "none" THEN "none" ELSE "exfat"
  /\ UNCHANGED <<fs, user, fstab, mounted, files>>

Reboot ==
  /\ At("reboot", "off")
  /\ mounted' = FALSE
  /\ UNCHANGED <<part, fs, user, fstab, files>>

Mkfs ==
  /\ At("mkfs", "fstab")
  /\ fs' = "empty" /\ user' = FALSE
  /\ UNCHANGED <<part, fstab, mounted, files>>

(* exit 1; simple-init.sh does not look at the status.                     *)
MkfsFails ==
  /\ pc = "mkfs" /\ Fault("mkfs") /\ pc' = "running"
  /\ UNCHANGED <<part, fs, user, fstab, mounted, files>>

Fstab ==
  /\ At("fstab", "mount")
  /\ fstab' = TRUE
  /\ UNCHANGED <<part, fs, user, mounted, files>>

Mount ==
  /\ At("mount", "tar")
  /\ mounted' = TRUE
  /\ UNCHANGED <<part, fs, user, fstab, files>>

(* tar: its status is not looked at; without an archive it does nothing.   *)
Unpack ==
  /\ At("tar", "tar")
  /\ "archive" \in files /\ fs = "empty"
  /\ fs' = "partial"
  /\ UNCHANGED <<part, user, fstab, mounted, files>>

Unpacked ==
  /\ At("tar", "mv")
  /\ IF "archive" \in files THEN fs = "partial" /\ fs' = "full" ELSE UNCHANGED fs
  /\ UNCHANGED <<part, user, fstab, mounted, files>>

Drop(here, file, next) ==
  /\ At(here, next)
  /\ files' = files \ {file}
  /\ UNCHANGED <<part, fs, user, fstab, mounted>>

CleanupBeforeTar ==
  \/ Drop("mount", "firstboot", "mv info")
  \/ Drop("mv info", "info", "rm")
  \/ Drop("rm", "archive", "running")
CleanupInfoFirst ==
  \/ Drop("mv", "info", "mv info")
  \/ Drop("mv info", "firstboot", "rm")
  \/ Drop("rm", "archive", "running")

Cleanup ==
  \/ Drop("mv", "firstboot", "mv info")
  \/ Drop("mv info", "info", "rm")
  \/ Drop("rm", "archive", "running")

-----------------------------------------------------------------------------
(* The surroundings.                                                       *)

UserWrites ==
  /\ pc # "off" /\ mounted /\ user' = TRUE
  /\ UNCHANGED <<part, fs, fstab, mounted, files, pc, faults>>

PowerOff ==
  /\ At("running", "off")
  /\ mounted' = FALSE
  /\ UNCHANGED <<part, fs, user, fstab, files>>

(* Power fails; during mkfs the filesystem is neither the old nor the new. *)
Crash ==
  /\ pc # "off" /\ Fault("crash") /\ pc' = "off" /\ mounted' = FALSE
  /\ \/ UNCHANGED <<fs, user>>
     \/ pc = "mkfs" /\ fs' = "none" /\ user' = FALSE
  /\ UNCHANGED <<part, fstab, files>>

(* Restart=on-failure: what was mounted stays mounted.                     *)
Kill ==
  /\ pc # "off" /\ Fault("kill") /\ pc' = SimpleInit
  /\ \/ UNCHANGED <<fs, user>>
     \/ pc = "mkfs" /\ fs' = "none" /\ user' = FALSE
  /\ UNCHANGED <<part, fstab, mounted, files>>

Script ==
  \/ Check \/ Fdisk \/ SetType \/ Reboot
  \/ Mkfs \/ MkfsFails \/ Fstab \/ Mount \/ Unpack \/ Unpacked \/ Cleanup

Next ==
  \/ PowerOn \/ Script
  \/ UserWrites \/ PowerOff \/ Crash \/ Kill

Spec == Init /\ [][Next]_vars

(* The device is switched on again, and a script that runs goes on.        *)
FairSpec == Spec /\ WF_vars(PowerOn) /\ WF_vars(Script)

-----------------------------------------------------------------------------
(* Properties.                                                             *)

(* Type correctness.                                                       *)
FirstBootTypeOK ==
  /\ part \in {"none", "linux", "exfat"}
  /\ fs \in {"none", "empty", "partial", "full"}
  /\ user \in BOOLEAN /\ fstab \in BOOLEAN /\ mounted \in BOOLEAN
  /\ files \subseteq Flashed /\ faults \in Nat
  /\ pc \in {"off", "check", "fdisk", "type", "reboot", "mkfs", "fstab", "mount",
             "tar", "mv", "mv info", "rm", "running"}

(* mkfs.exfat never meets files of the owner, however often power fails or *)
(* the service is restarted before the set-up is complete.                 *)
UserDataKept == [][user => user']_vars

(* The archive is the only copy of what /roms starts with: it is removed   *)
(* only once all of it is on the partition.                                *)
ArchiveUntilUnpacked == "archive" \notin files => fs = "full"

(* firstboot.sh sources partition-info.sh first: wherever power fails      *)
(* during the clean-up, the one is never left without the other (mkfs and  *)
(* fdisk would run on empty names).                                        *)
ScriptFindsVariables == "firstboot" \in files => "info" \in files

(* No boot loop: whatever went wrong before, a device that is switched on  *)
(* and left on gets through to the launcher (the first boot reboots).      *)
ReachesLauncher == []<>(pc = "running")
=============================================================================
