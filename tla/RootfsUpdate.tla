---------------------------- MODULE RootfsUpdate ----------------------------
(***************************************************************************)
(* FirstBoot on a card whose root filesystem the owner replaces, by the    *)
(* commands README.md gives.                                               *)
(***************************************************************************)
EXTENDS FirstBoot

(* "Update rootfs only": rootfs.tar has the two scripts and a plain fstab; *)
(* the archive is only on a flashed card.                                  *)
UpdateRootfs ==
  /\ pc = "off" /\ Fault("update") /\ pc' = pc
  /\ files' = {"firstboot", "info"} /\ fstab' = FALSE
  /\ UNCHANGED <<part, fs, user, mounted>>

UpdateNext == Next \/ UpdateRootfs
UpdateSpec == Init /\ [][UpdateNext]_vars
=============================================================================
