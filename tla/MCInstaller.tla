---------------------------- MODULE MCInstaller ----------------------------
(***************************************************************************)
(* Instances of Installer: two files, the last one the disk image, of two  *)
(* buffers each.                                                           *)
(***************************************************************************)
EXTENDS Installer

MCFiles == <<"cdrom", "hdd">>
=============================================================================
