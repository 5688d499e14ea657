----------------------------- MODULE ImageLife -----------------------------
(***************************************************************************)
(* The life of an image: mkqizoimg builds it and check_fs reads it back;    *)
(* then it is wrapped in an iso, or booted beside a second drive and looked *)
(* at by the kernel.                                                        *)
(***************************************************************************)
EXTENDS Volume, Iso

\* The words of a file are 16 bits wide, and a file has some.
ASSUME FileWordsAssumption == FileWords # {} /\ \A w \in FileWords : w \in Nat /\ w <= 65535

(* mkqizoimg.main refuses a kernel of more than QIZO_KERNEL_MAX bytes with  *)
(* its header, and a blob of more than QIZO_BLOB_MAX bytes.  --image-sectors*)
(* is any number.  The second drive holds any sound volume.                 *)
ASSUME RequestsAssumption ==
  \A r \in Requests :
    /\ r.blob \in Nat /\ r.blob <= 248 /\ r.kernel \in Nat /\ r.kernel <= 1024
    /\ r.sectors \in Int
    /\ r.bad \in Nat /\ r.rooms \subseteq Nat /\ SoundVolume(r.other)

allVars == <<vars, isoVars>>
LifeInit == Init /\ ScanInit /\ IsoInit
LifeNext ==
  \/ BuildNext /\ UNCHANGED <<scanVars, isoVars>>
  \/ ScanNext /\ UNCHANGED isoVars
  \/ IsoNext /\ UNCHANGED scanVars
LifeSpec == LifeInit /\ [][LifeNext]_allVars

(* Everything goes on by itself but the user's next command.                *)
LifeStep ==
  \/ BuildNext /\ UNCHANGED <<scanVars, isoVars>>
  \/ ScanStep /\ UNCHANGED isoVars
  \/ IsoNext /\ UNCHANGED scanVars
Spec == LifeSpec /\ WF_allVars(LifeStep)

(* Whatever is asked, the build, the check, the wrapping and every scan of  *)
(* a drive come to an end.                                                  *)
Ends == []<>(pc \in {"refused", "crashed", "isoChecked", "idle"})
===========================================================================
