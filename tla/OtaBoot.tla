------------------------------ MODULE OtaBoot -------------------------------
(***************************************************************************)
(* Over-the-air update with two images (src/ota/ota.c, src/image/image.c   *)
(* and the cmd_ota commands) and the bootloader that chooses between them  *)
(* (project/bootloader/main.c).  The power may fail at any step.           *)
(*                                                                         *)
(* The area of an image is a row of chunks: its sections, the program      *)
(* that the bootloader loads first, then the verification data.  A chunk   *)
(* is erased, or it is damaged and its checksum tells ("bad"), damaged     *)
(* unnoticed by the 16-bit checksum ("weak"), or as it was built ("good"). *)
(* Verification data is "weak" if it has its magic number but the digest   *)
(* of another image, and "bad" without its magic number.                   *)
(*                                                                         *)
(* The image configuration is kept by Fdcm and is here what Fdcm shows it  *)
(* to be, an NVRegister.                                                   *)
(***************************************************************************)
EXTENDS Integers

CONSTANTS Secs,    \* sections of an image behind the bootloader
          Size,    \* chunks that fit into the area of an image (img_max_size)
          Faults   \* what may fail of the configuration, besides for want of power

ASSUME OtaBootAssumption ==
  /\ Secs \in Nat \ {0} /\ Size \in Nat /\ Secs < Size
  /\ Faults \subseteq {"cfgwrite", "cfgread"}

VARIABLES
  pc,      \* where the program is
  area,    \* what is in the flash of each image
  cfg,     \* the image named verified, NoSeq if there is none
  want,    \* image_set_cfg: the image to name
  booted,  \* the image the bootloader jumped to
  run,     \* image_priv.iop.running_seq, of the program
  k,       \* the chunk to erase or to write next
  due,     \* history: verification data was written
  upset    \* history: the configuration could not be written or read

vars == <<pc, area, cfg, want, booted, run, k, due, upset>>

IMAGE_SEQ_NUM == 2
Seqs   == 0 .. IMAGE_SEQ_NUM - 1
NoSeq  == IMAGE_SEQ_NUM
Chunks == 1 .. Size
App    == 1
Ver    == Secs + 1

Chunk == {"blank", "bad", "weak", "good"}
Sound == {"weak", "good"}    \* the checksum agrees

\* Mutant of Policy: the running image is the one to update.
PolicySame == [s \in Seqs |-> s]

\* ota_update_seq_policy.
Policy == [s \in Seqs |-> 1 - s]

-----------------------------------------------------------------------------
(* The bootloader.                                                         *)

\* The image it tries first, ...
First == IF cfg = NoSeq THEN 0 ELSE cfg

\* ... and the one it loads, of which it checks the program only.
Loads(s)   == area[s][App] \in Sound
LoadSeq(i) == (First + i) % IMAGE_SEQ_NUM

Booted(s) ==
  \E i \in Seqs : s = LoadSeq(i) /\ Loads(s) /\ \A j \in 0 .. i - 1 : ~Loads(LoadSeq(j))

\* bl_load_bin: an image that is not the one named is named before it starts.
Boot ==
  /\ pc = "off"
  /\ \E s \in Seqs :
       /\ Booted(s)
       /\ booted' = s
       /\ want' = s
       /\ pc' = IF s = cfg THEN "start" ELSE "bootcfg"
  /\ UNCHANGED <<area, cfg, run, k, due, upset>>

\* main: neither image loads.
Upgrade ==
  /\ pc = "off"
  /\ \A s \in Seqs : ~Loads(s)
  /\ pc' = "upgrade"
  /\ UNCHANGED <<area, cfg, want, booted, run, k, due, upset>>

\* image_init of the program.
Start ==
  /\ pc = "start"
  /\ \/ run' = First /\ UNCHANGED upset
     \/ "cfgread" \in Faults /\ run' = 0 /\ upset' = TRUE
  /\ pc' = "app"
  /\ UNCHANGED <<area, cfg, want, booted, k, due>>

-----------------------------------------------------------------------------
(* image_set_cfg, called by the bootloader and by ota_verify_image.        *)

Setting == pc \in {"bootcfg", "setcfg"}

CfgLost ==
  /\ Setting
  /\ cfg' = NoSeq
  /\ UNCHANGED <<pc, area, want, booted, run, k, due, upset>>

CfgStored ==
  /\ Setting
  /\ cfg' = want
  /\ pc' = IF pc = "bootcfg" THEN "start" ELSE "reboot"
  /\ UNCHANGED <<area, want, booted, run, k, due, upset>>

\* An error, from a write or from reading it back: the bootloader starts the
\* image all the same, the command fails.
CfgFails ==
  /\ Setting
  /\ "cfgwrite" \in Faults
  /\ cfg' \in {cfg, want, NoSeq}
  /\ pc' = IF pc = "bootcfg" THEN "start" ELSE "app"
  /\ upset' = TRUE
  /\ UNCHANGED <<area, want, booted, run, k, due>>

-----------------------------------------------------------------------------
(* ota_get_image.                                                          *)

Upd == Policy[run]    \* ota_get_update_seq

Put(c) == area' = [area EXCEPT ![Upd][k] = c]

Back == pc' = "app" /\ UNCHANGED <<cfg, want, booted, run, k, due, upset>>

GetImage ==
  /\ pc = "app"
  /\ pc' = "erase" /\ k' = 1 /\ due' = FALSE
  /\ UNCHANGED <<area, cfg, want, booted, run, upset>>

EraseChunk ==
  /\ pc = "erase"
  /\ Put("blank")
  /\ IF k = Size THEN pc' = "fetch" /\ UNCHANGED k ELSE k' = k + 1 /\ UNCHANGED pc
  /\ UNCHANGED <<cfg, want, booted, run, due, upset>>

EraseFails ==
  /\ pc = "erase"
  /\ UNCHANGED area \/ Put("bad")
  /\ Back

\* The bootloader that comes before the sections is skipped.
Skip ==
  /\ pc = "fetch"
  /\ pc' = "write" /\ k' = 1
  /\ UNCHANGED <<area, cfg, want, booted, run, due, upset>>

\* No memory, no connection, an error or the end in the bootloader, no flash.
SkipFails == pc = "fetch" /\ Back /\ UNCHANGED area

\* A chunk comes and is written.  The file may end with it, and at the size of
\* the area it is taken to end.
Write ==
  /\ pc = "write"
  /\ \E c \in {"bad", "weak", "good"} :
       Put(c) /\ due' = (due \/ (k = Ver /\ c \in Sound))
  /\ \/ pc' = "check" /\ UNCHANGED k
     \/ k < Size /\ k' = k + 1 /\ UNCHANGED pc
  /\ UNCHANGED <<cfg, want, booted, run, upset>>

\* The end of the file by itself.
Eof == pc = "write" /\ pc' = "check" /\ UNCHANGED <<area, cfg, want, booted, run, k, due, upset>>

\* An error from the peer.
ReceiveFails == pc = "write" /\ Back /\ UNCHANGED area

\* A write that fails ends the update, but img_max_size has been counted down
\* before it: at the last chunk the sections are checked as if all was written.
WriteFails ==
  /\ pc = "write"
  /\ \E c \in {"blank", "bad"} : Put(c)
  /\ pc' = IF k = Size THEN "check" ELSE "app"
  /\ UNCHANGED <<cfg, want, booted, run, k, due, upset>>

Whole(s) == \A i \in 1 .. Secs : area[s][i] \in Sound
Exact(s) == \A i \in 1 .. Secs : area[s][i] = "good"

\* Mutant of CheckSections: the program is looked at, as the bootloader does.
CheckProgram ==
  /\ pc = "check"
  /\ pc' = IF Loads(Upd) THEN "verify" ELSE "app"
  /\ UNCHANGED <<area, cfg, want, booted, run, k, due, upset>>

\* image_check_sections.
CheckSections ==
  /\ pc = "check"
  /\ pc' = IF Whole(Upd) THEN "verify" ELSE "app"
  /\ UNCHANGED <<area, cfg, want, booted, run, k, due, upset>>

\* ota_get_verify_data and the comparison of ota_verify_image: without
\* verification data there is none.
Verified == area[Upd][Ver] \in Sound => area[Upd][Ver] = "good" /\ Exact(Upd)

\* Mutant of VerifyImage: the result of ota_verify_image is not looked at.
VerifyNone ==
  /\ pc = "verify"
  /\ pc' = "setcfg" /\ want' = Upd
  /\ UNCHANGED <<area, cfg, booted, run, k, due, upset>>

\* Mutant of VerifyImage: the running image is named.
VerifyRunning ==
  /\ pc = "verify"
  /\ IF Verified THEN pc' = "setcfg" /\ want' = run ELSE pc' = "app" /\ UNCHANGED want
  /\ UNCHANGED <<area, cfg, booted, run, k, due, upset>>

VerifyImage ==
  /\ pc = "verify"
  /\ IF Verified THEN pc' = "setcfg" /\ want' = Upd ELSE pc' = "app" /\ UNCHANGED want
  /\ UNCHANGED <<area, cfg, booted, run, k, due, upset>>

\* ota_reboot.
Reboot ==
  /\ pc = "reboot"
  /\ pc' = "off"
  /\ UNCHANGED <<area, cfg, want, booted, run, k, due, upset>>

PowerFails ==
  /\ pc # "off" /\ pc' = "off"
  /\ \/ UNCHANGED area
     \/ pc \in {"erase", "write"} /\ Put("bad")
  /\ UNCHANGED <<cfg, want, booted, run, k, due, upset>>

-----------------------------------------------------------------------------
\* As it leaves the factory: one image.
Init ==
  /\ pc = "off"
  /\ area = [s \in Seqs |->
               [i \in Chunks |-> IF s = 0 /\ i <= Secs THEN "good" ELSE "blank"]]
  /\ cfg = NoSeq
  /\ want = 0 /\ booted = 0 /\ run = 0 /\ k = 1
  /\ due = FALSE /\ upset = FALSE

Next ==
  \/ Boot \/ Upgrade \/ Start
  \/ CfgLost \/ CfgStored \/ CfgFails
  \/ GetImage \/ EraseChunk \/ EraseFails \/ Skip \/ SkipFails
  \/ Write \/ Eof \/ ReceiveFails \/ WriteFails
  \/ CheckSections \/ VerifyImage \/ Reboot \/ PowerFails

Spec == Init /\ [][Next]_vars

-----------------------------------------------------------------------------
(* Properties.                                                             *)

Running == {"app", "erase", "fetch", "write", "check", "verify", "setcfg", "reboot"}

TypeOK ==
  /\ pc \in Running \cup {"off", "bootcfg", "start", "upgrade"}
  /\ area \in [Seqs -> [Chunks -> Chunk]]
  /\ cfg \in Seqs \cup {NoSeq}
  /\ want \in Seqs /\ booted \in Seqs /\ run \in Seqs
  /\ k \in Chunks
  /\ due \in BOOLEAN /\ upset \in BOOLEAN

\* As long as the configuration could be written and read, whenever the power
\* fails the image the bootloader tries first is whole, though it will look at
\* no more than the program in it.
BootsWhole == ~upset => Whole(First)

\* As long as the configuration could be written and read, nothing touches the
\* flash of the image that runs, from where its code is executed.
KeepsRunning == ~upset' /\ pc \in Running => area'[booted] = area[booted]
RunningKept  == [][KeepsRunning]_vars

\* The restart that ends an update starts the image it brought, in place of
\* the one that ran.
UpdateTakes ==
  pc = "reboot" => Booted(want) /\ Whole(want) /\ (~upset => want # booted)

\* An image whose verification data was written is named only if it is, bit by
\* bit, the one the data belongs to.
DigestHeeded == pc \in {"setcfg", "reboot"} /\ due => Exact(want)

\* The configuration is used as a store of one record is meant to be, which is
\* what Fdcm implements.
Cfg == INSTANCE NVRegister WITH
         Vals <- Seqs, Lost <- {NoSeq}, Idle <- NoSeq, Erase <- NoSeq + 1,
         reg <- cfg, doing <- IF Setting THEN want ELSE NoSeq

CfgIsRegister == Cfg!Spec

-----------------------------------------------------------------------------
(* What a comment says, and the code does not keep (README, 5). *)

\* image_get_running_seq returns the running image.  With no configuration the
\* code takes the first for it.
RunningSeqRight == pc \in Running => run = booted
=============================================================================
